--------------------------- MODULE IsoFilesProofs ---------------------------
(* Module IsoFiles, for any number of workers and any node names.          *)
EXTENDS IsoFiles, TLAPS

(* A worker's nodes, and where it can be in its loop over them.            *)
Shape ==
    \A w \in Workers :
        /\ todo[w] \subseteq job[w].nodes
        /\ at[w] \subseteq job[w].nodes
        /\ at[w] \cap todo[w] = {}
        /\ \A m, n \in at[w] : m = n
        /\ pc[w] \in {"idle", "extract", "next"} => at[w] = {}
        /\ pc[w] = "idle" => job[w] = NoJob
        /\ pc[w] \in {"copying", "sending", "abandoned"} \/ body[w] = NoFile

(* Who shares a node with an active worker is disturbed.                   *)
Meets ==
    \A v, w \in Workers :
        v # w /\ Active(v) /\ job[v].nodes \cap job[w].nodes # {}
        => w \in disturbed

(* A worker's kickstarts are found under the names of its own nodes only.  *)
Marks ==
    \A v \in Workers :
        /\ \A p \in Path : v \in files[p].by => p[2] \in job[v].nodes
        /\ \A n \in Names : v \in store[n].by => n \in job[v].nodes
        /\ \A u \in Workers : v \in body[u].by => at[u] \subseteq job[v].nodes

Half(w) == [by |-> {w}, unfinished |-> {w}]

(* What an undisturbed worker finds at its paths, at each of its steps.    *)
StageOf(w, n) ==
    /\ pc[w] = "staged" => files[Built(w, n)] = NoFile
    /\ pc[w] = "mastering" => files[Built(w, n)] = Half(w)
    /\ pc[w] = "built" => files[Built(w, n)] = Own(w)
    /\ pc[w] = "copying" => /\ MustMove(w, n) /\ files[Result(w, n)] = Half(w)
                            /\ files[Built(w, n)] = Own(w)
    /\ pc[w] \in {"placed", "sending", "uploaded"}
          => /\ files[Result(w, n)] = Own(w)
             /\ MustMove(w, n) => files[Built(w, n)] \in {NoFile, Own(w)}
    /\ pc[w] = "uploaded" => store[n] = Own(w)

BodyOf(w) ==
    pc[w] \in {"copying", "sending", "abandoned"} => body[w] = Own(w)

NodesOf(w) ==
    \A n \in job[w].nodes \ at[w] :
        IF n \in todo[w] THEN Untouched(w, n) ELSE Complete(w, n)

Kept(w) == (\A n \in at[w] : StageOf(w, n)) /\ BodyOf(w) /\ NodesOf(w)

IInv ==
    /\ TypeOK /\ Shape /\ Meets /\ Marks
    /\ \A w \in Workers \ disturbed : Kept(w)

-----------------------------------------------------------------------------
(* Files and their paths.                                                  *)
LEMMA ContentParts ==
  ASSUME NEW c \in Content
  PROVE  /\ c.by \in SUBSET Workers
         /\ c.unfinished \subseteq c.by
         /\ c = [by |-> c.by, unfinished |-> c.unfinished]
BY DEF Content

LEMMA ContentMade ==
  ASSUME NEW b \in SUBSET Workers, NEW f \in SUBSET b
  PROVE  [by |-> b, unfinished |-> f] \in Content
BY DEF Content

LEMMA Contents ==
  ASSUME NEW w \in Workers, NEW f \in Content, NEW c \in Content
  PROVE  /\ NoFile \in Content /\ Own(w) \in Content
         /\ Opened(w, f) \in Content
         /\ Finished(w, f, c) \in Content
         /\ [by |-> f.by \cup {w}, unfinished |-> f.unfinished \cup {w}] \in Content
<1>1. NoFile \in Content /\ Own(w) \in Content
  BY ContentMade DEF NoFile, Own
<1>2. Opened(w, f) \in Content
  BY ContentParts, ContentMade DEF Opened
<1>3. Finished(w, f, c) \in Content
  <2>1. CASE w \notin f.unfinished
    BY <2>1 DEF Finished
  <2>2. CASE w \in f.unfinished
    <3>1. (f.unfinished \ {w}) \cup c.unfinished \in SUBSET ((f.by \ {w}) \cup c.by)
      BY ContentParts
    <3>2. (f.by \ {w}) \cup c.by \in SUBSET Workers
      BY ContentParts
    <3>3. QED
      BY <2>2, <3>1, <3>2, ContentMade DEF Finished
  <2>3. QED
    BY <2>1, <2>2
<1>4. [by |-> f.by \cup {w}, unfinished |-> f.unfinished \cup {w}] \in Content
  <2>1. f.unfinished \cup {w} \in SUBSET (f.by \cup {w})
    BY ContentParts
  <2>2. QED
    BY <2>1, ContentParts, ContentMade
<1>5. QED
  BY <1>1, <1>2, <1>3, <1>4

LEMMA Paths ==
  ASSUME NEW w \in Workers, NEW n \in Names
  PROVE  /\ Built(w, n) \in Path /\ Built(w, n)[2] = n
         /\ Result(w, n) \in Path /\ Result(w, n)[2] = n
BY DEF Built, Result, Path

(* A removal is done or not, and touches nothing else.                     *)
LEMMA Removal ==
  ASSUME TypeOK, NEW P, NEW left \in AfterRemoval(P)
  PROVE  /\ left \in [Path -> Content]
         /\ \A p \in Path : left[p] \in {files[p], NoFile}
         /\ \A p \in Path : p \notin P => left[p] = files[p]
<1>1. PICK gone \in SUBSET P :
        left = [p \in Path |-> IF p \in gone THEN NoFile ELSE files[p]]
  BY DEF AfterRemoval
<1>2. NoFile \in Content
  BY ContentMade DEF NoFile
<1>3. QED
  BY <1>1, <1>2 DEF TypeOK

LEMMA JobParts ==
  ASSUME NEW j \in Job \cup {NoJob}
  PROVE  j.nodes \subseteq Names
<1>1. CASE j.nodes \in {{n} : n \in Names}
  BY <1>1
<1>2. CASE j.nodes \in (SUBSET Names) \ {{}}
  BY <1>2
<1>3. CASE j = NoJob
  BY <1>3 DEF NoJob
<1>4. CASE j \in Job
  <2>1. \A S, A, B, C, D : j \in [verb : A, nodes : S, out : B, upload : C, keep : D]
                           => j.nodes \in S
    OBVIOUS
  <2>2. j.nodes \in {{n} : n \in Names} \/ j.nodes \in (SUBSET Names) \ {{}}
    BY <1>4, <2>1, Zenon DEF Job
  <2>3. QED
    BY <1>1, <1>2, <2>2
<1>5. QED
  BY <1>3, <1>4

-----------------------------------------------------------------------------
(* What a step of one worker does to the others.                           *)
LEMMA Bystander ==
  ASSUME TypeOK, NEW v \in Workers, NEW u \in Workers, u # v, Worker(v)
  PROVE  /\ job'[u] = job[u] /\ pc'[u] = pc[u] /\ todo'[u] = todo[u]
         /\ at'[u] = at[u] /\ body'[u] = body[u]
BY DEF TypeOK, Worker, Begin, Extract, Stage, OpenIso, CloseIso, Stay, Rename,
       CopyBegins, CopyEnds, ReadIso, Posted, Abandon, LateStore, NodeDone,
       Fails, Kill, Goto, Forget

(* A step of v leaves the files and the volumes of all other names alone.  *)
Elsewhere(n) ==
    (\A p \in Path : p[2] = n => files'[p] = files[p]) /\ store'[n] = store[n]

LEMMA Locality ==
  ASSUME TypeOK, NEW v \in Workers, Worker(v), NEW n \in Names,
         n \notin at[v] \cup at'[v]
  PROVE  Elsewhere(n)
<1> USE Paths DEF TypeOK
<1>1. CASE Begin(v) \/ Extract(v) \/ Stay(v) \/ ReadIso(v) \/ Abandon(v)
           \/ Fails(v) \/ Kill(v)
  BY <1>1 DEF Begin, Extract, Stay, ReadIso, Abandon, Fails, Kill, Elsewhere
<1>2. CASE Stage(v)
  BY <1>2 DEF Stage, Removed, Elsewhere
<1>3. CASE OpenIso(v)
  BY <1>3 DEF OpenIso, Elsewhere
<1>4. CASE CloseIso(v)
  BY <1>4 DEF CloseIso, Elsewhere
<1>5. CASE Rename(v)
  BY <1>5 DEF Rename, Removed, Elsewhere
<1>6. CASE CopyBegins(v)
  BY <1>6 DEF CopyBegins, Elsewhere
<1>7. CASE CopyEnds(v)
  <2>0. PICK m \in at[v] : \E left \in AfterRemoval({Built(v, m)}) :
          files' = [left EXCEPT ![Result(v, m)] = Finished(v, @, body[v])]
    BY <1>7 DEF CopyEnds
  <2>1. PICK left \in AfterRemoval({Built(v, m)}) :
          files' = [left EXCEPT ![Result(v, m)] = Finished(v, @, body[v])]
    BY <2>0
  <2>2. m # n /\ store' = store
    BY <1>7 DEF CopyEnds
  <2>3. \A p \in Path : p[2] = n => left[p] = files[p] /\ p # Result(v, m)
    BY <2>2, Removal
  <2>4. left \in [Path -> Content]
    BY Removal
  <2>5. QED
    BY <2>1, <2>2, <2>3, <2>4 DEF Elsewhere
<1>8. CASE Posted(v) \/ LateStore(v)
  BY <1>8 DEF Posted, LateStore, Store, Elsewhere
<1>9. CASE NodeDone(v)
  <2>1. store' = store /\ \A m \in at[v] : m \in Names /\ m # n
    BY <1>9 DEF NodeDone
  <2>2. \A p \in Path : p[2] = n => p \notin {Result(v, m) : m \in at[v]}
    BY <2>1
  <2>3. files' = files \/ files' \in AfterRemoval({Result(v, m) : m \in at[v]})
    BY <1>9 DEF NodeDone
  <2>4. QED
    BY <2>1, <2>2, <2>3, Removal DEF Elsewhere
<1>10. QED
  BY <1>1, <1>2, <1>3, <1>4, <1>5, <1>6, <1>7, <1>8, <1>9 DEF Worker

-----------------------------------------------------------------------------
(* The parts of the inductive invariant, one after the other.              *)
LEMMA StepTypes ==
  ASSUME TypeOK, NEW v \in Workers, Worker(v)
  PROVE  TypeOK'
<1> USE DEF TypeOK
<1>1. CASE Begin(v)
  BY <1>1, JobParts DEF Begin
<1>2. CASE Extract(v) \/ Stay(v) \/ Abandon(v)
  BY <1>2 DEF Extract, Stay, Abandon, Goto, Returned
<1>3. CASE Stage(v)
  <2>1. NoFile \in Content
    BY Contents
  <2>2. files' \in [Path -> Content]
    BY <1>3, <2>1, Paths DEF Stage, Removed
  <2>3. QED
    BY <1>3, <2>2 DEF Stage, Goto
<1>4. CASE OpenIso(v)
  <2>1. files' \in [Path -> Content]
    <3>1. PICK n \in at[v] :
            files' = [files EXCEPT ![Built(v, n)] =
                        IF @ = NoFile THEN Opened(v, @)
                        ELSE [by |-> @.by \cup {v}, unfinished |-> @.unfinished \cup {v}]]
      BY <1>4 DEF OpenIso
    <3>2. Built(v, n) \in Path
      BY Paths
    <3>3. files[Built(v, n)] \in Content
      BY <3>2
    <3>4. files'[Built(v, n)] \in Content
      BY <3>1, <3>2, <3>3, Contents
    <3>5. QED
      BY <3>1, <3>2, <3>4
  <2>2. QED
    BY <1>4, <2>1 DEF OpenIso, Goto
<1>5. CASE CloseIso(v)
  <2>1. files' \in [Path -> Content]
    <3>1. PICK n \in at[v] :
            files' = [files EXCEPT ![Built(v, n)] = Finished(v, @, Own(v))]
      BY <1>5 DEF CloseIso
    <3>2. Built(v, n) \in Path
      BY Paths
    <3>3. Finished(v, files[Built(v, n)], Own(v)) \in Content
      BY <3>2, Contents
    <3>4. QED
      BY <3>1, <3>2, <3>3
  <2>2. QED
    BY <1>5, <2>1 DEF CloseIso, Goto
<1>6. CASE Rename(v)
  <2>1. files' \in [Path -> Content]
    BY <1>6, Paths, Contents, ZenonT(30) DEF Rename, Removed
  <2>2. QED
    BY <1>6, <2>1 DEF Rename, Goto
<1>7. CASE CopyBegins(v)
  <2>1. files' \in [Path -> Content] /\ body' \in [Workers -> Content]
    <3>1. PICK n \in at[v] :
            /\ body' = [body EXCEPT ![v] = files[Built(v, n)]]
            /\ files' = [files EXCEPT ![Result(v, n)] = Opened(v, @)]
      BY <1>7 DEF CopyBegins
    <3>2. Built(v, n) \in Path /\ Result(v, n) \in Path
      BY Paths
    <3>3. Opened(v, files[Result(v, n)]) \in Content
      BY <3>2, Contents
    <3>4. QED
      BY <3>1, <3>2, <3>3
  <2>2. QED
    BY <1>7, <2>1 DEF CopyBegins, Goto
<1>8. CASE CopyEnds(v)
  <2>1. files' \in [Path -> Content] /\ body' \in [Workers -> Content]
    <3>0. PICK n \in at[v] : \E left \in AfterRemoval({Built(v, n)}) :
            files' = [left EXCEPT ![Result(v, n)] = Finished(v, @, body[v])]
      BY <1>8 DEF CopyEnds
    <3>1. PICK left \in AfterRemoval({Built(v, n)}) :
            files' = [left EXCEPT ![Result(v, n)] = Finished(v, @, body[v])]
      BY <3>0
    <3>2. Result(v, n) \in Path
      BY Paths
    <3>3. left \in [Path -> Content]
      BY Removal
    <3>4. Finished(v, left[Result(v, n)], body[v]) \in Content
      BY <3>2, <3>3, Contents
    <3>5. NoFile \in Content
      BY Contents
    <3>6. QED
      BY <1>8, <3>1, <3>2, <3>3, <3>4, <3>5 DEF CopyEnds, Forget
  <2>2. QED
    BY <1>8, <2>1 DEF CopyEnds, Goto
<1>9. CASE ReadIso(v)
  <2>1. body' \in [Workers -> Content]
    BY <1>9, Paths DEF ReadIso
  <2>2. QED
    BY <1>9, <2>1 DEF ReadIso, Goto
<1>10. CASE Posted(v) \/ LateStore(v)
  <2>1. store' \in [Names -> Content] /\ body' \in [Workers -> Content]
    BY <1>10, Contents DEF Posted, LateStore, Store, Forget
  <2>2. QED
    BY <1>10, <2>1 DEF Posted, LateStore, Goto, Returned
<1>11. CASE NodeDone(v)
  <2>1. files' \in [Path -> Content]
    BY <1>11, Removal DEF NodeDone
  <2>2. QED
    BY <1>11, <2>1 DEF NodeDone, Goto, Returned
<1>12. CASE Fails(v) \/ Kill(v)
  <2>1. body' \in [Workers -> Content]
    BY <1>12, Contents DEF Fails, Kill, Forget
  <2>2. QED
    BY <1>12, <2>1 DEF Fails, Kill, Goto, Returned
<1>13. QED
  BY <1>1, <1>2, <1>3, <1>4, <1>5, <1>6, <1>7, <1>8, <1>9, <1>10, <1>11, <1>12
     DEF Worker

LEMMA StepShape ==
  ASSUME TypeOK, Shape, NEW v \in Workers, Worker(v)
  PROVE  Shape'
<1> DEFINE ShapeOf(w) ==
      /\ todo[w] \subseteq job[w].nodes
      /\ at[w] \subseteq job[w].nodes
      /\ at[w] \cap todo[w] = {}
      /\ \A m, n \in at[w] : m = n
      /\ pc[w] \in {"idle", "extract", "next"} => at[w] = {}
      /\ pc[w] = "idle" => job[w] = NoJob
      /\ pc[w] \in {"copying", "sending", "abandoned"} \/ body[w] = NoFile
<1>1. \A w \in Workers : ShapeOf(w)
  BY DEF Shape
<1>2. ASSUME NEW u \in Workers, u # v
      PROVE  ShapeOf(u)'
  BY <1>1, <1>2, Bystander
<1>3. ShapeOf(v)'
  <2> USE <1>1 DEF TypeOK, Goto, Forget
  <2>1. CASE Begin(v)
    BY <2>1 DEF Begin
  <2>2. CASE Extract(v)
    BY <2>2 DEF Extract
  <2>3. CASE Stage(v)
    BY <2>3 DEF Stage
  <2>4. CASE OpenIso(v) \/ CloseIso(v) \/ Stay(v) \/ Rename(v)
    BY <2>4 DEF OpenIso, CloseIso, Stay, Rename
  <2>5. CASE CopyBegins(v) \/ ReadIso(v) \/ Abandon(v)
    BY <2>5 DEF CopyBegins, ReadIso, Abandon
  <2>6. CASE CopyEnds(v) \/ Posted(v) \/ LateStore(v)
    BY <2>6 DEF CopyEnds, Posted, LateStore
  <2>7. CASE NodeDone(v)
    BY <2>7 DEF NodeDone
  <2>8. CASE Fails(v) \/ Kill(v)
    BY <2>8 DEF Fails, Kill, Active, Returned
  <2>9. QED
    BY <2>1, <2>2, <2>3, <2>4, <2>5, <2>6, <2>7, <2>8 DEF Worker
<1>4. QED
  BY <1>2, <1>3 DEF Shape

LEMMA StepMeets ==
  ASSUME TypeOK, Meets, NEW v \in Workers, Worker(v)
  PROVE  Meets'
<1>1. CASE Begin(v)
  <2>1. PICK j \in Job :
          /\ job' = [job EXCEPT ![v] = j]
          /\ disturbed' = disturbed
                 \cup {x \in Workers : job[x].nodes \cap j.nodes # {}}
                 \cup (IF \E x \in {y \in Workers : job[y].nodes \cap j.nodes # {}} :
                             Active(x)
                       THEN {v} ELSE {})
    BY <1>1 DEF Begin
  <2>2. ASSUME NEW x \in Workers, x # v
        PROVE  Active(x)' = Active(x) /\ job'[x] = job[x]
    BY <1>1, <2>2, Bystander DEF Active
  <2>3. job'[v] = j
    BY <2>1 DEF TypeOK
  <2>4. ASSUME NEW x \in Workers, NEW w \in Workers,
               x # w, Active(x)', job'[x].nodes \cap job'[w].nodes # {}
        PROVE  w \in disturbed'
    <3>1. CASE w = v
      BY <2>1, <2>2, <2>3, <2>4, <3>1
    <3>2. CASE x = v
      BY <2>1, <2>2, <2>3, <2>4, <3>2
    <3>3. CASE w # v /\ x # v
      BY <2>1, <2>2, <2>4, <3>3 DEF Meets
    <3>4. QED
      BY <3>1, <3>2, <3>3
  <2>5. QED
    BY <2>4 DEF Meets
<1>2. CASE ~Begin(v)
  <2>1. job' = job /\ disturbed' = disturbed /\ Active(v)
    BY <1>2 DEF TypeOK, Worker, Extract, Stage, OpenIso, CloseIso, Stay, Rename,
                CopyBegins, CopyEnds, ReadIso, Posted, Abandon, LateStore,
                NodeDone, Fails, MayFail, Kill, Active, Returned
  <2>2. \A x \in Workers : Active(x)' => Active(x)
    BY <2>1, Bystander DEF Active
  <2>3. QED
    BY <2>1, <2>2 DEF Meets
<1>3. QED
  BY <1>1, <1>2

(* Whose kickstart gets where: into the file or volume of a name goes only *)
(* what was in a file of that name, and the worker's own.                  *)
LEMMA ContentsBy ==
  ASSUME NEW w \in Workers, NEW f \in Content, NEW c \in Content
  PROVE  /\ NoFile.by = {} /\ Own(w).by = {w}
         /\ Opened(w, f).by \subseteq f.by \cup {w}
         /\ Finished(w, f, c).by \subseteq f.by \cup c.by
BY ContentParts DEF NoFile, Own, Opened, Finished

MarkOf(x) ==
    /\ \A p \in Path : x \in files[p].by => p[2] \in job[x].nodes
    /\ \A n \in Names : x \in store[n].by => n \in job[x].nodes
    /\ \A u \in Workers : x \in body[u].by => at[u] \subseteq job[x].nodes

LEMMA StepMarks ==
  ASSUME TypeOK, Shape, Marks, NEW v \in Workers, Worker(v), NEW x \in Workers
  PROVE  MarkOf(x)'
<1> USE DEF TypeOK
<1>1. MarkOf(x)
  BY DEF Marks, MarkOf
<1>2. ASSUME NEW n \in at[v]
      PROVE  /\ n \in Names /\ at[v] = {n} /\ n \in job[v].nodes
             /\ Built(v, n) \in Path /\ Built(v, n)[2] = n
             /\ Result(v, n) \in Path /\ Result(v, n)[2] = n
             /\ x \in files[Built(v, n)].by => n \in job[x].nodes
             /\ x \in files[Result(v, n)].by => n \in job[x].nodes
             /\ x \in body[v].by => n \in job[x].nodes
             /\ files[Built(v, n)] \in Content /\ files[Result(v, n)] \in Content
             /\ body[v] \in Content
  <2>1. n \in Names /\ at[v] = {n} /\ n \in job[v].nodes
    BY DEF Shape
  <2>2. QED
    BY <1>1, <2>1, Paths DEF MarkOf
<1>3. NoFile.by = {} /\ x \notin NoFile.by
  BY DEF NoFile
<1>4. CASE Begin(v)
  <2>1. job[v].nodes = {}
    BY <1>4 DEF Begin, Shape, NoJob
  <2>2. x # v => job'[x] = job[x]
    BY Bystander
  <2>3. UNCHANGED <<at, body, files, store>>
    BY <1>4 DEF Begin
  <2>4. CASE x = v
    <3>1. \A p \in Path : x \notin files[p].by
      BY <1>1, <2>1, <2>4 DEF MarkOf
    <3>2. \A n \in Names : x \notin store[n].by
      BY <1>1, <2>1, <2>4 DEF MarkOf
    <3>3. \A u \in Workers : x \in body[u].by => at[u] = {}
      BY <1>1, <2>1, <2>4 DEF MarkOf
    <3>4. QED
      BY <2>3, <3>1, <3>2, <3>3 DEF MarkOf
  <2>5. CASE x # v
    BY <1>1, <2>2, <2>3, <2>5 DEF MarkOf
  <2>6. QED
    BY <2>4, <2>5
<1>5. CASE Extract(v) \/ Stay(v) \/ Abandon(v)
  BY <1>1, <1>5 DEF Extract, Stay, Abandon, MarkOf
<1>6. CASE Stage(v)
  <2>1. PICK n \in todo[v] :
          /\ at' = [at EXCEPT ![v] = {n}]
          /\ files' = Removed(Built(v, n))
    BY <1>6 DEF Stage
  <2>2. body[v] = NoFile
    BY <1>6 DEF Stage, Shape
  <2>3. Built(v, n) \in Path
    BY Paths
  <2>4. \A p \in Path : files'[p] = files[p] \/ files'[p] = NoFile
    BY <2>1, <2>3 DEF Removed
  <2>5. UNCHANGED <<job, body, store>>
    BY <1>6 DEF Stage
  <2>6. \A u \in Workers : u # v => at'[u] = at[u]
    BY <2>1
  <2>7. QED
    BY <1>1, <1>3, <2>2, <2>4, <2>5, <2>6 DEF MarkOf
<1>7. CASE OpenIso(v)
  <2>1. PICK n \in at[v] :
          files' = [files EXCEPT ![Built(v, n)] =
                      IF @ = NoFile THEN Opened(v, @)
                      ELSE [by |-> @.by \cup {v}, unfinished |-> @.unfinished \cup {v}]]
    BY <1>7 DEF OpenIso
  <2>2. files'[Built(v, n)].by \subseteq files[Built(v, n)].by \cup {v}
    BY <1>2, <2>1, ContentsBy
  <2>3. UNCHANGED <<job, at, body, store>>
    BY <1>7 DEF OpenIso
  <2>4. \A p \in Path : p # Built(v, n) => files'[p] = files[p]
    BY <2>1
  <2>5. QED
    BY <1>1, <1>2, <2>2, <2>3, <2>4 DEF MarkOf
<1>8. CASE CloseIso(v)
  <2>1. PICK n \in at[v] :
          files' = [files EXCEPT ![Built(v, n)] = Finished(v, @, Own(v))]
    BY <1>8 DEF CloseIso
  <2>2. files'[Built(v, n)].by \subseteq files[Built(v, n)].by \cup {v}
    <3>1. files'[Built(v, n)] = Finished(v, files[Built(v, n)], Own(v))
      BY <1>2, <2>1
    <3>2. Own(v) \in Content /\ Own(v).by = {v}
      BY <1>2, Contents, ContentsBy, ZenonT(30)
    <3>3. Finished(v, files[Built(v, n)], Own(v)).by
             \subseteq files[Built(v, n)].by \cup Own(v).by
      BY <1>2, <3>2, ContentsBy
    <3>4. QED
      BY <3>1, <3>2, <3>3
  <2>3. UNCHANGED <<job, at, body, store>>
    BY <1>8 DEF CloseIso
  <2>4. \A p \in Path : p # Built(v, n) => files'[p] = files[p]
    BY <2>1
  <2>5. QED
    BY <1>1, <1>2, <2>2, <2>3, <2>4 DEF MarkOf
<1>9. CASE Rename(v)
  <2>1. PICK n \in at[v] :
          files' = [Removed(Built(v, n)) EXCEPT ![Result(v, n)] = files[Built(v, n)]]
    BY <1>9 DEF Rename
  <2>2. files'[Result(v, n)] = files[Built(v, n)]
    BY <1>2, <2>1 DEF Removed
  <2>3. UNCHANGED <<job, at, body, store>>
    BY <1>9 DEF Rename
  <2>4. \A p \in Path : p # Result(v, n) => files'[p] = files[p] \/ files'[p] = NoFile
    BY <1>2, <2>1 DEF Removed
  <2>5. QED
    BY <1>1, <1>2, <1>3, <2>2, <2>3, <2>4 DEF MarkOf
<1>10. CASE CopyBegins(v)
  <2>1. PICK n \in at[v] :
          /\ body' = [body EXCEPT ![v] = files[Built(v, n)]]
          /\ files' = [files EXCEPT ![Result(v, n)] = Opened(v, @)]
    BY <1>10 DEF CopyBegins
  <2>2. files'[Result(v, n)].by \subseteq files[Result(v, n)].by \cup {v}
    BY <1>2, <2>1, ContentsBy
  <2>3. UNCHANGED <<job, at, store>>
    BY <1>10 DEF CopyBegins
  <2>4. \A p \in Path : p # Result(v, n) => files'[p] = files[p]
    BY <2>1
  <2>5. body'[v] = files[Built(v, n)] /\ \A u \in Workers : u # v => body'[u] = body[u]
    BY <2>1
  <2>6. \A u \in Workers : x \in body'[u].by => at[u] \subseteq job[x].nodes
    BY <1>1, <1>2, <2>5 DEF MarkOf
  <2>7. \A p \in Path : x \in files'[p].by => p[2] \in job[x].nodes
    BY <1>1, <1>2, <2>2, <2>4 DEF MarkOf
  <2>8. QED
    BY <1>1, <2>3, <2>6, <2>7 DEF MarkOf
<1>11. CASE CopyEnds(v)
  <2>0. PICK n \in at[v] : \E left \in AfterRemoval({Built(v, n)}) :
          files' = [left EXCEPT ![Result(v, n)] = Finished(v, @, body[v])]
    BY <1>11 DEF CopyEnds
  <2>1. PICK left \in AfterRemoval({Built(v, n)}) :
          files' = [left EXCEPT ![Result(v, n)] = Finished(v, @, body[v])]
    BY <2>0
  <2>9. left \in [Path -> Content] /\ \A p \in Path : left[p] \in {files[p], NoFile}
    BY <1>2, Removal
  <2>2. PICK f \in {files[Result(v, n)], NoFile} :
          files'[Result(v, n)] = Finished(v, f, body[v])
    BY <1>2, <2>1, <2>9
  <2>3. files'[Result(v, n)].by \subseteq files[Result(v, n)].by \cup body[v].by
    <3>1. f \in Content
      BY <1>2, <2>2, Contents
    <3>2. files'[Result(v, n)].by \subseteq f.by \cup body[v].by
      BY <1>2, <2>2, <3>1, ContentsBy
    <3>3. f.by \subseteq files[Result(v, n)].by
      BY <1>3, <2>2
    <3>4. QED
      BY <3>2, <3>3
  <2>4. UNCHANGED <<job, at, store>>
    BY <1>11 DEF CopyEnds
  <2>5. \A p \in Path : p # Result(v, n) => files'[p] = files[p] \/ files'[p] = NoFile
    BY <1>2, <2>1, <2>9
  <2>6. \A u \in Workers : body'[u] = body[u] \/ body'[u] = NoFile
    BY <1>11 DEF CopyEnds, Forget
  <2>7. \A p \in Path : x \in files'[p].by => p[2] \in job[x].nodes
    BY <1>1, <1>2, <1>3, <2>3, <2>5 DEF MarkOf
  <2>8. QED
    BY <1>1, <1>3, <2>4, <2>6, <2>7 DEF MarkOf
<1>12. CASE ReadIso(v)
  <2>1. PICK n \in at[v] : body' = [body EXCEPT ![v] = files[Result(v, n)]]
    BY <1>12 DEF ReadIso
  <2>2. body'[v] = files[Result(v, n)] /\ \A u \in Workers : u # v => body'[u] = body[u]
    BY <2>1
  <2>3. UNCHANGED <<job, at, files, store>>
    BY <1>12 DEF ReadIso
  <2>4. \A u \in Workers : x \in body'[u].by => at[u] \subseteq job[x].nodes
    BY <1>1, <1>2, <2>2 DEF MarkOf
  <2>5. QED
    BY <1>1, <2>3, <2>4 DEF MarkOf
<1>13. CASE Posted(v) \/ LateStore(v)
  <2>1. store' = store \/ \E n \in at[v] : store' = [store EXCEPT ![n] = body[v]]
    BY <1>13 DEF Posted, LateStore, Store
  <2>2. \A n \in Names : x \in store'[n].by => n \in job[x].nodes
    <3>1. CASE store' = store
      BY <1>1, <3>1 DEF MarkOf
    <3>2. ASSUME NEW n \in at[v], store' = [store EXCEPT ![n] = body[v]]
          PROVE  \A k \in Names : x \in store'[k].by => k \in job[x].nodes
      BY <1>1, <1>2, <3>2 DEF MarkOf
    <3>3. QED
      BY <2>1, <3>1, <3>2
  <2>3. \A u \in Workers : body'[u] = body[u] \/ body'[u] = NoFile
    BY <1>13 DEF Posted, LateStore, Forget
  <2>4. UNCHANGED <<job, at, files>>
    BY <1>13 DEF Posted, LateStore
  <2>5. QED
    BY <1>1, <1>3, <2>2, <2>3, <2>4 DEF MarkOf
<1>14. CASE NodeDone(v)
  <2>1. \A p \in Path : files'[p] = files[p] \/ files'[p] = NoFile
    BY <1>2, <1>14, Removal DEF NodeDone
  <2>2. \A u \in Workers : at'[u] \subseteq at[u]
    BY <1>14 DEF NodeDone
  <2>3. UNCHANGED <<job, body, store>>
    BY <1>14 DEF NodeDone
  <2>4. QED
    BY <1>1, <1>3, <2>1, <2>2, <2>3 DEF MarkOf
<1>15. CASE Fails(v) \/ Kill(v)
  <2>1. \A u \in Workers : body'[u] = body[u] \/ body'[u] = NoFile
    BY <1>15 DEF Fails, Kill, Forget
  <2>2. UNCHANGED <<job, at, files, store>>
    BY <1>15 DEF Fails, Kill
  <2>3. QED
    BY <1>1, <1>3, <2>1, <2>2 DEF MarkOf
<1>16. QED
  BY <1>4, <1>5, <1>6, <1>7, <1>8, <1>9, <1>10, <1>11, <1>12, <1>13, <1>14,
     <1>15 DEF Worker

(* A name no step touches looks to a worker as it did.                     *)
LEMMA NameKept ==
  ASSUME NEW u \in Workers, NEW n \in Names, Elsewhere(n), job'[u] = job[u]
  PROVE  /\ Built(u, n)' = Built(u, n) /\ Result(u, n)' = Result(u, n)
         /\ files'[Built(u, n)] = files[Built(u, n)]
         /\ files'[Result(u, n)] = files[Result(u, n)]
         /\ MustMove(u, n)' = MustMove(u, n)
         /\ Untouched(u, n)' = Untouched(u, n)
         /\ Complete(u, n)' = Complete(u, n)
<1>1. Built(u, n)' = Built(u, n)
  BY DEF Built
<1>2. Result(u, n)' = Result(u, n)
  BY <1>1 DEF Result
<1>3. /\ files'[Built(u, n)] = files[Built(u, n)]
      /\ files'[Result(u, n)] = files[Result(u, n)]
      /\ store'[n] = store[n]
  BY Paths DEF Elsewhere
<1>4. MustMove(u, n)' = MustMove(u, n)
  BY <1>1, <1>2 DEF MustMove
<1>5. Untouched(u, n)' = Untouched(u, n)
  BY <1>3 DEF Untouched, Elsewhere
<1>6. Complete(u, n)' = Complete(u, n)
  BY <1>1, <1>2, <1>3, <1>4 DEF Complete
<1>7. QED
  BY <1>1, <1>2, <1>3, <1>4, <1>5, <1>6

(* A step of v keeps what every undisturbed other worker relies on: v is   *)
(* at no node of such a worker.                                            *)
LEMMA StepOthers ==
  ASSUME IInv, NEW v \in Workers, Worker(v),
         NEW u \in Workers, u # v, u \notin disturbed', Shape'
  PROVE  Kept(u)'
<1> USE DEF IInv
<1>1. /\ job'[u] = job[u] /\ pc'[u] = pc[u] /\ todo'[u] = todo[u]
      /\ at'[u] = at[u] /\ body'[u] = body[u]
  BY Bystander
<1>2. Active(v) \/ (at[v] = {} /\ at'[v] = {})
  <2>1. CASE Begin(v)
    BY <2>1 DEF Begin, Shape
  <2>2. CASE ~Begin(v)
    BY <2>2 DEF Worker, Extract, Stage, OpenIso, CloseIso, Stay, Rename,
                CopyBegins, CopyEnds, ReadIso, Posted, Abandon, LateStore,
                NodeDone, Fails, MayFail, Kill, Active, Returned
  <2>3. QED
    BY <2>1, <2>2
<1>3. u \notin disturbed
  BY DEF Worker, Begin, Extract, Stage, OpenIso, CloseIso, Stay, Rename,
         CopyBegins, CopyEnds, ReadIso, Posted, Abandon, LateStore, NodeDone,
         Fails, Kill
<1>4. Kept(u)
  BY <1>3
<1>5. ASSUME NEW n \in job[u].nodes
      PROVE  n \in Names /\ Elsewhere(n)
  <2>1. n \in Names
    BY JobParts DEF TypeOK
  <2>2. CASE at[v] = {} /\ at'[v] = {}
    BY <2>1, <2>2, Locality
  <2>3. CASE Active(v)
    <3>1. n \notin job[v].nodes
      BY <1>3, <2>3 DEF Meets
    <3>2. at[v] \cup at'[v] \subseteq job[v].nodes
      BY <2>3 DEF TypeOK, Shape, Worker, Begin, Extract, Stage, OpenIso, CloseIso,
                  Stay, Rename, CopyBegins, CopyEnds, ReadIso, Posted, Abandon,
                  LateStore, NodeDone, Fails, Kill, Active
    <3>3. QED
      BY <2>1, <3>1, <3>2, Locality
  <2>4. QED
    BY <1>2, <2>2, <2>3
<1>6. ASSUME NEW n \in at[u]
      PROVE  StageOf(u, n)'
  <2>1. n \in job[u].nodes
    BY DEF Shape
  <2>2. StageOf(u, n)
    BY <1>4 DEF Kept
  <2>3. store'[n] = store[n]
    BY <1>5, <2>1 DEF Elsewhere
  <2>4. /\ Built(u, n)' = Built(u, n) /\ Result(u, n)' = Result(u, n)
        /\ files'[Built(u, n)] = files[Built(u, n)]
        /\ files'[Result(u, n)] = files[Result(u, n)]
        /\ MustMove(u, n)' = MustMove(u, n)
    BY <1>1, <1>5, <2>1, NameKept
  <2>5. QED
    BY <1>1, <2>2, <2>3, <2>4 DEF StageOf, Half, Own
<1>7. BodyOf(u)'
  BY <1>1, <1>4 DEF Kept, BodyOf, Own
<1>8. NodesOf(u)'
  <2>1. ASSUME NEW n \in job[u].nodes \ at[u]
        PROVE  Untouched(u, n)' = Untouched(u, n) /\ Complete(u, n)' = Complete(u, n)
    BY <1>1, <1>5, NameKept
  <2>2. QED
    BY <1>1, <1>4, <2>1 DEF Kept, NodesOf
<1>9. QED
  BY <1>1, <1>6, <1>7, <1>8 DEF Kept

(* A step keeps what its own worker relies on, as long as that worker is   *)
(* undisturbed: for the node it is at ...                                  *)
LEMMA OpenedAlone ==
  ASSUME NEW w \in Workers, NEW f \in Content, {x \in f.unfinished : Writing(x)} = {}
  PROVE  Opened(w, f) = Half(w)
BY DEF Opened, Half

LEMMA FinishedOwn ==
  ASSUME NEW w \in Workers
  PROVE  Finished(w, Half(w), Own(w)) = Own(w)
BY DEF Finished, Half, Own

LEMMA StepStage ==
  ASSUME IInv, NEW v \in Workers, Worker(v), v \notin disturbed, NEW n \in at'[v]
  PROVE  StageOf(v, n)'
<1> USE DEF IInv, TypeOK
<1>1. Kept(v) /\ Shape /\ Meets /\ Marks
  OBVIOUS
<1>2. ASSUME job' = job
      PROVE  Built(v, n)' = Built(v, n) /\ Result(v, n)' = Result(v, n)
             /\ MustMove(v, n)' = MustMove(v, n)
  BY <1>2 DEF Built, Result, MustMove
<1>3. CASE Begin(v) \/ Extract(v) \/ NodeDone(v)
  <2>1. at'[v] = {}
    BY <1>1, <1>3 DEF Begin, Extract, NodeDone, Shape
  <2>2. QED
    BY <2>1
<1>4. CASE Fails(v) \/ Kill(v) \/ LateStore(v) \/ Abandon(v)
  <2>1. pc'[v] \in {"error", "killed", "abandoned"}
    BY <1>4 DEF Fails, Kill, LateStore, Abandon, Goto
  <2>2. QED
    BY <2>1 DEF StageOf
<1>5. CASE Stage(v)
  <2>1. files'[Built(v, n)] = NoFile /\ n \in Names
    BY <1>5, Paths DEF Stage, Removed
  <2>2. job' = job /\ pc'[v] = "staged"
    BY <1>5 DEF Stage, Goto
  <2>3. QED
    BY <1>2, <2>1, <2>2 DEF StageOf
<1>6. CASE \/ OpenIso(v) \/ CloseIso(v) \/ Stay(v) \/ Rename(v)
           \/ CopyBegins(v) \/ CopyEnds(v) \/ ReadIso(v) \/ Posted(v)
  <2>1. job' = job /\ at' = at
    BY <1>6 DEF OpenIso, CloseIso, Stay, Rename, CopyBegins, CopyEnds, ReadIso, Posted
  <2>2. at[v] = {n} /\ n \in Names /\ n \in job[v].nodes
    BY <1>1, <2>1 DEF Shape
  <2>3. /\ Built(v, n) \in Path /\ Built(v, n)[2] = n
        /\ Result(v, n) \in Path /\ Result(v, n)[2] = n
    BY <2>2, Paths
  <2>4. /\ Built(v, n)' = Built(v, n) /\ Result(v, n)' = Result(v, n)
        /\ MustMove(v, n)' = MustMove(v, n)
    BY <1>2, <2>1
  <2>5. StageOf(v, n) /\ BodyOf(v)
    BY <1>1, <2>2 DEF Kept
  <2>6. CASE OpenIso(v)
    <3>1. files[Built(v, n)] = NoFile /\ NoFile \in Content
      BY <2>5, <2>6, Contents DEF OpenIso, StageOf
    <3>2. Opened(v, NoFile) = Half(v)
      BY DEF Opened, NoFile, Half
    <3>3. files'[Built(v, n)] = Half(v) /\ pc'[v] = "mastering"
      BY <2>2, <2>3, <2>6, <3>1, <3>2 DEF OpenIso, Goto
    <3>4. QED
      BY <2>4, <3>3 DEF StageOf, Half
  <2>7. CASE CloseIso(v)
    <3>1. files[Built(v, n)] = Half(v)
      BY <2>5, <2>7 DEF CloseIso, StageOf
    <3>2. files'[Built(v, n)] = Own(v) /\ pc'[v] = "built"
      BY <2>2, <2>3, <2>7, <3>1, FinishedOwn DEF CloseIso, Goto
    <3>3. QED
      BY <2>4, <3>2 DEF StageOf, Own
  <2>8. CASE Stay(v)
    <3>1. files'[Result(v, n)] = Own(v) /\ ~MustMove(v, n) /\ pc'[v] = "placed"
      BY <2>2, <2>5, <2>8 DEF Stay, StageOf, MustMove, Goto
    <3>2. QED
      BY <2>4, <3>1 DEF StageOf, Own
  <2>9. CASE Rename(v)
    <3>1. files[Built(v, n)] = Own(v) /\ MustMove(v, n)
      BY <2>2, <2>5, <2>9 DEF Rename, StageOf
    <3>2. files' = [Removed(Built(v, n)) EXCEPT ![Result(v, n)] = files[Built(v, n)]]
      BY <2>2, <2>9 DEF Rename
    <3>3. files'[Result(v, n)] = Own(v) /\ files'[Built(v, n)] = NoFile
      BY <2>3, <3>1, <3>2 DEF Removed, MustMove
    <3>4. pc'[v] = "placed"
      BY <2>9 DEF Rename, Goto
    <3>5. QED
      BY <2>4, <3>3, <3>4 DEF StageOf, Own, NoFile
  <2>10. CASE CopyBegins(v)
    <3>1. pc[v] = "built" /\ MustMove(v, n)
      BY <2>2, <2>10 DEF CopyBegins
    <3>2. files[Result(v, n)] \in Content
      BY <2>3
    <3>3. ASSUME NEW x \in files[Result(v, n)].unfinished, Writing(x)
          PROVE  FALSE
      <4>1. x \in Workers /\ x \in files[Result(v, n)].by
        BY <3>2, ContentParts
      <4>2. x # v
        BY <3>1, <3>3 DEF Writing
      <4>3. Active(x)
        BY <3>3 DEF Writing, Active, Returned
      <4>4. n \in job[x].nodes
        BY <1>1, <2>3, <4>1 DEF Marks
      <4>5. QED
        BY <1>1, <2>2, <4>1, <4>2, <4>3, <4>4 DEF Meets
    <3>4. Opened(v, files[Result(v, n)]) = Half(v)
      <4>1. {x \in files[Result(v, n)].unfinished : Writing(x)} = {}
        BY <3>3
      <4>2. QED
        BY <3>2, <4>1, OpenedAlone
    <3>5. files'[Result(v, n)] = Half(v) /\ pc'[v] = "copying"
      BY <2>2, <2>3, <2>10, <3>4 DEF CopyBegins, Goto
    <3>6. files'[Built(v, n)] = Own(v)
      BY <2>2, <2>3, <2>5, <2>10, <3>1 DEF CopyBegins, StageOf, MustMove
    <3>7. QED
      BY <2>4, <3>1, <3>5, <3>6 DEF StageOf, Half, Own
  <2>11. CASE CopyEnds(v)
    <3>1. MustMove(v, n) /\ files[Result(v, n)] = Half(v) /\ body[v] = Own(v)
      BY <2>5, <2>11 DEF CopyEnds, StageOf, BodyOf
    <3>2. PICK left \in AfterRemoval({Built(v, n)}) :
            files' = [left EXCEPT ![Result(v, n)] = Finished(v, @, body[v])]
      BY <2>2, <2>11 DEF CopyEnds
    <3>3. left \in [Path -> Content] /\ left[Result(v, n)] = Half(v)
      BY <2>3, <3>1, Removal DEF MustMove
    <3>4. files'[Result(v, n)] = Own(v)
      BY <2>3, <3>1, <3>2, <3>3, FinishedOwn
    <3>5. files'[Built(v, n)] \in {NoFile, Own(v)}
      <4>1. files[Built(v, n)] = Own(v)
        BY <2>5, <2>11 DEF CopyEnds, StageOf
      <4>2. left[Built(v, n)] \in {NoFile, Own(v)}
        BY <2>3, <4>1, Removal
      <4>3. QED
        BY <2>3, <3>1, <3>2, <3>3, <4>2 DEF MustMove
    <3>6. pc'[v] = "placed"
      BY <2>11 DEF CopyEnds, Goto
    <3>7. QED
      BY <2>4, <3>4, <3>5, <3>6 DEF StageOf, Own, NoFile
  <2>12. CASE ReadIso(v)
    <3>1. files' = files /\ pc[v] = "placed" /\ pc'[v] = "sending"
      BY <2>12 DEF ReadIso, Goto
    <3>2. QED
      BY <2>4, <2>5, <3>1 DEF StageOf, Own, NoFile
  <2>13. CASE Posted(v)
    <3>1. files' = files /\ pc[v] = "sending" /\ pc'[v] = "uploaded"
      BY <2>13 DEF Posted, Goto
    <3>2. store'[n] = Own(v)
      BY <2>2, <2>5, <2>13, <3>1 DEF Posted, Store, BodyOf
    <3>3. QED
      BY <2>4, <2>5, <3>1, <3>2 DEF StageOf, Own, NoFile
  <2>14. QED
    BY <1>6, <2>6, <2>7, <2>8, <2>9, <2>10, <2>11, <2>12, <2>13
<1>7. QED
  BY <1>3, <1>4, <1>5, <1>6 DEF Worker

(* ... in what it has read, ...                                            *)
LEMMA StepBody ==
  ASSUME IInv, NEW v \in Workers, Worker(v), v \notin disturbed
  PROVE  BodyOf(v)'
<1> USE DEF IInv, TypeOK
<1>1. Kept(v) /\ Shape
  OBVIOUS
<1>2. CASE CopyBegins(v)
  <2>1. PICK n \in at[v] : body' = [body EXCEPT ![v] = files[Built(v, n)]]
    BY <1>2 DEF CopyBegins
  <2>2. files[Built(v, n)] = Own(v)
    BY <1>1, <1>2, <2>1 DEF CopyBegins, Kept, StageOf
  <2>3. QED
    BY <2>1, <2>2 DEF BodyOf, Own
<1>3. CASE ReadIso(v)
  <2>1. PICK n \in at[v] : body' = [body EXCEPT ![v] = files[Result(v, n)]]
    BY <1>3 DEF ReadIso
  <2>2. files[Result(v, n)] = Own(v)
    BY <1>1, <1>3, <2>1 DEF ReadIso, Kept, StageOf
  <2>3. QED
    BY <2>1, <2>2 DEF BodyOf, Own
<1>4. CASE Abandon(v)
  BY <1>1, <1>4 DEF Abandon, Kept, BodyOf, Own, Goto
<1>5. CASE ~(CopyBegins(v) \/ ReadIso(v) \/ Abandon(v))
  <2>1. pc'[v] \notin {"copying", "sending", "abandoned"}
    BY <1>5 DEF Worker, Begin, Extract, Stage, OpenIso, CloseIso, Stay, Rename,
                CopyEnds, Posted, LateStore, NodeDone, Fails, Kill, Goto
  <2>2. QED
    BY <2>1 DEF BodyOf
<1>6. QED
  BY <1>2, <1>3, <1>4, <1>5

(* ... and for the nodes it is done with or has not begun.                 *)
LEMMA StepNodes ==
  ASSUME IInv, NEW v \in Workers, Worker(v), v \notin disturbed
  PROVE  NodesOf(v)'
<1> USE DEF IInv, TypeOK
<1>1. Kept(v) /\ Shape /\ Marks
  OBVIOUS
<1>2. CASE Begin(v)
  <2>1. job[v].nodes = {} /\ at[v] = {}
    BY <1>1, <1>2 DEF Begin, Shape, NoJob
  <2>2. todo'[v] = job'[v].nodes /\ UNCHANGED <<files, store>>
    BY <1>2 DEF Begin
  <2>3. \A n \in Names : Untouched(v, n)'
    <3>1. \A p \in Path : v \notin files[p].by
      BY <1>1, <2>1 DEF Marks
    <3>2. \A n \in Names : v \notin store[n].by
      BY <1>1, <2>1 DEF Marks
    <3>3. QED
      BY <2>2, <3>1, <3>2 DEF Untouched
  <2>4. job'[v].nodes \subseteq Names
    BY <1>2, JobParts DEF Begin
  <2>5. QED
    BY <2>2, <2>3, <2>4 DEF NodesOf
<1>3. CASE ~Begin(v)
  <2>1. job' = job
    BY <1>3 DEF Worker, Extract, Stage, OpenIso, CloseIso, Stay, Rename,
                CopyBegins, CopyEnds, ReadIso, Posted, Abandon, LateStore,
                NodeDone, Fails, Kill
  <2>2. ASSUME NEW n \in job[v].nodes, n \notin at[v], n \notin at'[v]
        PROVE  IF n \in todo'[v] THEN Untouched(v, n)' ELSE Complete(v, n)'
    <3>1. n \in Names
      BY JobParts
    <3>2. n \in todo'[v] <=> n \in todo[v]
      BY <1>3, <2>2 DEF Worker, Extract, Stage, OpenIso, CloseIso, Stay, Rename,
                        CopyBegins, CopyEnds, ReadIso, Posted, Abandon, LateStore,
                        NodeDone, Fails, Kill
    <3>3. Untouched(v, n)' = Untouched(v, n) /\ Complete(v, n)' = Complete(v, n)
      BY <2>1, <2>2, <3>1, Locality, NameKept
    <3>4. QED
      BY <1>1, <2>2, <3>2, <3>3 DEF Kept, NodesOf
  <2>3. ASSUME NEW n \in at[v], n \notin at'[v]
        PROVE  n \notin todo'[v] /\ Complete(v, n)'
    <3>1. NodeDone(v)
      BY <1>1, <1>3, <2>3 DEF Worker, Extract, Stage, OpenIso, CloseIso, Stay,
                              Rename, CopyBegins, CopyEnds, ReadIso, Posted,
                              Abandon, LateStore, Fails, Kill, Shape
    <3>2. at[v] = {n} /\ n \in Names /\ n \notin todo[v]
      BY <1>1 DEF Shape
    <3>3. StageOf(v, n)
      BY <1>1 DEF Kept
    <3>4. /\ Built(v, n) \in Path /\ Result(v, n) \in Path
      BY <3>2, Paths
    <3>5. /\ Built(v, n)' = Built(v, n) /\ Result(v, n)' = Result(v, n)
          /\ MustMove(v, n)' = MustMove(v, n)
      BY <2>1 DEF Built, Result, MustMove
    <3>6. /\ pc[v] = IF job[v].upload THEN "uploaded" ELSE "placed"
          /\ store' = store /\ todo' = todo
      BY <3>1 DEF NodeDone
    <3>7. /\ job[v].upload => store[n] = Own(v)
          /\ files[Result(v, n)] = Own(v)
          /\ MustMove(v, n) => files[Built(v, n)] \in {NoFile, Own(v)}
      BY <3>3, <3>6 DEF StageOf
    <3>8. \/ files'[Result(v, n)] = Own(v)
          \/ ~job[v].keep /\ files'[Result(v, n)] = NoFile
      <4>1. CASE job[v].keep
        BY <3>1, <3>7, <4>1 DEF NodeDone
      <4>2. CASE ~job[v].keep
        BY <3>1, <3>4, <3>7, <4>2, Removal DEF NodeDone
      <4>3. QED
        BY <4>1, <4>2
    <3>9. MustMove(v, n) => files'[Built(v, n)] \in {NoFile, Own(v)}
      <4>1. files'[Built(v, n)] \in {files[Built(v, n)], NoFile}
        BY <3>1, <3>4, Removal DEF NodeDone
      <4>2. QED
        BY <3>7, <4>1
    <3>10. QED
      BY <2>1, <3>2, <3>5, <3>6, <3>7, <3>8, <3>9 DEF Complete, Own, NoFile
  <2>4. QED
    BY <2>1, <2>2, <2>3 DEF NodesOf
<1>4. QED
  BY <1>2, <1>3

-----------------------------------------------------------------------------
LEMMA Stutters ==
  ASSUME IInv, UNCHANGED vars
  PROVE  IInv'
<1> USE DEF vars
<1>1. TypeOK' /\ Shape' /\ Meets' /\ Marks'
  BY DEF IInv, TypeOK, Shape, Meets, Marks, Active
<1>2. ASSUME NEW u \in Workers \ disturbed
      PROVE  Kept(u)'
  <2>1. Kept(u)
    BY DEF IInv
  <2>2. QED
    BY <2>1, ZenonT(30) DEF Kept, StageOf, BodyOf, NodesOf, Untouched, Complete,
                          MustMove, Result, Built, Half, Own
<1>3. QED
  BY <1>1, <1>2 DEF IInv

LEMMA Initial ==
  ASSUME Init
  PROVE  IInv
<1> USE DEF Init
<1>1. NoFile \in Content /\ NoFile.by = {}
  BY ContentMade DEF NoFile
<1>2. TypeOK
  BY <1>1 DEF TypeOK
<1>3. Shape /\ Meets
  BY DEF Shape, Meets, Active, Returned, NoJob
<1>4. Marks
  BY <1>1 DEF Marks
<1>5. \A w \in Workers : Kept(w)
  BY DEF Kept, BodyOf, NodesOf, NoJob
<1>6. QED
  BY <1>2, <1>3, <1>4, <1>5 DEF IInv

LEMMA StepKeeps ==
  ASSUME IInv, Next
  PROVE  IInv'
<1>1. ASSUME NEW v \in Workers, Worker(v)
      PROVE  IInv'
  <2>1. TypeOK' /\ Shape' /\ Meets'
    BY <1>1, StepTypes, StepShape, StepMeets DEF IInv
  <2>2. Marks'
    BY <1>1, StepMarks DEF IInv, Marks, MarkOf
  <2>3. v \notin disturbed' => v \notin disturbed
    BY <1>1 DEF Worker, Begin, Extract, Stage, OpenIso, CloseIso, Stay, Rename,
                CopyBegins, CopyEnds, ReadIso, Posted, Abandon, LateStore,
                NodeDone, Fails, Kill
  <2>4. ASSUME v \notin disturbed'
        PROVE  Kept(v)'
    <3>1. \A n \in at'[v] : StageOf(v, n)'
      BY <1>1, <2>3, <2>4, StepStage
    <3>2. QED
      BY <1>1, <2>3, <2>4, <3>1, StepBody, StepNodes DEF Kept
  <2>5. ASSUME NEW u \in Workers \ disturbed', u # v
        PROVE  Kept(u)'
    BY <1>1, <2>1, <2>5, StepOthers
  <2>6. \A u \in Workers \ disturbed' : Kept(u)'
    BY <2>4, <2>5
  <2>7. QED
    BY <2>1, <2>2, <2>6 DEF IInv
<1>2. CASE Stopped
  BY <1>2, Stutters DEF Stopped
<1>3. QED
  BY <1>1, <1>2 DEF Next

(* In every state the files, the volumes and the workers are tied as IInv  *)
(* says.                                                                   *)
THEOREM Invariance == Spec => []IInv
<1>1. Init => IInv
  BY Initial
<1>2. IInv /\ [Next]_vars => IInv'
  BY StepKeeps, Stutters
<1>3. QED
  BY <1>1, <1>2, PTL DEF Spec

(* TypeOK, the type invariant the run checks: only an upload job uploads.  *)
THEOREM TypeCorrect == Spec => []TypeOK
<1>1. IInv => TypeOK
  BY DEF IInv
<1>2. QED
  BY <1>1, Invariance, PTL

(* What is uploaded for a node is the whole ISO of that node, built by the *)
(* same worker, whatever others left at its path before.                   *)
THEOREM UploadsAreOwn == Spec => []UploadsOwn
<1>1. IInv => UploadsOwn
  BY DEF IInv, Kept, BodyOf, UploadsOwn
<1>2. QED
  BY <1>1, Invariance, PTL

(* A failure or a kill costs at most the node it hits, and so does an      *)
(* os.Remove that fails unnoticed.                                         *)
THEOREM CutsCostOneNode == Spec => []NodeByNode
<1>1. IInv => NodeByNode
  BY DEF IInv, Kept, NodesOf, NodeByNode
<1>2. QED
  BY <1>1, Invariance, PTL
=============================================================================
