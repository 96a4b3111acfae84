------------------------------- MODULE Trace -------------------------------
(***************************************************************************)
(* Execution traces (src/pkg/trace): the JSONL file, the Writer that hash- *)
(* chains records into it through a bufio buffer, and what LoadAll makes   *)
(* of the file at any moment: after a crash of the process or of the host, *)
(* and from another process while the writer is at work.                   *)
(*                                                                         *)
(* A record is its number, in the order of the Write calls; its hash is    *)
(* the number too, SHA-256 being taken to be injective, and 0 is the empty *)
(* hash.  Its line is cut in three pieces, the least that tells a torn     *)
(* line, a line that lost only its newline and a whole line apart.         *)
(***************************************************************************)
EXTENDS Naturals, Sequences, SequencesExt

CONSTANT MaxRecords   \* bound on the calls of Write

ASSUME MaxRecordsAssumption == MaxRecords \in Nat

VARIABLES
    file,     \* the file's pieces, as another process sees them
    durable,  \* how many of them survive a power loss
    writer,   \* "none", "open", or "failed": bufio.Writer keeps its first error
    buf,      \* pieces in the bufio.Writer
    prev,     \* Writer.prevHash
    link,     \* PrevHash of each record
    promise,  \* what the caller was told about each record
    torn      \* a writer has been opened on a file without a final newline

vars == <<file, durable, writer, buf, prev, link, promise, torn>>

Records == 1 .. Len(link)
NoHash  == 0

Newline == <<0, "newline">>
Line(r) == << <<r, "head">>, <<r, "rest">>, Newline >>
Piece   == {Newline} \cup ((1 .. MaxRecords) \X {"head", "rest"})

TypeOK ==
    /\ file \in Seq(Piece)
    /\ durable \in 0 .. Len(file)
    /\ writer \in {"none", "open", "failed"}
    /\ buf \in Seq(Piece)
    /\ link \in Seq(0 .. MaxRecords)
    /\ prev \in {NoHash} \cup Records
    /\ promise \in [Records -> {"refused", "buffered", "flushed", "synced", "lost"}]
    /\ torn \in BOOLEAN

Init ==
    /\ file = <<>>
    /\ durable = 0
    /\ writer = "none"
    /\ buf = <<>>
    /\ prev = NoHash
    /\ link = <<>>
    /\ promise = <<>>
    /\ torn = FALSE

-----------------------------------------------------------------------------
(* Reading.                                                                *)

IsRecord(line) ==
    /\ Len(line) = 2
    /\ line[1][1] = line[2][1]
    /\ line[1][2] = "head" /\ line[2][2] = "rest"

(* Reader.Next at the end of a line: blank lines are skipped, and the first *)
(* line that does not parse ends the reading.                              *)
EndLine(s) ==
    [recs |-> IF s.ok /\ IsRecord(s.line)
              THEN Append(s.recs, s.line[1][1]) ELSE s.recs,
     line |-> <<>>,
     ok   |-> s.ok /\ (s.line = <<>> \/ IsRecord(s.line))]

ReadPiece(s, p) ==
    IF p = Newline THEN EndLine(s) ELSE [s EXCEPT !.line = Append(@, p)]

(* What the reader has after each piece of f.                               *)
Reading(f) ==
    LET after[k \in 0 .. Len(f)] ==
            IF k = 0 THEN [recs |-> <<>>, line |-> <<>>, ok |-> TRUE]
            ELSE ReadPiece(after[k - 1], f[k])
    IN  after

(* Reader.All: the records before the first unreadable line, and whether   *)
(* there was none.  A last line without a newline counts.                  *)
All(f) == EndLine(Reading(f)[Len(f)])

Readable(f) == ToSet(All(f).recs)

VerifyChain(recs) ==
    \A i \in DOMAIN recs :
        link[recs[i]] = IF i = 1 THEN NoHash ELSE recs[i - 1]

LoadAllOk(f) == All(f).ok /\ VerifyChain(All(f).recs)

EndsInNewline(f) == f = <<>> \/ Last(f) = Newline

(* readLastRecord: the last line, without its newline if it has one.       *)
LastLine(f) ==
    LET end   == IF EndsInNewline(f) /\ f # <<>> THEN Len(f) - 1 ELSE Len(f)
        start == CHOOSE i \in 0 .. end :
                     /\ i = 0 \/ f[i] = Newline
                     /\ \A j \in i + 1 .. end : f[j] # Newline
    IN  SubSeq(f, start + 1, end)

-----------------------------------------------------------------------------
(* Writing.                                                                *)

(* Mutant: the chain is not resumed.                                        *)
OpenFresh ==
    /\ writer = "none"
    /\ writer' = "open"
    /\ prev' = NoHash
    /\ torn' = (torn \/ ~EndsInNewline(file))
    /\ UNCHANGED <<file, durable, buf, link, promise>>

(* Mutant: the file is opened with O_TRUNC for O_APPEND.                    *)
OpenTruncates ==
    /\ writer = "none"
    /\ writer' = "open"
    /\ prev' = NoHash
    /\ file' = <<>>
    /\ UNCHANGED <<durable, buf, link, promise, torn>>

(* Mutant: the tail is repaired by dropping one line, torn or not.          *)
OpenDropsLine ==
    /\ writer = "none"
    /\ writer' = "open"
    /\ prev' = NoHash
    /\ file' = SubSeq(file, 1, Len(file) - Len(LastLine(file)))
    /\ durable' = IF durable < Len(file') THEN durable ELSE Len(file')
    /\ UNCHANGED <<buf, link, promise, torn>>

(* NewWriter: the hash of the last record, or none if the last line does   *)
(* not parse; then append to whatever the file ends with.                  *)
Open ==
    /\ writer = "none"
    /\ writer' = "open"
    /\ prev' = IF IsRecord(LastLine(file)) THEN LastLine(file)[1][1] ELSE NoHash
    /\ torn' = (torn \/ ~EndsInNewline(file))
    /\ UNCHANGED <<file, durable, buf, link, promise>>

(* The buffer spills its first k pieces into the file.                     *)
Spill(pieces, k) ==
    /\ file' = file \o SubSeq(pieces, 1, k)
    /\ buf' = SubSeq(pieces, k + 1, Len(pieces))

Write ==
    /\ writer = "open"
    /\ Len(link) < MaxRecords
    /\ LET r == Len(link) + 1 IN
       /\ link' = Append(link, prev)
       /\ prev' = r
       /\ promise' = Append(promise, "buffered")
       /\ \E k \in 0 .. Len(buf \o Line(r)) : Spill(buf \o Line(r), k)
    /\ UNCHANGED <<durable, writer, torn>>

(* Disk full, for one: part of the buffer is in the file, the rest of it   *)
(* never will be, and every later call fails.                              *)
FlushFails(pieces) ==
    /\ \E k \in 0 .. Len(pieces) - 1 : file' = file \o SubSeq(pieces, 1, k)
    /\ buf' = <<>>
    /\ writer' = "failed"

WriteFails ==
    /\ writer = "open"
    /\ Len(link) < MaxRecords
    /\ link' = Append(link, prev)
    /\ promise' = Append(promise, "refused")
    /\ FlushFails(buf \o Line(Len(link) + 1))
    /\ UNCHANGED <<durable, prev, torn>>

Promised(from, to) ==
    [r \in Records |-> IF promise[r] \in from THEN to ELSE promise[r]]

(* Mutant: the file is synced and the buffer is not flushed.                *)
SyncUnflushed ==
    /\ writer = "open"
    /\ durable' = Len(file)
    /\ promise' = Promised({"buffered", "flushed"}, "synced")
    /\ UNCHANGED <<file, buf, writer, prev, link, torn>>

Sync ==
    /\ writer = "open"
    /\ file' = file \o buf
    /\ buf' = <<>>
    /\ durable' = Len(file')
    /\ promise' = Promised({"buffered", "flushed"}, "synced")
    /\ UNCHANGED <<writer, prev, link, torn>>

(* The flush works and fsync reports an error, or the flush does not work. *)
SyncFails ==
    /\ writer = "open"
    /\ \/ file' = file \o buf /\ buf' = <<>> /\ writer' = writer
       \/ buf # <<>> /\ FlushFails(buf)
    /\ UNCHANGED <<durable, prev, link, promise, torn>>

(* Close flushes and does not sync; on an error it closes the file as well. *)
Close ==
    /\ writer = "open"
    /\ file' = file \o buf
    /\ buf' = <<>>
    /\ writer' = "none"
    /\ promise' = Promised({"buffered"}, "flushed")
    /\ UNCHANGED <<durable, prev, link, torn>>

CloseFails ==
    /\ writer # "none"
    /\ \E k \in 0 .. Len(buf) : file' = file \o SubSeq(buf, 1, k)
    /\ buf' = <<>>
    /\ writer' = "none"
    /\ promise' = Promised({"buffered"}, "lost")
    /\ UNCHANGED <<durable, prev, link, torn>>

(* The process dies: its buffer is gone.                                   *)
Crash ==
    /\ writer # "none"
    /\ writer' = "none"
    /\ buf' = <<>>
    /\ promise' = Promised({"buffered"}, "lost")
    /\ UNCHANGED <<file, durable, prev, link, torn>>

(* The host dies: what was not synced is gone from some point on.          *)
PowerLoss ==
    /\ writer' = "none"
    /\ buf' = <<>>
    /\ \E k \in durable .. Len(file) :
           file' = SubSeq(file, 1, k) /\ durable' = k
    /\ promise' = Promised({"buffered", "flushed"}, "lost")
    /\ UNCHANGED <<prev, link, torn>>

Next ==
    \/ Open \/ Write \/ WriteFails \/ Sync \/ SyncFails
    \/ Close \/ CloseFails \/ Crash \/ PowerLoss

Spec == Init /\ [][Next]_vars

-----------------------------------------------------------------------------
(* Whatever crashes, fails or is reopened, the records that can be read     *)
(* from the file form a chain that starts at the genesis record: a trace    *)
(* may be cut short, LoadAll never meets a broken link (NewWriter, Write).  *)
ChainNeverBroken == VerifyChain(All(file).recs)

(* As long as no writer has been opened on a torn file, every record that   *)
(* Sync or Close reported as written is read back, by any reader and after  *)
(* any crash the report covers, and a file that ends in a newline loads.    *)
PromisesKept ==
    ~torn => /\ \A r \in Records :
                    promise[r] \in {"flushed", "synced"} => r \in Readable(file)
             /\ EndsInNewline(file) => LoadAllOk(file)

(* Append-only: a record that Sync reported and that a reader can read is   *)
(* readable for ever, after a writer on a torn file too.                    *)
SyncedStaysReadable ==
    [][\A r \in Records :
          promise[r] = "synced" /\ r \in Readable(file) => r \in Readable(file')]_vars

(* Piece i of f starts the whole line of record r.                          *)
LineAt(f, i, r) ==
    f[i] = <<r, "head">> /\ f[i + 1] = <<r, "rest">> /\ f[i + 2] = Newline

(* The line of a record that Sync reported is in the file, whole, within    *)
(* what a power loss leaves, whatever fails or is reopened afterwards: torn *)
(* tails included, only reading can fail it (Sync flushes, then syncs).     *)
SyncedIsDurable ==
    \A r \in Records :
        promise[r] = "synced" => \E i \in 1 .. durable - 2 : LineAt(file, i, r)

(* The claim of NewWriter's comment, that reopening an existing file        *)
(* resumes the chain: what Sync reported can be read back, torn tail or not. *)
ReopenResumes ==
    \A r \in Records : promise[r] = "synced" => r \in Readable(file)
=============================================================================
