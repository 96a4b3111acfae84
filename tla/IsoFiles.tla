------------------------------ MODULE IsoFiles ------------------------------
(***************************************************************************)
(* From kickstart to ISO to storage: the commands that build ISOs (`workflow *)
(* up`, `kickstart build-stack`, `build-iso`, `build-ubuntu`), each with    *)
(* its files in the directories they share, killed or failing anywhere.    *)
(*                                                                         *)
(* ISOBuilder.Build writes proxctl-<host>.iso in the temp directory: one   *)
(* path for all processes that build an ISO for a node of that name, under *)
(* any manifest.  A worker is such a process, or one goroutine of `up`.    *)
(* What a file holds is the set of workers whose kickstart is in it and,   *)
(* of those, the ones that have not finished writing it.                   *)
(***************************************************************************)
EXTENDS Naturals, FiniteSets

CONSTANTS Workers,  \* processes, and goroutines of `up`
          Names     \* node names

ASSUME WorkersAssumption == Workers \cap {"tmp", "out"} = {}

VARIABLES
    job,        \* what each worker was asked to do
    pc,         \* where it is
    todo,       \* the nodes it has not begun
    at,         \* the node it is at: one node, or none
    body,       \* what it has read of an ISO, to copy or to upload
    files,      \* the ISO files
    store,      \* what the kickstart volume of each node holds
    remote,     \* the output directory is on another device
    disturbed   \* workers that met another one on a node of theirs

vars == <<job, pc, todo, at, body, files, store, remote, disturbed>>

-----------------------------------------------------------------------------
(* Jobs.  keep is --keep, which only matters to an upload; out is the      *)
(* directory of the result: the one given by --out or --out-dir, the temp  *)
(* directory, or one made for the worker.                                  *)
Job ==
    [verb : {"up"}, nodes : {{n} : n \in Names}, out : {"tmp"},
     upload : BOOLEAN, keep : {FALSE}]
    \cup
    [verb : {"build-iso", "build-ubuntu"}, nodes : {{n} : n \in Names},
     out : {"tmp", "out"}, upload : {FALSE}, keep : {TRUE}]
    \cup
    [verb : {"build-stack"}, nodes : (SUBSET Names) \ {{}},
     out : {"tmp", "out", "own"}, upload : {TRUE}, keep : BOOLEAN]
    \cup
    [verb : {"build-stack"}, nodes : (SUBSET Names) \ {{}},
     out : {"tmp", "out", "own"}, upload : {FALSE}, keep : {TRUE}]

NoJob == [verb |-> "none", nodes |-> {}, out |-> "tmp", upload |-> FALSE,
          keep |-> FALSE]

(* UbuntuISOBuilder works in a directory of its own, and leaves its ISO     *)
(* there unless --out is given.                                            *)
Built(w, n) == IF job[w].verb = "build-ubuntu" THEN <<w, n>> ELSE <<"tmp", n>>

Result(w, n) ==
    CASE job[w].out = "out" -> <<"out", n>>
      [] job[w].out = "own" -> <<w, n>>
      [] OTHER              -> Built(w, n)

-----------------------------------------------------------------------------
(* Files.                                                                  *)
Path    == ({"tmp", "out"} \cup Workers) \X Names
Content == {c \in [by : SUBSET Workers, unfinished : SUBSET Workers] :
               c.unfinished \subseteq c.by}
NoFile  == [by |-> {}, unfinished |-> {}]
Own(w)  == [by |-> {w}, unfinished |-> {}]

Writing(w) == pc[w] \in {"mastering", "copying"}

(* The file after worker w opened it for writing: truncated, but whoever is *)
(* writing to it goes on.                                                  *)
Opened(w, f) ==
    LET others == {v \in f.unfinished : Writing(v)} IN
    [by |-> {w} \cup others, unfinished |-> {w} \cup others]

(* w has written content c to file f, if the path still leads to its file.  *)
Finished(w, f, c) ==
    IF w \in f.unfinished
    THEN [by         |-> (f.by \ {w}) \cup c.by,
          unfinished |-> (f.unfinished \ {w}) \cup c.unfinished]
    ELSE f

Removed(path) == [files EXCEPT ![path] = NoFile]

(* What os.Remove of paths leaves: its error is ignored, and a file may stay. *)
AfterRemoval(paths) ==
    {[p \in Path |-> IF p \in gone THEN NoFile ELSE files[p]] : gone \in SUBSET paths}

-----------------------------------------------------------------------------
Returned == {"ok", "error", "killed"}

TypeOK ==
    /\ job \in [Workers -> Job \cup {NoJob}]
    /\ pc \in [Workers -> {"idle", "extract", "next", "staged", "mastering",
                           "built", "copying", "placed", "sending", "uploaded",
                           "abandoned"} \cup Returned]
    /\ todo \in [Workers -> SUBSET Names]
    /\ at \in [Workers -> SUBSET Names]
    /\ body \in [Workers -> Content]
    /\ files \in [Path -> Content]
    /\ store \in [Names -> Content]
    /\ remote \in BOOLEAN
    /\ disturbed \in SUBSET Workers
    /\ \A w \in Workers :
           pc[w] \in {"sending", "uploaded", "abandoned"} => job[w].upload

Init ==
    /\ job = [w \in Workers |-> NoJob]
    /\ pc = [w \in Workers |-> "idle"]
    /\ todo = [w \in Workers |-> {}]
    /\ at = [w \in Workers |-> {}]
    /\ body = [w \in Workers |-> NoFile]
    /\ files = [p \in Path |-> NoFile]
    /\ store = [n \in Names |-> NoFile]
    /\ remote \in BOOLEAN
    /\ disturbed = {}

(* A worker is at work, or a request it gave up on is still on its way.     *)
Active(w) == pc[w] \notin Returned \cup {"idle"}

(* The nodes of a process are distinct: they are the keys of a map.        *)
Begin(w) ==
    /\ pc[w] = "idle"
    /\ \E j \in Job :
        LET met == {v \in Workers : job[v].nodes \cap j.nodes # {}} IN
        /\ job' = [job EXCEPT ![w] = j]
        /\ todo' = [todo EXCEPT ![w] = j.nodes]
        /\ pc' = [pc EXCEPT ![w] = IF j.verb = "build-stack" THEN "extract" ELSE "next"]
        /\ disturbed' = disturbed \cup met
               \cup (IF \E v \in met : Active(v) THEN {w} ELSE {})
    /\ UNCHANGED <<at, body, files, store, remote>>

Goto(w, label) == pc' = [pc EXCEPT ![w] = label]

(* build-stack: the bootloader, the volume label, the output directory and, *)
(* with --upload, the client and the storage.                              *)
Extract(w) ==
    /\ pc[w] = "extract"
    /\ Goto(w, "next")
    /\ UNCHANGED <<job, todo, at, body, files, store, remote, disturbed>>

(* Mutant: a stale output is not removed, and the tool appends to it.       *)
StageOverStale(w) ==
    /\ pc[w] = "next"
    /\ \E n \in todo[w] :
        /\ todo' = [todo EXCEPT ![w] = @ \ {n}]
        /\ at' = [at EXCEPT ![w] = {n}]
    /\ Goto(w, "staged")
    /\ UNCHANGED <<job, body, files, store, remote, disturbed>>

(* The next node, in the order of a Go map: render its kickstart, stage the *)
(* ISO's tree in a fresh directory, remove a stale output.  An output that  *)
(* cannot be removed is another user's, in a sticky directory: the tool     *)
(* cannot write it either and the worker Fails.                            *)
Stage(w) ==
    /\ pc[w] = "next"
    /\ \E n \in todo[w] :
        /\ todo' = [todo EXCEPT ![w] = @ \ {n}]
        /\ at' = [at EXCEPT ![w] = {n}]
        /\ files' = Removed(Built(w, n))
    /\ Goto(w, "staged")
    /\ UNCHANGED <<job, body, store, remote, disturbed>>

(* The ISO tool creates its output, or opens what is there by now ...       *)
OpenIso(w) ==
    /\ pc[w] = "staged"
    /\ \E n \in at[w] :
        files' = [files EXCEPT ![Built(w, n)] =
                    IF @ = NoFile THEN Opened(w, @)
                    ELSE [by |-> @.by \cup {w}, unfinished |-> @.unfinished \cup {w}]]
    /\ Goto(w, "mastering")
    /\ UNCHANGED <<job, todo, at, body, store, remote, disturbed>>

(* ... and has written it.                                                 *)
CloseIso(w) ==
    /\ pc[w] = "mastering"
    /\ \E n \in at[w] :
        files' = [files EXCEPT ![Built(w, n)] = Finished(w, @, Own(w))]
    /\ Goto(w, "built")
    /\ UNCHANGED <<job, todo, at, body, store, remote, disturbed>>

MustMove(w, n) == Result(w, n) # Built(w, n)

Stay(w) ==
    /\ pc[w] = "built"
    /\ \E n \in at[w] : ~MustMove(w, n)
    /\ Goto(w, "placed")
    /\ UNCHANGED <<job, todo, at, body, files, store, remote, disturbed>>

(* os.Rename replaces what is at the new path, on one device.              *)
CanRename(w, n) ==
    files[Built(w, n)] # NoFile /\ (job[w].out = "out" => ~remote)

Rename(w) ==
    /\ pc[w] = "built"
    /\ \E n \in at[w] :
        /\ MustMove(w, n) /\ CanRename(w, n)
        /\ files' = [Removed(Built(w, n)) EXCEPT ![Result(w, n)] = files[Built(w, n)]]
    /\ Goto(w, "placed")
    /\ UNCHANGED <<job, todo, at, body, store, remote, disturbed>>

(* build-stack falls back to copyISOFile: the source is opened and the      *)
(* destination created, ...                                                *)
CopyBegins(w) ==
    /\ pc[w] = "built"
    /\ job[w].verb = "build-stack"
    /\ \E n \in at[w] :
        /\ MustMove(w, n) /\ ~CanRename(w, n)
        /\ files[Built(w, n)] # NoFile
        /\ body' = [body EXCEPT ![w] = files[Built(w, n)]]
        /\ files' = [files EXCEPT ![Result(w, n)] = Opened(w, @)]
    /\ Goto(w, "copying")
    /\ UNCHANGED <<job, todo, at, store, remote, disturbed>>

Forget(w) == body' = [body EXCEPT ![w] = NoFile]

(* ... and once it is written and synced the source is removed, if it can.  *)
CopyEnds(w) ==
    /\ pc[w] = "copying"
    /\ \E n \in at[w] : \E left \in AfterRemoval({Built(w, n)}) :
        files' = [left EXCEPT ![Result(w, n)] = Finished(w, @, body[w])]
    /\ Forget(w)
    /\ Goto(w, "placed")
    /\ UNCHANGED <<job, todo, at, store, remote, disturbed>>

-----------------------------------------------------------------------------
(* UploadISO: the file is read into memory as it is by then, and posted.   *)

(* Mutant: uploaded without --upload as well.                               *)
ReadIsoAlways(w) ==
    /\ pc[w] = "placed"
    /\ \E n \in at[w] :
        /\ files[Result(w, n)] # NoFile
        /\ body' = [body EXCEPT ![w] = files[Result(w, n)]]
    /\ Goto(w, "sending")
    /\ UNCHANGED <<job, todo, at, files, store, remote, disturbed>>

ReadIso(w) ==
    /\ pc[w] = "placed"
    /\ job[w].upload
    /\ \E n \in at[w] :
        /\ files[Result(w, n)] # NoFile
        /\ body' = [body EXCEPT ![w] = files[Result(w, n)]]
    /\ Goto(w, "sending")
    /\ UNCHANGED <<job, todo, at, files, store, remote, disturbed>>

Store(w) == \E n \in at[w] : store' = [store EXCEPT ![n] = body[w]]

Posted(w) ==
    /\ pc[w] = "sending"
    /\ Store(w)
    /\ Forget(w)
    /\ Goto(w, "uploaded")
    /\ UNCHANGED <<job, todo, at, files, remote, disturbed>>

(* The upload is given up, or its worker killed, with the request under way. *)
Abandon(w) ==
    /\ pc[w] = "sending"
    /\ Goto(w, "abandoned")
    /\ UNCHANGED <<job, todo, at, body, files, store, remote, disturbed>>

LateStore(w) ==
    /\ pc[w] = "abandoned"
    /\ Store(w) \/ store' = store
    /\ Forget(w)
    /\ Goto(w, "error")
    /\ UNCHANGED <<job, todo, at, files, remote, disturbed>>

-----------------------------------------------------------------------------
(* Mutant: the local ISO is removed whether or not --keep was given.        *)
NodeDoneRemoves(w) ==
    /\ pc[w] = IF job[w].upload THEN "uploaded" ELSE "placed"
    /\ files' = IF job[w].upload \/ job[w].verb = "up"
                THEN [p \in Path |-> IF \E n \in at[w] : p = Result(w, n)
                                     THEN NoFile ELSE files[p]]
                ELSE files
    /\ at' = [at EXCEPT ![w] = {}]
    /\ Goto(w, IF todo[w] = {} THEN "ok" ELSE "next")
    /\ UNCHANGED <<job, todo, body, store, remote, disturbed>>

(* The node is done: build-stack removes the local ISO after an upload      *)
(* without --keep, `up` at the end of an Apply that succeeded, if they can. *)
NodeDone(w) ==
    /\ pc[w] = IF job[w].upload THEN "uploaded" ELSE "placed"
    /\ IF job[w].keep THEN files' = files
       ELSE files' \in AfterRemoval({Result(w, n) : n \in at[w]})
    /\ at' = [at EXCEPT ![w] = {}]
    /\ Goto(w, IF todo[w] = {} THEN "ok" ELSE "next")
    /\ UNCHANGED <<job, todo, body, store, remote, disturbed>>

(* Anything else fails, up to the remaining changes of an Apply: the first  *)
(* error ends the worker and leaves the files as they are.                 *)
MayFail(w) ==
    \/ pc[w] \in {"extract", "next", "staged", "mastering", "copying", "placed"}
    \/ pc[w] = "uploaded" /\ job[w].verb = "up"
    \/ pc[w] = "built" /\ \E n \in at[w] : MustMove(w, n)

Fails(w) ==
    /\ MayFail(w)
    /\ Forget(w)
    /\ Goto(w, "error")
    /\ UNCHANGED <<job, todo, at, files, store, remote, disturbed>>

(* Ctrl-C takes the ISO tool with it.                                      *)
Kill(w) ==
    /\ Active(w) /\ pc[w] \notin {"sending", "abandoned"}
    /\ Forget(w)
    /\ Goto(w, "killed")
    /\ UNCHANGED <<job, todo, at, files, store, remote, disturbed>>

Worker(w) ==
    \/ Begin(w) \/ Extract(w) \/ Stage(w) \/ OpenIso(w) \/ CloseIso(w)
    \/ Stay(w) \/ Rename(w) \/ CopyBegins(w) \/ CopyEnds(w)
    \/ ReadIso(w) \/ Posted(w) \/ Abandon(w) \/ LateStore(w)
    \/ NodeDone(w) \/ Fails(w) \/ Kill(w)

Stopped == (\A w \in Workers : pc[w] \in Returned) /\ UNCHANGED vars

Next == (\E w \in Workers : Worker(w)) \/ Stopped

Spec == Init /\ [][Next]_vars

-----------------------------------------------------------------------------
(* What a worker uploads for a node is its own ISO of that node, all of it, *)
(* whatever killed or failed workers have left at the path before, unless  *)
(* another worker was at a node of that name at the same time.             *)
UploadsOwn ==
    \A w \in Workers \ disturbed : pc[w] = "sending" => body[w] = Own(w)

Complete(w, n) ==
    /\ job[w].upload => store[n] = Own(w)
    /\ files[Result(w, n)] = Own(w) \/ (~job[w].keep /\ files[Result(w, n)] = NoFile)
    /\ MustMove(w, n) => files[Built(w, n)] \in {NoFile, Own(w)}

Untouched(w, n) ==
    /\ w \notin store[n].by
    /\ \A p \in Path : p[2] = n => w \notin files[p].by

(* A failure or a kill costs at most the node it hits: wherever a worker    *)
(* is cut short, a node it is done with has its whole ISO in storage and,  *)
(* where it was asked for, on disk, a node it has not begun has nothing of *)
(* it, and no removal, of those that are silently given up included, leaves *)
(* half an ISO of a node that is done.                                     *)
NodeByNode ==
    \A w \in Workers \ disturbed :
        \A n \in job[w].nodes \ at[w] :
            IF n \in todo[w] THEN Untouched(w, n) ELSE Complete(w, n)
=============================================================================
