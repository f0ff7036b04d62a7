--------------------------- MODULE CaptureManager ---------------------------
(***************************************************************************)
(* Snapshots and recordings on the gateway: ffmpeg writes a file into the  *)
(* staging directory, a metadata file beside it puts it in the queue, and  *)
(* flush uploads what is queued.                                           *)
(*                                                                         *)
(* The main loop takes snapshots and flushes; a recording that has ended   *)
(* flushes as well, at the same time.  Files survive a restart, the rest   *)
(* does not.  A command may come again whenever the gateway is free.  The  *)
(* disk does not fail, but metadata is written by writeFile, which empties *)
(* the file and then writes: meanwhile another may write it or read it,    *)
(* and a restart leaves it empty.                                          *)
(***************************************************************************)
EXTENDS Naturals, FiniteSets

CONSTANTS Snapshots, Recordings,  \* the assets
          MaxFiles,     \* bound: the files captured for one asset
          MaxStaging,   \* VIGION_MEDIA_STAGING_MAX_BYTES, in files
          MaxAttempts   \* VIGION_UPLOAD_MAX_ATTEMPTS, one digit

VARIABLES recordings,  \* CaptureManager.recordings: the file, or 0
          completed,   \* CaptureManager.completed
          files,       \* the media files in the staging directory
          made,        \* how many of their names were given
          meta,        \* the metadata files
          open,        \* who has them open to write: the snapshot writes as "main"
          job,         \* the snapshot the main loop is at
          flushes,     \* the calls of flush in progress
          captured,    \* history: the assets that were in the queue
          settled,     \* history: those whose file reached the cloud, or ended with its TTL
          cut,         \* history: those whose metadata is no item and will not become one
          disturbed    \* history: the gateway restarted, or something was captured again

memory == <<recordings, completed, job, flushes>>
disk == <<files, made, meta, open>>
history == <<captured, settled, cut, disturbed>>
vars == <<memory, disk, history>>

Assets == Snapshots \cup Recordings
Files == 1 .. MaxFiles
Flushers == {"main"} \cup Recordings

NoItem == [file |-> 0, attempts |-> 0]
Unreadable == [file |-> 0, attempts |-> 1]  \* no JSON: empty, or with the rest of an older text
NoJob == [pc |-> "idle", a |-> "none", file |-> 0]
NoFlush == [pc |-> "idle", todo |-> {}, a |-> "none", item |-> NoItem]

Init ==
  /\ recordings = [a \in Recordings |-> 0] /\ completed = {}
  /\ files = [a \in Assets |-> [n \in Files |-> "NONE"]]
  /\ made = [a \in Assets |-> 0]
  /\ meta = [a \in Assets |-> NoItem] /\ open = [a \in Assets |-> {}]
  /\ job = NoJob
  /\ flushes = [f \in Flushers |-> NoFlush]
  /\ captured = {} /\ settled = {} /\ cut = {}
  /\ disturbed = FALSE
-----------------------------------------------------------------------------
Put(a, n, state) == files' = [files EXCEPT ![a][n] = state]

\* ensureCapacity: a file that is being written counts with what it has by now, perhaps 0.
MayFit == Cardinality({f \in Assets \X Files : files[f[1]][f[2]] = "WHOLE"}) < MaxStaging

\* The name has a randomUUID.
NewFile(a, n) == n = made[a] + 1

\* Another file; the asset may have been captured already.
Capture(a) ==
  /\ made[a] < MaxFiles
  /\ made' = [made EXCEPT ![a] = @ + 1]
  /\ disturbed' = (disturbed \/ a \in captured \/ \E n \in Files : files[a][n] # "NONE")

\* writeFile of metadata begins, ...
Truncate(f, a) ==
  /\ meta' = [meta EXCEPT ![a] = Unreadable]
  /\ open' = [open EXCEPT ![a] = @ \cup {f}]

\* ... and ends.  What another has written meanwhile is overwritten, but not the rest of a
\* longer text: the items written back have a nextAttemptAt.  A file that was removed
\* meanwhile stays so.
Over(old, new) ==
  IF new.attempts = 0 /\ old # Unreadable /\ old.attempts > 0 THEN Unreadable ELSE new
Write(f, a, item) ==
  /\ open' = [open EXCEPT ![a] = @ \ {f}]
  /\ \/ f \notin open[a] /\ UNCHANGED <<meta, cut>>
     \/ /\ f \in open[a]
        /\ meta' = [meta EXCEPT ![a] = Over(@, item)]
        /\ cut' = IF meta'[a] = item THEN cut \ {a} ELSE cut \cup {a}

Unlink(a) ==
  /\ meta' = [meta EXCEPT ![a] = NoItem]
  /\ open' = [open EXCEPT ![a] = {}]

Readable(a) == meta[a] \notin {NoItem, Unreadable}

\* enqueue: the capture is accepted.
Enqueue(f, a) == Truncate(f, a) /\ captured' = captured \cup {a}
Enqueued(f, a, n) == Write(f, a, [file |-> n, attempts |-> 0])

Free == job = NoJob /\ flushes["main"] = NoFlush
-----------------------------------------------------------------------------
(* snapshot, which the main loop waits for *)

\* What is completed is only answered.
SnapshotStart(a) ==
  /\ Free /\ a \notin completed /\ MayFit
  /\ \E n \in Files :
       /\ NewFile(a, n)
       /\ Put(a, n, "PART")
       /\ job' = [pc |-> "shoot", a |-> a, file |-> n]
  /\ Capture(a)
  /\ UNCHANGED <<recordings, completed, flushes, meta, open, captured, settled, cut>>

SnapshotTaken ==
  /\ job.pc = "shoot"
  /\ Put(job.a, job.file, "WHOLE")
  /\ job' = [job EXCEPT !.pc = "queue"]
  /\ UNCHANGED <<recordings, completed, flushes, meta, open, history, made>>

\* Variant: what has been written stays.
SnapshotAbandoned ==
  /\ job.pc = "shoot"
  /\ job' = NoJob
  /\ UNCHANGED <<recordings, completed, flushes, disk, history>>
\* ffmpeg failed, or the file is larger than maxBytes.
SnapshotFails ==
  /\ job.pc = "shoot"
  /\ Put(job.a, job.file, "NONE")
  /\ job' = NoJob
  /\ UNCHANGED <<recordings, completed, flushes, meta, open, history, made>>

SnapshotQueued ==
  /\ job.pc = "queue"
  /\ Enqueue("main", job.a)
  /\ job' = [job EXCEPT !.pc = "write"]
  /\ UNCHANGED <<recordings, completed, flushes, files, settled, cut, disturbed, made>>

SnapshotWritten ==
  /\ job.pc = "write"
  /\ Enqueued("main", job.a, job.file)
  /\ job' = [job EXCEPT !.pc = "flush"]
  /\ UNCHANGED <<recordings, completed, flushes, files, captured, settled, disturbed, made>>
-----------------------------------------------------------------------------
(* Recordings *)

StartRecording(a) ==
  /\ Free /\ recordings[a] = 0 /\ a \notin completed /\ MayFit
  /\ \E n \in Files :
       /\ NewFile(a, n)
       /\ Put(a, n, "PART")
       /\ recordings' = [recordings EXCEPT ![a] = n]
  /\ Capture(a)
  /\ UNCHANGED <<completed, job, flushes, meta, open, captured, settled, cut>>

\* ffmpeg exits: the duration is over, stopRecording or cleanup has sent SIGINT, or it
\* failed.  finish does not queue a file that is empty or too large.
\* Bound: the flush of an earlier recording of the asset has ended.
Exit(a, whole) ==
  /\ recordings[a] # 0 /\ flushes[a] = NoFlush
  /\ recordings' = [recordings EXCEPT ![a] = 0]
  /\ Put(a, recordings[a], IF whole THEN "WHOLE" ELSE "NONE")
  /\ flushes' = IF whole
       THEN [flushes EXCEPT ![a].pc = "queue", ![a].item.file = recordings[a]] ELSE flushes
  /\ UNCHANGED <<completed, job, meta, open, history, made>>

RecordingQueued(a) ==
  /\ flushes[a].pc = "queue"
  /\ Enqueue(a, a)
  /\ flushes' = [flushes EXCEPT ![a].pc = "write"]
  /\ UNCHANGED <<recordings, completed, job, files, settled, cut, disturbed, made>>

RecordingWritten(a) ==
  /\ flushes[a].pc = "write"
  /\ Enqueued(a, a, flushes[a].item.file)
  /\ flushes' = [flushes EXCEPT ![a] = [NoFlush EXCEPT !.pc = "start"]]
  /\ UNCHANGED <<recordings, completed, job, files, captured, settled, disturbed, made>>
-----------------------------------------------------------------------------
(* flush *)

Goto(f, pc) == flushes' = [flushes EXCEPT ![f].pc = pc]
NextItem(f) == flushes' = [flushes EXCEPT ![f] =
                 [NoFlush EXCEPT !.pc = "next", !.todo = flushes[f].todo \ {flushes[f].a}]]

\* Of the main loop, after a snapshot or at the end of a turn.
FlushStart(f) ==
  /\ \/ f = "main" /\ flushes[f] = NoFlush /\ job.pc \in {"idle", "flush"}
     \/ flushes[f].pc = "start"
  /\ flushes' = [flushes EXCEPT ![f] =
       [NoFlush EXCEPT !.pc = "next", !.todo = {a \in Assets : meta[a] # NoItem}]]
  /\ UNCHANGED <<recordings, completed, job, disk, history>>

Turn(f, a) == flushes[f].pc = "next" /\ a \in flushes[f].todo

\* The metadata is gone by now or cannot be parsed, all attempts were made, or the next is not due yet.
SkipItem(f, a) ==
  /\ Turn(f, a)
  /\ flushes' = [flushes EXCEPT ![f].todo = @ \ {a}]
  /\ UNCHANGED <<recordings, completed, job, disk, history>>

\* The TTL is over.
ExpireItem(f, a) ==
  /\ Turn(f, a) /\ Readable(a)
  /\ Put(a, meta[a].file, "NONE")
  /\ Unlink(a)
  /\ settled' = settled \cup {a}
  /\ flushes' = [flushes EXCEPT ![f].todo = @ \ {a}]
  /\ UNCHANGED <<recordings, completed, job, captured, cut, disturbed, made>>

Reading(f, a) ==
  /\ Turn(f, a) /\ Readable(a) /\ meta[a].attempts < MaxAttempts
  /\ flushes' = [flushes EXCEPT ![f].a = a, ![f].item = meta[a], ![f].pc =
       IF files[a][meta[a].file] = "NONE" THEN "retry" ELSE "upload"]

\* Variant: what is taken is no longer queued.
TakeItem(f, a) ==
  /\ Reading(f, a)
  /\ Unlink(a)
  /\ UNCHANGED <<recordings, completed, job, files, history, made>>
ReadItem(f, a) ==
  /\ Reading(f, a)
  /\ UNCHANGED <<recordings, completed, job, disk, history>>

\* The response of an upload that was stored may be lost.
Upload(f, stored, answered) ==
  /\ flushes[f].pc = "upload"
  /\ settled' = IF stored THEN settled \cup {flushes[f].a} ELSE settled
  /\ Goto(f, IF stored /\ answered THEN "remove" ELSE "retry")
  /\ UNCHANGED <<recordings, completed, job, disk, captured, cut, disturbed>>

\* By name, whatever file the metadata names by now.
Remove(f) ==
  /\ flushes[f].pc = "remove"
  /\ Put(flushes[f].a, flushes[f].item.file, "NONE")
  /\ Unlink(flushes[f].a)
  /\ completed' = completed \cup {flushes[f].a}
  /\ NextItem(f)
  /\ UNCHANGED <<recordings, job, history, made>>

\* The item as it was read is written back.
Retry(f) ==
  /\ flushes[f].pc = "retry"
  /\ Truncate(f, flushes[f].a)
  /\ Goto(f, "rewrite")
  /\ UNCHANGED <<recordings, completed, job, files, history, made>>

\* After the last attempt the cloud is told.
Rewrite(f) ==
  /\ flushes[f].pc = "rewrite"
  /\ Write(f, flushes[f].a, [flushes[f].item EXCEPT !.attempts = @ + 1])
  /\ NextItem(f)
  /\ UNCHANGED <<recordings, completed, job, files, captured, settled, disturbed, made>>

FlushEnds(f) ==
  /\ flushes[f].pc = "next" /\ flushes[f].todo = {}
  /\ flushes' = [flushes EXCEPT ![f] = NoFlush]
  /\ IF f = "main" /\ job.pc = "flush"
       THEN completed' = completed \cup {job.a} /\ job' = NoJob
       ELSE UNCHANGED <<completed, job>>
  /\ UNCHANGED <<recordings, disk, history>>

\* ffmpeg ends with the gateway; its files stay, and metadata that was to be written is
\* no item for good.
Restart ==
  /\ recordings' = [a \in Recordings |-> 0] /\ completed' = {}
  /\ job' = NoJob
  /\ flushes' = [f \in Flushers |-> NoFlush]
  /\ open' = [a \in Assets |-> {}]
  /\ cut' = cut \cup {a \in Assets : meta[a] = Unreadable}
  /\ disturbed' = TRUE
  /\ UNCHANGED <<files, made, meta, captured, settled>>
-----------------------------------------------------------------------------
MainStep ==
  \/ SnapshotTaken \/ SnapshotFails \/ SnapshotQueued \/ SnapshotWritten
FlushStep(f) ==
  \/ FlushStart(f) \/ Remove(f) \/ Retry(f) \/ Rewrite(f) \/ FlushEnds(f)
  \/ \E a \in Assets : SkipItem(f, a) \/ ExpireItem(f, a) \/ ReadItem(f, a)
  \/ \E stored, answered \in BOOLEAN : Upload(f, stored, answered)
-----------------------------------------------------------------------------
(* Properties *)

\* What was captured is not lost: it was uploaded, or its whole file is still queued or
\* about to be again, until its TTL ends it, whatever flushes overlap, uploads fail and
\* restarts come.  That includes all that a repeated command is told is done already.
\* It is lost only if the gateway restarts in the middle of writing its metadata, or two
\* at once write it, a new capture last.
CapturesKept ==
  \A a \in captured \cup completed :
    \/ a \in settled
    \/ Readable(a) /\ files[a][meta[a].file] = "WHOLE"
    \/ meta[a] = Unreadable /\ (open[a] # {} \/ a \in cut)

\* Until the gateway restarts or captures something twice, each file takes its room in
\* staging for a purpose: it is being captured, queued or uploaded.
StagingOwned ==
  ~disturbed => \A a \in Assets, n \in Files : files[a][n] # "NONE" =>
    \/ a \in Recordings /\ recordings[a] = n
    \/ a \in Recordings /\ flushes[a].pc \in {"queue", "write"} /\ flushes[a].item.file = n
    \/ job.a = a /\ job.file = n
    \/ meta[a].file = n
    \/ \E f \in Flushers : flushes[f].a = a /\ flushes[f].item.file = n
=============================================================================
