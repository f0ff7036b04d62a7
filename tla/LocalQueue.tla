----------------------------- MODULE LocalQueue -----------------------------
(***************************************************************************)
(* A queue of the gateway kept in a file: enqueue reads the file, then     *)
(* writes it whole with one item more; flush reads it, sends the items one *)
(* after the other, then writes those that could not be sent.  Nothing     *)
(* keeps two of these apart: callbacks enqueue while the main loop flushes.*)
(*                                                                         *)
(* A write first empties the file, and a read of an empty file is an empty *)
(* queue: who reads while another is at work may find nothing, and who is  *)
(* cut off may leave nothing.  Bound: neither the time an item is kept nor *)
(* the limit of 500 items is reached.                                      *)
(***************************************************************************)
EXTENDS Naturals, Sequences, SequencesExt

CONSTANTS Messages,    \* what may be enqueued, each once, with an id of its own
          MaxTries     \* an item that failed so often is given up: 8

VARIABLES file,        \* the items in the file
          writers,     \* the enqueues in progress, with what they have read
          flush,       \* the flush of the main loop, with what it has yet to send
          queued,      \* history: messages whose enqueue has ended
          gone,        \* history: messages that were sent, or given up
          overlapped   \* history: one met another, or was cut off

vars == <<file, writers, flush, queued, gone, overlapped>>

Item == [message : Messages, tries : 0 .. MaxTries]
Resting == [on |-> FALSE, rest |-> <<>>, pending |-> <<>>]
Flush == [on : BOOLEAN, rest : Seq(Item), pending : Seq(Item)]
Writer == [message : Messages, items : Seq(Item)]

Init ==
  /\ file = <<>> /\ writers = {} /\ flush = Resting
  /\ queued = {} /\ gone = {} /\ overlapped = FALSE

Busy == writers # {} \/ flush # Resting
MaybeEmptied == IF Busy THEN {file, <<>>} ELSE {file}

EnqueueRead(m) ==
  /\ m \notin queued /\ \A w \in writers : w.message # m
  /\ \E items \in MaybeEmptied : writers' = writers \cup {[message |-> m, items |-> items]}
  /\ overlapped' = (overlapped \/ Busy)
  /\ UNCHANGED <<file, flush, queued, gone>>

Enqueue(w) ==
  /\ file' = Append(w.items, [message |-> w.message, tries |-> 0])
  /\ writers' = writers \ {w}
  /\ queued' = queued \cup {w.message}
  /\ UNCHANGED <<flush, gone, overlapped>>

FlushRead ==
  /\ flush = Resting
  /\ \E items \in MaybeEmptied : flush' = [Resting EXCEPT !.on = TRUE, !.rest = items]
  /\ overlapped' = (overlapped \/ Busy)
  /\ UNCHANGED <<file, writers, queued, gone>>

Sending == flush.rest # <<>>
First == Head(flush.rest)
Onward == [flush EXCEPT !.rest = Tail(@)]
GivenUp == First.tries = MaxTries

Sent ==
  /\ Sending /\ ~GivenUp
  /\ flush' = Onward
  /\ gone' = gone \cup {First.message}
  /\ UNCHANGED <<file, writers, queued, overlapped>>

\* Variant: what could not be sent is not kept.
FailedForgotten ==
  /\ Sending /\ ~GivenUp
  /\ flush' = Onward
  /\ UNCHANGED <<file, writers, queued, gone, overlapped>>
Failed ==
  /\ Sending /\ ~GivenUp
  /\ flush' = [Onward EXCEPT !.pending = Append(@, [First EXCEPT !.tries = @ + 1])]
  /\ UNCHANGED <<file, writers, queued, gone, overlapped>>

GiveUp ==
  /\ Sending /\ GivenUp
  /\ flush' = Onward
  /\ gone' = gone \cup {First.message}
  /\ UNCHANGED <<file, writers, queued, overlapped>>

FlushEnds ==
  /\ flush.on /\ ~Sending
  /\ file' = flush.pending
  /\ flush' = Resting
  /\ UNCHANGED <<writers, queued, gone, overlapped>>

\* The gateway's process ends and is started again.
Restart ==
  /\ file' \in MaybeEmptied
  /\ writers' = {} /\ flush' = Resting
  /\ overlapped' = (overlapped \/ Busy)
  /\ UNCHANGED <<queued, gone>>
-----------------------------------------------------------------------------
(* Properties *)

TypeOK ==
  /\ file \in Seq(Item) /\ writers \subseteq Writer /\ flush \in Flush
  /\ queued \subseteq Messages /\ gone \subseteq Messages /\ overlapped \in BOOLEAN

Held(items) == {items[i].message : i \in DOMAIN items}

\* As long as no two of its operations meet and none is cut off, what was enqueued is
\* in the file until it is sent or given up, and when the flush has written the file
\* nothing is in it that was.  When they meet it may be lost: a result that never
\* reaches the cloud.
Kept == ~overlapped =>
  /\ queued \ gone \subseteq Held(file)
  /\ ~Busy => Held(file) \cap gone = {}
=============================================================================
