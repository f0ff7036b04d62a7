---------------------------- MODULE MediaStorage -----------------------------
(***************************************************************************)
(* Snapshots and recordings of one organization: the StorageFile rows, the *)
(* objects in the bucket, and the StorageUsage row that charges them to    *)
(* the plan.  The gateway uploads and reports failures, users ask for      *)
(* captures and delete them, the retention worker deletes what is too old. *)
(*                                                                         *)
(* StorageUsage has two sums, usedBytes and reservedBytes.  Every handler  *)
(* changes them on behalf of one asset, so they are kept here as what each *)
(* asset has been charged; the column is the sum over all assets.          *)
(*                                                                         *)
(* A handler that awaits between two effects is a handler in progress, and *)
(* any number of them interleave, also on the same asset.  `overlap` is a  *)
(* history variable: it records which of them did.                         *)
(***************************************************************************)
EXTENDS Integers, FiniteSets, FiniteSetsExt

CONSTANTS Assets,       \* the captures the organization asks for
          Handlers,     \* requests and workers in progress at the same time
          Reservation,  \* SNAPSHOT_MAX_BYTES, RECORDING_MAX_BYTES
          PlanBytes     \* Plan.maxStorageBytes

ASSUME AssetsAssumption == IsFiniteSet(Assets)
ASSUME ReservationAssumption == Reservation \in Nat \ {0}
ASSUME PlanAssumption == PlanBytes \in Nat

VARIABLES status,       \* StorageFile.status ("NONE": no row, "ASKED": id drawn)
          size,         \* StorageFile.sizeBytes
          reserved,     \* StorageFile.reservedBytes
          usedFor,      \* what usedBytes holds on behalf of each asset
          reservedFor,  \* what reservedBytes holds on behalf of each asset
          objects,      \* the assets whose key is in the bucket
          work,         \* what each handler is doing
          overlap,      \* 0: an asset's handlers were never concurrent;
                        \* 1: only uploads with each other; 2: others
          crowded       \* whether two requests have reserved concurrently

row == <<status, size, reserved>>
history == <<overlap, crowded>>
usage == <<usedFor, reservedFor>>
vars == <<row, usage, objects, work, history>>

\* PENDING stands for PENDING (snapshots) and CAPTURING (recordings), DELETED
\* for DELETED (by a user) and EXPIRED (by the retention worker).
ActiveStatuses == {"PENDING", "UPLOADING"}
RowStatuses == ActiveStatuses \cup {"AVAILABLE", "FAILED", "DELETING", "DELETED"}
Statuses == RowStatuses \cup {"NONE", "ASKED"}

Usages == [Assets -> Int] \X [Assets -> Int]

Idle == [kind |-> "idle"]
Work == [kind : {"request", "upload", "fail", "remove"}, asset : Assets,
         pc : {"read", "reserved", "marked", "put", "cleared"},
         bytes : Int, found : Statuses \cup Usages]

Init ==
  /\ status = [a \in Assets |-> "NONE"]
  /\ size = [a \in Assets |-> 0] /\ reserved = [a \in Assets |-> 0]
  /\ usedFor = [a \in Assets |-> 0] /\ reservedFor = [a \in Assets |-> 0]
  /\ objects = {}
  /\ work = [h \in Handlers |-> Idle]
  /\ overlap = [a \in Assets |-> 0] /\ crowded = FALSE

\* The two columns of the usage row, and their sum.
Column(charges) == MapThenSumSet(LAMBDA a : charges[a], Assets)
Charged(seen) == Column(seen[1]) + Column(seen[2])
------------------------------------------------------------------------------
(* Handlers in progress *)

Busy(h, kind, pc) == work[h].kind = kind /\ work[h].pc = pc

Others(h, a) ==
  {work[g].kind : g \in {f \in Handlers \ {h} : work[f] # Idle /\ work[f].asset = a}}

Overlaps(h, a, kind) ==
  IF Others(h, a) = {} THEN overlap[a]
  ELSE IF Others(h, a) \cup {kind} = {"upload"} THEN 1 ELSE 2

\* Bound: when handlers of an asset other than uploads have overlapped, those
\* in progress go on and no further one begins; charges would drift for ever.
WithinBound(a) == overlap[a] < 2

\* A handler reads what it will act on later: a number of bytes, and the status
\* it found or, for a request, the usage.
Begin(h, kind, a, bytes, found) ==
  /\ work[h] = Idle /\ WithinBound(a)
  /\ work' = [work EXCEPT ![h] =
       [kind |-> kind, asset |-> a, pc |-> "read", bytes |-> bytes, found |-> found]]
  /\ overlap' = [overlap EXCEPT ![a] = Overlaps(h, a, kind)]
  /\ crowded' = (crowded \/ (kind = "request" /\ \E g \in Handlers : Busy(g, "request", "read")))

Goto(h, pc) == work' = [work EXCEPT ![h].pc = pc] /\ UNCHANGED history
Finish(h) == work' = [work EXCEPT ![h] = Idle] /\ UNCHANGED history

\* An exception or the death of the process ends a handler where it is.
Die(h) ==
  /\ work[h] # Idle
  /\ Finish(h)
  /\ UNCHANGED <<row, usage, objects>>
------------------------------------------------------------------------------
(* request and requestForEvent: reserve, then create the row *)

\* Variant: the new reservation itself is left out of the check.
FitsLate(seen) == seen <= PlanBytes
Fits(seen) == seen + Reservation <= PlanBytes

\* reserveStorage's transaction reads the subscription before it locks the
\* usage row, so the usage it then checks may be that of its beginning.
RequestBegin(h, a) ==
  /\ status[a] = "NONE"
  /\ Begin(h, "request", a, 0, usage)
  /\ status' = [status EXCEPT ![a] = "ASKED"]
  /\ UNCHANGED <<size, reserved, usage, objects>>

RequestReserve(h) ==
  LET a == work[h].asset IN
  /\ Busy(h, "request", "read")
  /\ \E seen \in {work[h].found, usage} : Fits(Charged(seen))
  /\ reservedFor' = [reservedFor EXCEPT ![a] = @ + Reservation]
  /\ Goto(h, "reserved")
  /\ UNCHANGED <<row, usedFor, objects>>

RequestCreate(h) ==
  LET a == work[h].asset IN
  /\ Busy(h, "request", "reserved")
  /\ status' = [status EXCEPT ![a] = "PENDING"]
  /\ reserved' = [reserved EXCEPT ![a] = Reservation]
  /\ Finish(h)
  /\ UNCHANGED <<size, usage, objects>>

\* The row cannot be created: the reservation is given back, if the column
\* still holds as much.
RequestRelease(h) ==
  LET a == work[h].asset IN
  /\ Busy(h, "request", "reserved")
  /\ IF Column(reservedFor) >= Reservation
     THEN reservedFor' = [reservedFor EXCEPT ![a] = @ - Reservation]
     ELSE UNCHANGED reservedFor
  /\ Finish(h)
  /\ UNCHANGED <<row, usedFor, objects>>
------------------------------------------------------------------------------
(* receiveUpload: mark UPLOADING, store the object, exchange the reservation *)

Authorized(a, bytes) == 0 < bytes /\ bytes <= reserved[a]

UploadBegin(h, a, bytes) ==
  /\ status[a] \in ActiveStatuses
  /\ Authorized(a, bytes)
  /\ Begin(h, "upload", a, bytes, status[a])
  /\ UNCHANGED <<row, usage, objects>>

UploadMark(h) ==
  /\ Busy(h, "upload", "read")
  /\ status' = [status EXCEPT ![work[h].asset] = "UPLOADING"]
  /\ Goto(h, "marked")
  /\ UNCHANGED <<size, reserved, usage, objects>>

UploadPut(h) ==
  /\ Busy(h, "upload", "marked")
  /\ objects' = objects \cup {work[h].asset}
  /\ Goto(h, "put")
  /\ UNCHANGED <<row, usage>>

\* Variant: the whole reservation is booked as used.
ExchangeWhole(a, bytes) ==
  /\ reservedFor' = [reservedFor EXCEPT ![a] = @ - reserved[a]]
  /\ usedFor' = [usedFor EXCEPT ![a] = @ + reserved[a]]
  /\ status' = [status EXCEPT ![a] = "AVAILABLE"]
  /\ size' = [size EXCEPT ![a] = bytes]
  /\ reserved' = [reserved EXCEPT ![a] = 0]
\* The transaction locks the usage row before it reads the file again.
Exchange(a, bytes) ==
  /\ reservedFor' = [reservedFor EXCEPT ![a] = @ - reserved[a]]
  /\ usedFor' = [usedFor EXCEPT ![a] = @ + bytes]
  /\ status' = [status EXCEPT ![a] = "AVAILABLE"]
  /\ size' = [size EXCEPT ![a] = bytes]
  /\ reserved' = [reserved EXCEPT ![a] = 0]

UploadCommit(h) ==
  LET a == work[h].asset IN
  /\ Busy(h, "upload", "put")
  /\ IF status[a] = "AVAILABLE" THEN UNCHANGED <<row, usage>>
     ELSE Exchange(a, work[h].bytes)
  /\ Finish(h)
  /\ UNCHANGED objects
------------------------------------------------------------------------------
(* Failures: failUpload, and acknowledge's branch for a failed capture *)

\* Both read the file before anything is locked; failUpload looks at its
\* status, acknowledge only at its reservation.
FailBegin(h, a) ==
  /\ status[a] \in ActiveStatuses \/ reserved[a] > 0
  /\ Begin(h, "fail", a, reserved[a], status[a])
  /\ UNCHANGED <<row, usage, objects>>

FailCommit(h) ==
  LET a == work[h].asset IN
  /\ Busy(h, "fail", "read")
  /\ reservedFor' = [reservedFor EXCEPT ![a] = @ - work[h].bytes]
  /\ status' = [status EXCEPT ![a] = "FAILED"]
  /\ reserved' = [reserved EXCEPT ![a] = 0]
  /\ Finish(h)
  /\ UNCHANGED <<size, usedFor, objects>>
------------------------------------------------------------------------------
(* remove, asked for by a user or by the retention worker *)

\* A user may not delete a capture in progress.  The worker deletes what was
\* AVAILABLE when it read its batch, whatever it is now.
RemoveBegin(h, a) ==
  /\ status[a] \in RowStatuses \ {"DELETED"}
  /\ status[a] \notin ActiveStatuses \/ size[a] > 0
  /\ Begin(h, "remove", a, size[a], status[a])
  /\ UNCHANGED <<row, usage, objects>>

RemoveMark(h) ==
  /\ Busy(h, "remove", "read")
  /\ status' = [status EXCEPT ![work[h].asset] = "DELETING"]
  /\ Goto(h, "marked")
  /\ UNCHANGED <<size, reserved, usage, objects>>

\* Only a file that had a size is looked for in the bucket.
RemoveObject(h) ==
  /\ Busy(h, "remove", "marked")
  /\ objects' = IF work[h].bytes > 0 THEN objects \ {work[h].asset} ELSE objects
  /\ Goto(h, "cleared")
  /\ UNCHANGED <<row, usage>>

\* The bucket answers with an error, having deleted the object or not: the
\* status goes back to what it was.
RemoveRestore(h) ==
  /\ Busy(h, "remove", "marked") /\ work[h].bytes > 0
  /\ status' = [status EXCEPT ![work[h].asset] = work[h].found]
  /\ objects' \in {objects, objects \ {work[h].asset}}
  /\ Finish(h)
  /\ UNCHANGED <<size, reserved, usage>>

Release(a) ==
  /\ IF size[a] > 0
     THEN usedFor' = [usedFor EXCEPT ![a] = @ - size[a]] /\ UNCHANGED reservedFor
     ELSE reservedFor' = [reservedFor EXCEPT ![a] = @ - reserved[a]] /\ UNCHANGED usedFor
  /\ status' = [status EXCEPT ![a] = "DELETED"]
  /\ reserved' = [reserved EXCEPT ![a] = 0]
  /\ UNCHANGED size

RemoveCommit(h) ==
  LET a == work[h].asset IN
  /\ Busy(h, "remove", "cleared")
  /\ IF status[a] = "DELETED" THEN UNCHANGED <<row, usage>> ELSE Release(a)
  /\ Finish(h)
  /\ UNCHANGED objects
------------------------------------------------------------------------------
Step(h) ==
  \/ RequestReserve(h) \/ RequestCreate(h) \/ RequestRelease(h)
  \/ UploadMark(h) \/ UploadPut(h) \/ UploadCommit(h)
  \/ FailCommit(h)
  \/ RemoveMark(h) \/ RemoveObject(h) \/ RemoveRestore(h) \/ RemoveCommit(h)
  \/ Die(h)

Start(h, a) ==
  \/ RequestBegin(h, a) \/ FailBegin(h, a) \/ RemoveBegin(h, a)
  \/ \E bytes \in 1..(Reservation + 1) : UploadBegin(h, a, bytes)

Next == \E h \in Handlers : Step(h) \/ \E a \in Assets : Start(h, a)

Spec == Init /\ [][Next]_vars
------------------------------------------------------------------------------
TypeOK ==
  /\ status \in [Assets -> Statuses]
  /\ size \in [Assets -> 0..Reservation]
  /\ reserved \in [Assets -> {0, Reservation}]
  /\ usedFor \in [Assets -> Int] /\ reservedFor \in [Assets -> Int]
  /\ objects \subseteq Assets
  /\ work \in [Handlers -> {Idle} \cup Work]
  /\ overlap \in [Assets -> 0..2] /\ crowded \in BOOLEAN

\* The bytes an asset should be charged for.
Stored(a) == IF status[a] = "DELETED" THEN 0 ELSE size[a]

\* What is charged for an asset covers what it holds and what it may still
\* upload, so the plan's quota is never undercut: neither crashes, nor repeated
\* uploads of one asset racing each other, give back more than was taken.
Covered(a) == usedFor[a] >= Stored(a) /\ reservedFor[a] >= reserved[a]
ChargesCover == \A a \in Assets : overlap[a] <= 1 => Covered(a)

\* While the handlers of an asset run one after the other, whatever dies in
\* between, it is charged for exactly what it holds and may upload; only a
\* request that died on its way leaves a reservation without a row.
ChargesExact ==
  \A a \in Assets : overlap[a] = 0 =>
    /\ usedFor[a] = Stored(a)
    /\ status[a] # "ASKED" => reservedFor[a] = reserved[a]

\* Bytes are given back only for objects that are gone from the bucket.
FreedIsGone ==
  \A a \in Assets : overlap[a] = 0 /\ status[a] = "DELETED" /\ size[a] > 0 =>
    a \notin objects

\* The plan's quota, as long as no two requests reserve at the same time.
WithinPlan == ~crowded /\ (\A a \in Assets : overlap[a] = 0) => Charged(usage) <= PlanBytes

==============================================================================
