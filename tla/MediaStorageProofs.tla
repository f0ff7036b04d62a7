------------------------- MODULE MediaStorageProofs --------------------------
(***************************************************************************)
(* Proofs about MediaStorage for any captures, handlers and sizes: its     *)
(* type invariant, that an asset's charges cover what it holds, that they  *)
(* are exact while its handlers run one after the other, and that bytes    *)
(* are given back only for objects that are gone.                          *)
(* So far each asset is looked at by itself.  The plan's quota is about    *)
(* the sum over all of them; what that sum is, and that it changes as the  *)
(* charge of one asset does, is proved by induction over sets of assets.   *)
(***************************************************************************)
EXTENDS MediaStorage, FiniteSetTheorems, WellFoundedInduction, TLAPS

On(h, a) == work[h] # Idle /\ work[h].asset = a

\* Two handlers of one asset have been noticed; only uploads are tolerated.
Apart ==
  \A g, h \in Handlers : g # h /\ work[g] # Idle /\ On(h, work[g].asset) =>
    /\ overlap[work[h].asset] > 0
    /\ overlap[work[h].asset] = 1 => work[g].kind = "upload" /\ work[h].kind = "upload"

\* An asset has bytes, a reservation or a handler other than the request that
\* creates it only once it has a row, and never a size and a reservation.
RowsFit ==
  \A a \in Assets :
    /\ status[a] \in {"NONE", "ASKED"} =>
         /\ size[a] = 0 /\ reserved[a] = 0 /\ usedFor[a] = 0 /\ reservedFor[a] >= 0
         /\ overlap[a] = 0
    /\ status[a] = "NONE" => reservedFor[a] = 0
    /\ status[a] = "DELETED" => reserved[a] = 0
    /\ reserved[a] > 0 => size[a] = 0
    /\ overlap[a] = 0 /\ status[a] \in ActiveStatuses =>
         size[a] = 0 /\ reserved[a] = Reservation

\* What each kind of handler knows of its asset.  What it read still holds as
\* long as nothing but uploads overlapped.
RequestFits(h, a) ==
  /\ status[a] = "ASKED"
  /\ work[h].pc = "read" => reservedFor[a] = 0
  /\ work[h].pc = "reserved" => reservedFor[a] = Reservation

UploadFits(h, a) ==
  /\ work[h].bytes \in 1..Reservation
  /\ status[a] \notin {"NONE", "ASKED"}
  /\ overlap[a] <= 1 => status[a] \in ActiveStatuses \cup {"AVAILABLE"}
  /\ overlap[a] = 0 => status[a] \in ActiveStatuses

FailFits(h, a) ==
  /\ status[a] \notin {"NONE", "ASKED"}
  /\ overlap[a] <= 1 => work[h].bytes = reserved[a] /\ status[a] # "DELETED"

RemoveFits(h, a) ==
  /\ work[h].found \in RowStatuses \ {"DELETED"}
  /\ status[a] \notin {"NONE", "ASKED"}
  /\ overlap[a] <= 1 => work[h].bytes = size[a] /\ status[a] # "DELETED"
  /\ overlap[a] = 0 => work[h].found \notin ActiveStatuses
  /\ overlap[a] = 0 /\ work[h].pc = "cleared" /\ size[a] > 0 => a \notin objects

HandlerFits(h) ==
  /\ work[h].kind = "request" => RequestFits(h, work[h].asset)
  /\ work[h].kind = "upload" => UploadFits(h, work[h].asset)
  /\ work[h].kind = "fail" => FailFits(h, work[h].asset)
  /\ work[h].kind = "remove" => RemoveFits(h, work[h].asset)
HandlersFit == \A h \in Handlers : HandlerFits(h)

\* The inductive invariant.
IInv ==
  /\ TypeOK /\ ChargesCover /\ ChargesExact /\ FreedIsGone
  /\ Apart /\ RowsFit /\ HandlersFit
------------------------------------------------------------------------------
(* How handlers move *)

\* What a handler in progress is made of.
LEMMA WorkType ==
  ASSUME TypeOK, NEW h \in Handlers, work[h] # Idle
  PROVE  /\ work[h] \in Work /\ work[h].asset \in Assets
         /\ work[h].kind \in {"request", "upload", "fail", "remove"}
         /\ work[h].bytes \in Int /\ work[h].found \in Statuses \cup Usages
  BY DEF TypeOK, Work

\* Only a handler in progress has a kind other than "idle".
LEMMA BusyIsWork ==
  ASSUME NEW h, NEW kind \in {"request", "upload", "fail", "remove"}, work[h].kind = kind
  PROVE  work[h] # Idle
  BY DEF Idle

\* A handler that goes on keeps its asset and what it has read; the others keep
\* everything.
LEMMA GotoWork ==
  ASSUME TypeOK, NEW h \in Handlers, work[h] # Idle,
         NEW pc \in {"read", "reserved", "marked", "put", "cleared"}, Goto(h, pc)
  PROVE  /\ work' \in [Handlers -> {Idle} \cup Work]
         /\ \A g \in Handlers \ {h} : work'[g] = work[g]
         /\ work'[h] # Idle /\ work'[h].pc = pc
         /\ work'[h].kind = work[h].kind /\ work'[h].asset = work[h].asset
         /\ work'[h].bytes = work[h].bytes /\ work'[h].found = work[h].found
<1>1. work[h] \in Work /\ work' = [work EXCEPT ![h] = [work[h] EXCEPT !.pc = pc]]
  BY WorkType DEF Goto
<1>2. [work[h] EXCEPT !.pc = pc] \in Work
  BY <1>1 DEF Work
<1>3. work'[h] = [work[h] EXCEPT !.pc = pc] /\ \A g \in Handlers \ {h} : work'[g] = work[g]
  BY <1>1 DEF TypeOK
<1>4. work'[h] # Idle
  BY <1>1, <1>3 DEF Work, Idle
<1> QED
  BY <1>1, <1>2, <1>3, <1>4 DEF TypeOK, Work

\* A handler that ends is idle; the others keep everything.
LEMMA FinishWork ==
  ASSUME TypeOK, NEW h \in Handlers, Finish(h)
  PROVE  /\ work' \in [Handlers -> {Idle} \cup Work]
         /\ \A g \in Handlers \ {h} : work'[g] = work[g]
         /\ work'[h] = Idle
  BY DEF TypeOK, Finish

\* A handler that goes on or ends leaves the others as far apart as they were.
LEMMA ApartKept ==
  ASSUME Apart, NEW h \in Handlers, UNCHANGED overlap,
         \A g \in Handlers \ {h} : work'[g] = work[g],
         \/ work'[h] = Idle
         \/ /\ work[h] # Idle
            /\ work'[h].kind = work[h].kind /\ work'[h].asset = work[h].asset
  PROVE  Apart'
  BY DEF Apart, On

\* A handler that begins joins those of its asset, if there are any, and is
\* noticed.
LEMMA BeginWork ==
  ASSUME TypeOK, Apart, NEW h \in Handlers, NEW a \in Assets, NEW found \in Statuses \cup Usages,
         NEW kind \in {"request", "upload", "fail", "remove"}, NEW bytes \in Int,
         Begin(h, kind, a, bytes, found)
  PROVE  /\ work[h] = Idle /\ work' \in [Handlers -> {Idle} \cup Work]
         /\ \A g \in Handlers \ {h} : work'[g] = work[g]
         /\ work'[h] # Idle /\ work'[h].pc = "read"
         /\ work'[h].kind = kind /\ work'[h].asset = a
         /\ work'[h].bytes = bytes /\ work'[h].found = found
         /\ overlap' \in [Assets -> 0..2] /\ crowded' \in BOOLEAN
         /\ \A b \in Assets \ {a} : overlap'[b] = overlap[b]
         /\ overlap[a] <= overlap'[a] /\ overlap[a] < 2
         /\ (\A g \in Handlers : ~On(g, a)) => overlap'[a] = overlap[a]
         /\ Apart'
<1> DEFINE job == [kind |-> kind, asset |-> a, pc |-> "read", bytes |-> bytes, found |-> found]
<1>1. job \in Work /\ job # Idle
  BY DEF Work, Idle
<1>2. work[h] = Idle /\ work' = [work EXCEPT ![h] = job] /\ overlap[a] < 2
  BY DEF Begin, WithinBound
<1>3. work'[h] = job /\ \A g \in Handlers \ {h} : work'[g] = work[g]
  BY <1>2 DEF TypeOK
<1>4. work' \in [Handlers -> {Idle} \cup Work]
  BY <1>1, <1>2 DEF TypeOK
<1>5. overlap' = [overlap EXCEPT ![a] = Overlaps(h, a, kind)]
  BY DEF Begin
<1>6. Overlaps(h, a, kind) \in {overlap[a], 1, 2}
  BY DEF Overlaps
<1>7. ASSUME NEW g \in Handlers, g # h, On(g, a)
      PROVE  /\ Overlaps(h, a, kind) > 0
             /\ Overlaps(h, a, kind) = 1 => work[g].kind = "upload" /\ kind = "upload"
  <2>1. work[g].kind \in Others(h, a)
    BY <1>7 DEF Others, On
  <2> QED
    BY <2>1 DEF Overlaps
<1>8. (\A g \in Handlers : ~On(g, a)) => Overlaps(h, a, kind) = overlap[a]
  BY DEF Overlaps, Others, On
<1>9. overlap[a] <= Overlaps(h, a, kind)
  <2>1. overlap[a] \in {0, 1}
    BY <1>2 DEF TypeOK
  <2> QED
    BY <1>6, <2>1
<1>10. /\ overlap' \in [Assets -> 0..2] /\ overlap'[a] = Overlaps(h, a, kind)
       /\ \A b \in Assets \ {a} : overlap'[b] = overlap[b]
  BY <1>5, <1>6 DEF TypeOK
<1>11. Apart'
  <2> SUFFICES ASSUME NEW f \in Handlers, NEW g \in Handlers, f # g,
                      work'[f] # Idle, work'[g] # Idle, work'[f].asset = work'[g].asset
               PROVE  /\ overlap'[work'[f].asset] > 0
                      /\ overlap'[work'[f].asset] = 1 =>
                           work'[f].kind = "upload" /\ work'[g].kind = "upload"
    BY DEF Apart, On
  <2>1. work'[h].asset = a /\ work'[h].kind = kind
    BY <1>3
  <2>2. CASE f = h
    BY <1>3, <1>7, <1>10, <2>1, <2>2 DEF On
  <2>3. CASE g = h
    BY <1>3, <1>7, <1>10, <2>1, <2>3 DEF On
  <2>4. CASE f # h /\ g # h
    <3>1. work'[f] = work[f] /\ work'[g] = work[g] /\ work[f].asset \in Assets
      BY <1>3, <2>4, WorkType
    <3>2. /\ overlap[work[f].asset] > 0
          /\ overlap[work[f].asset] = 1 => work[f].kind = "upload" /\ work[g].kind = "upload"
      BY <3>1 DEF Apart, On
    <3>3. CASE work[f].asset # a
      BY <1>10, <3>1, <3>2, <3>3
    <3>4. CASE work[f].asset = a
      BY <1>7, <1>10, <2>4, <3>1, <3>4 DEF On
    <3> QED
      BY <3>3, <3>4
  <2> QED
    BY <2>2, <2>3, <2>4
<1>12. crowded' \in BOOLEAN
  BY DEF TypeOK, Begin
<1> QED
  BY <1>1, <1>2, <1>3, <1>4, <1>8, <1>9, <1>10, <1>11, <1>12
------------------------------------------------------------------------------
(* Requests *)

\* Nobody but the request that has drawn its id works on an asset without a row.
LEMMA NobodyYet ==
  ASSUME IInv, NEW a \in Assets, NEW h \in Handlers, On(h, a),
         status[a] \in {"NONE", "ASKED"}
  PROVE  /\ status[a] = "ASKED" /\ work[h].kind = "request"
         /\ \A g \in Handlers \ {h} : ~On(g, a)
<1>1. \A g \in Handlers : On(g, a) => work[g].kind = "request" /\ status[a] = "ASKED"
  BY WorkType DEF IInv, On, HandlersFit, HandlerFits, RequestFits, UploadFits, FailFits,
       RemoveFits
<1>2. overlap[a] = 0
  BY DEF IInv, RowsFit
<1>3. \A g \in Handlers \ {h} : ~On(g, a)
  BY <1>2 DEF IInv, Apart, On
<1> QED
  BY <1>1, <1>3

\* Drawing an id leaves every charge as it was: the asset has none yet.
LEMMA RequestBeginIInv ==
  ASSUME IInv, NEW h \in Handlers, NEW a \in Assets, RequestBegin(h, a) PROVE IInv'
<1> USE DEF IInv, RequestBegin
<1>1. status[a] = "NONE" /\ reservedFor[a] = 0 /\ usage \in Statuses \cup Usages
  BY DEF TypeOK, RowsFit, usage, Usages
<1>2. \A g \in Handlers : ~On(g, a)
  BY <1>1, NobodyYet
<1>3. /\ work' \in [Handlers -> {Idle} \cup Work]
      /\ \A g \in Handlers \ {h} : work'[g] = work[g]
      /\ work'[h] # Idle /\ work'[h].pc = "read"
      /\ work'[h].kind = "request" /\ work'[h].asset = a
      /\ overlap' \in [Assets -> 0..2] /\ crowded' \in BOOLEAN
      /\ \A b \in Assets \ {a} : overlap'[b] = overlap[b]
      /\ overlap'[a] = overlap[a]
      /\ Apart'
  BY <1>1, <1>2, BeginWork
<1>4. /\ status' \in [Assets -> Statuses] /\ status'[a] = "ASKED"
      /\ \A b \in Assets \ {a} : status'[b] = status[b]
  BY DEF TypeOK, Statuses
<1>5. TypeOK'
  BY <1>3, <1>4 DEF TypeOK, usage
<1>6. RowsFit'
  BY <1>1, <1>3, <1>4 DEF RowsFit, usage, ActiveStatuses
<1>7. ChargesCover' /\ ChargesExact' /\ FreedIsGone'
  BY <1>1, <1>3, <1>4 DEF ChargesCover, Covered, ChargesExact, FreedIsGone, Stored, usage
<1>8. HandlersFit'
  BY <1>1, <1>2, <1>3, <1>4, WorkType, BusyIsWork
  DEF HandlersFit, HandlerFits, On, UploadFits, RequestFits, FailFits, RemoveFits, usage
<1> QED
  BY <1>3, <1>5, <1>6, <1>7, <1>8

\* A reservation is charged before its row exists.
LEMMA RequestReserveIInv ==
  ASSUME IInv, NEW h \in Handlers, RequestReserve(h) PROVE IInv'
<1> DEFINE a == work[h].asset
<1> USE DEF IInv, RequestReserve
<1>1. work[h].kind = "request" /\ work[h].pc = "read" /\ work[h] # Idle
  BY BusyIsWork DEF Busy
<1>2. a \in Assets /\ status[a] = "ASKED" /\ On(h, a) /\ reservedFor[a] = 0
  BY <1>1, WorkType DEF HandlersFit, HandlerFits, RequestFits, On
<1>3. \A g \in Handlers \ {h} : ~On(g, a)
  BY <1>2, NobodyYet
<1>4. /\ work' \in [Handlers -> {Idle} \cup Work]
      /\ \A g \in Handlers \ {h} : work'[g] = work[g]
      /\ work'[h] # Idle /\ work'[h].pc = "reserved"
      /\ work'[h].kind = work[h].kind /\ work'[h].asset = a
  BY <1>1, GotoWork
<1>5. /\ reservedFor' \in [Assets -> Int] /\ reservedFor'[a] = reservedFor[a] + Reservation
      /\ \A b \in Assets \ {a} : reservedFor'[b] = reservedFor[b]
  BY <1>2, ReservationAssumption DEF TypeOK
<1>6. TypeOK'
  BY <1>4, <1>5 DEF TypeOK, Goto, row, history
<1>7. Apart'
  BY <1>1, <1>4, ApartKept DEF Goto, history
<1>8. RowsFit'
  BY <1>2, <1>5, ReservationAssumption DEF TypeOK, RowsFit, Goto, row, history
<1>9. ChargesCover' /\ ChargesExact' /\ FreedIsGone'
  BY <1>2, <1>5, ReservationAssumption
  DEF TypeOK, ChargesCover, Covered, ChargesExact, FreedIsGone, Stored, Goto, row, history
<1>10. RequestFits(h, a)'
  BY <1>2, <1>4, <1>5, ReservationAssumption DEF RowsFit, TypeOK, RequestFits, row
<1>11. HandlersFit'
  BY <1>1, <1>3, <1>4, <1>5, <1>10, BusyIsWork
  DEF HandlersFit, HandlerFits, On, UploadFits, RequestFits, FailFits, RemoveFits, Goto,
      row, history
<1> QED
  BY <1>6, <1>7, <1>8, <1>9, <1>11

\* The new row takes over the reservation charged for it, and nobody else
\* works on it.
LEMMA RequestCreateIInv ==
  ASSUME IInv, NEW h \in Handlers, RequestCreate(h) PROVE IInv'
<1> DEFINE a == work[h].asset
<1> USE DEF IInv, RequestCreate
<1>1. work[h].kind = "request" /\ work[h].pc = "reserved" /\ work[h] # Idle
  BY BusyIsWork DEF Busy
<1>2. a \in Assets /\ status[a] = "ASKED" /\ On(h, a) /\ reservedFor[a] = Reservation
  BY <1>1, WorkType DEF HandlersFit, HandlerFits, RequestFits, On
<1>3. \A g \in Handlers \ {h} : ~On(g, a)
  BY <1>2, NobodyYet
<1>4. /\ work' \in [Handlers -> {Idle} \cup Work] /\ work'[h] = Idle
      /\ \A g \in Handlers \ {h} : work'[g] = work[g]
  BY FinishWork
<1>5. /\ status' \in [Assets -> Statuses] /\ reserved' \in [Assets -> {0, Reservation}]
      /\ status'[a] = "PENDING" /\ reserved'[a] = Reservation
      /\ \A b \in Assets \ {a} : status'[b] = status[b] /\ reserved'[b] = reserved[b]
  BY <1>2 DEF TypeOK, Statuses, RowStatuses, ActiveStatuses
<1>6. TypeOK'
  BY <1>4, <1>5 DEF TypeOK, Finish, usage, history
<1>7. Apart'
  BY <1>4, ApartKept DEF Finish, history
<1>8. RowsFit'
  BY <1>2, <1>5 DEF TypeOK, RowsFit, Finish, usage, history, ActiveStatuses
<1>9. ChargesCover' /\ FreedIsGone'
  BY <1>2, <1>5 DEF TypeOK, RowsFit, ChargesCover, Covered, FreedIsGone, Stored, Finish,
     usage, history
<1>10. ChargesExact'
  BY <1>2, <1>5 DEF TypeOK, RowsFit, ChargesExact, Stored, Finish, usage, history
<1>11. HandlersFit'
  BY <1>2, <1>3, <1>4, <1>5, WorkType
  DEF HandlersFit, HandlerFits, On, UploadFits, RequestFits, FailFits, RemoveFits,
      Finish, usage, history, Idle
<1> QED
  BY <1>6, <1>7, <1>8, <1>9, <1>10, <1>11

\* What is given back is what this request has reserved and no row holds.
LEMMA RequestReleaseIInv ==
  ASSUME IInv, NEW h \in Handlers, RequestRelease(h) PROVE IInv'
<1> DEFINE a == work[h].asset
<1> USE DEF IInv, RequestRelease
<1>1. work[h].kind = "request" /\ work[h].pc = "reserved" /\ work[h] # Idle
  BY BusyIsWork DEF Busy
<1>2. a \in Assets /\ status[a] = "ASKED" /\ On(h, a) /\ reservedFor[a] = Reservation
  BY <1>1, WorkType DEF HandlersFit, HandlerFits, RequestFits, On
<1>3. \A g \in Handlers \ {h} : ~On(g, a)
  BY <1>2, NobodyYet
<1>4. /\ work' \in [Handlers -> {Idle} \cup Work] /\ work'[h] = Idle
      /\ \A g \in Handlers \ {h} : work'[g] = work[g]
  BY FinishWork
<1>5. /\ reservedFor' \in [Assets -> Int] /\ reservedFor'[a] >= 0
      /\ \A b \in Assets \ {a} : reservedFor'[b] = reservedFor[b]
  BY <1>2, ReservationAssumption DEF TypeOK
<1>6. TypeOK'
  BY <1>4, <1>5 DEF TypeOK, Finish, row, history
<1>7. Apart'
  BY <1>4, ApartKept DEF Finish, history
<1>8. RowsFit'
  BY <1>2, <1>5 DEF RowsFit, Finish, row, history
<1>9. ChargesCover' /\ ChargesExact' /\ FreedIsGone'
  BY <1>2, <1>5 DEF RowsFit, ChargesCover, Covered, ChargesExact, FreedIsGone, Stored,
     Finish, row, history
<1>10. HandlersFit'
  BY <1>2, <1>3, <1>4, <1>5, WorkType
  DEF HandlersFit, HandlerFits, On, UploadFits, RequestFits, FailFits, RemoveFits,
      Finish, row, history, Idle
<1> QED
  BY <1>6, <1>7, <1>8, <1>9, <1>10
------------------------------------------------------------------------------
(* Beginning to work on a row that is there, and giving up *)

\* A handler that begins and changes nothing but its own work fits, if it does,
\* next to those there are.
LEMMA BeginIInv ==
  ASSUME IInv, NEW h \in Handlers, NEW a \in Assets, NEW found \in Statuses,
         NEW kind \in {"upload", "fail", "remove"}, NEW bytes \in Int,
         Begin(h, kind, a, bytes, found), UNCHANGED <<row, usage, objects>>,
         status[a] \notin {"NONE", "ASKED"},
         kind = "upload" => UploadFits(h, a)',
         kind = "fail" => FailFits(h, a)',
         kind = "remove" => RemoveFits(h, a)'
  PROVE  IInv'
<1> USE DEF IInv, row, usage
<1>1. /\ work' \in [Handlers -> {Idle} \cup Work]
      /\ \A g \in Handlers \ {h} : work'[g] = work[g]
      /\ work'[h].kind = kind /\ work'[h].asset = a
      /\ overlap' \in [Assets -> 0..2] /\ crowded' \in BOOLEAN
      /\ \A b \in Assets \ {a} : overlap'[b] = overlap[b]
      /\ overlap[a] <= overlap'[a]
      /\ Apart'
  BY BeginWork
<1>2. \A b \in Assets : overlap[b] <= overlap'[b] /\ overlap[b] \in Nat /\ overlap'[b] \in Nat
  BY <1>1 DEF TypeOK
<1>3. TypeOK'
  BY <1>1 DEF TypeOK
<1>4. RowsFit'
  BY <1>1, <1>2 DEF RowsFit
<1>5. ChargesCover' /\ ChargesExact' /\ FreedIsGone'
  BY <1>2 DEF ChargesCover, Covered, ChargesExact, FreedIsGone, Stored
<1>6. HandlersFit'
  BY <1>1, <1>2, WorkType, BusyIsWork
  DEF HandlersFit, HandlerFits, UploadFits, RequestFits, FailFits, RemoveFits
<1> QED
  BY <1>1, <1>3, <1>4, <1>5, <1>6

\* A handler that dies leaves the rows and charges as its last step left them.
LEMMA DieIInv == ASSUME IInv, NEW h \in Handlers, Die(h) PROVE IInv'
<1> USE DEF IInv, Die, Finish, row, usage, history
<1>1. /\ work' \in [Handlers -> {Idle} \cup Work] /\ work'[h] = Idle
      /\ \A g \in Handlers \ {h} : work'[g] = work[g]
  BY FinishWork
<1>2. TypeOK' /\ Apart'
  BY <1>1, ApartKept DEF TypeOK
<1>3. RowsFit' /\ ChargesCover' /\ ChargesExact' /\ FreedIsGone'
  BY DEF RowsFit, ChargesCover, Covered, ChargesExact, FreedIsGone, Stored
<1>4. HandlersFit'
  BY <1>1 DEF HandlersFit, HandlerFits, UploadFits, RequestFits, FailFits, RemoveFits, Idle
<1> QED
  BY <1>2, <1>3, <1>4
\* What another handler of the same asset knows of it, as far as it can rely on
\* it: nothing that h may disturb.
LEMMA Companion ==
  ASSUME IInv, NEW h \in Handlers, work[h] # Idle,
         NEW g \in Handlers \ {h}, work[g] # Idle, work[g].asset = work[h].asset
  PROVE  /\ overlap[work[h].asset] # 0
         /\ overlap[work[h].asset] <= 1 => work[g].kind = "upload" /\ work[h].kind = "upload"
<1>1. overlap[work[h].asset] \in 0..2
  BY WorkType DEF IInv, TypeOK
<1>2. /\ overlap[work[h].asset] > 0
      /\ overlap[work[h].asset] = 1 => work[g].kind = "upload" /\ work[h].kind = "upload"
  BY DEF IInv, Apart, On
<1> QED
  BY <1>1, <1>2
\* What a handler other than an upload does to its row is of no concern to the
\* others.
LEMMA OthersFit ==
  ASSUME IInv, NEW h \in Handlers, work[h] # Idle, work[h].kind # "upload",
         NEW a \in Assets, a = work[h].asset,
         status[a] \notin {"NONE", "ASKED"}, status'[a] \notin {"NONE", "ASKED"},
         UNCHANGED overlap,
         \A b \in Assets \ {a} :
           /\ status'[b] = status[b] /\ size'[b] = size[b] /\ reserved'[b] = reserved[b]
           /\ reservedFor'[b] = reservedFor[b] /\ (b \in objects' => b \in objects),
         NEW g \in Handlers \ {h}, work'[g] = work[g]
  PROVE  HandlerFits(g)'
<1> USE DEF IInv
<1>1. CASE work[g] = Idle
  BY <1>1 DEF HandlerFits, Idle
<1>2. CASE work[g] # Idle /\ work[g].asset # a
  <2>1. work[g].asset \in Assets \ {a}
    BY <1>2, WorkType
  <2> QED
    BY <2>1 DEF HandlersFit, HandlerFits, RequestFits, UploadFits, FailFits, RemoveFits
<1>3. CASE work[g] # Idle /\ work[g].asset = a
  <2>1. ~(overlap[a] <= 1) /\ overlap[a] # 0
    BY <1>3, Companion
  <2> QED
    BY <1>3, <2>1 DEF HandlersFit, HandlerFits, RequestFits, UploadFits, FailFits,
         RemoveFits
<1> QED
  BY <1>1, <1>2, <1>3
------------------------------------------------------------------------------
(* Uploads *)

\* Marking UPLOADING disturbs only other handlers of the same asset.
LEMMA UploadMarkIInv ==
  ASSUME IInv, NEW h \in Handlers, UploadMark(h) PROVE IInv'
<1> DEFINE a == work[h].asset
<1> USE DEF IInv, UploadMark
<1>1. work[h].kind = "upload" /\ work[h] # Idle
  BY BusyIsWork DEF Busy
<1>2. a \in Assets /\ UploadFits(h, a)
  BY <1>1, WorkType DEF HandlersFit, HandlerFits
<1>3. /\ work' \in [Handlers -> {Idle} \cup Work]
      /\ \A g \in Handlers \ {h} : work'[g] = work[g]
      /\ work'[h] # Idle
      /\ work'[h].kind = work[h].kind /\ work'[h].asset = a
      /\ work'[h].bytes = work[h].bytes /\ work'[h].found = work[h].found
  BY <1>1, GotoWork
<1>4. /\ status' \in [Assets -> Statuses]
      /\ status'[a] = "UPLOADING" /\ \A b \in Assets \ {a} : status'[b] = status[b]
  BY <1>2 DEF TypeOK, Statuses, RowStatuses, ActiveStatuses
<1>5. TypeOK'
  BY <1>3, <1>4 DEF TypeOK, Goto, usage, history
<1>6. Apart'
  BY <1>1, <1>3, ApartKept DEF Goto, history
<1>7. RowsFit'
  BY <1>2, <1>4 DEF RowsFit, UploadFits, Goto, history, usage, ActiveStatuses
<1>8. ChargesCover' /\ ChargesExact' /\ FreedIsGone'
  BY <1>2, <1>4 DEF ChargesCover, Covered, ChargesExact, FreedIsGone, Stored, UploadFits,
       ActiveStatuses,
     Goto, usage, history
<1>9. HandlersFit'
  BY <1>1, <1>2, <1>3, <1>4 DEF HandlersFit, HandlerFits, Apart, On, UploadFits,
       RequestFits, FailFits, RemoveFits, Goto, usage, history, ActiveStatuses, RowStatuses
<1> QED
  BY <1>5, <1>6, <1>7, <1>8, <1>9

\* An upload is authorized for no more than what is reserved.
LEMMA UploadBeginIInv ==
  ASSUME IInv, NEW h \in Handlers, NEW a \in Assets, NEW bytes \in 1..(Reservation + 1),
         UploadBegin(h, a, bytes)
  PROVE  IInv'
<1> USE DEF IInv, UploadBegin
<1>1. /\ status[a] \in ActiveStatuses /\ status[a] \in Statuses
      /\ bytes \in 1..Reservation /\ bytes \in Int
  BY ReservationAssumption DEF TypeOK, Authorized
<1>2. work'[h].bytes = bytes
  BY <1>1, BeginWork
<1>3. UploadFits(h, a)'
  BY <1>1, <1>2 DEF UploadFits, row, ActiveStatuses
<1> QED
  BY <1>1, <1>3, BeginIInv DEF ActiveStatuses

\* The object appears for a row that still holds its reservation or is counted
\* as overlapped.
LEMMA UploadPutIInv ==
  ASSUME IInv, NEW h \in Handlers, UploadPut(h) PROVE IInv'
<1> DEFINE a == work[h].asset
<1> USE DEF IInv, UploadPut
<1>1. work[h].kind = "upload" /\ work[h] # Idle
  BY BusyIsWork DEF Busy
<1>2. a \in Assets /\ UploadFits(h, a) /\ On(h, a)
  BY <1>1, WorkType DEF HandlersFit, HandlerFits, On
<1>3. /\ work' \in [Handlers -> {Idle} \cup Work]
      /\ \A g \in Handlers \ {h} : work'[g] = work[g]
      /\ work'[h] # Idle
      /\ work'[h].kind = work[h].kind /\ work'[h].asset = a
      /\ work'[h].bytes = work[h].bytes
  BY <1>1, GotoWork
<1>4. TypeOK'
  BY <1>2, <1>3 DEF TypeOK, Goto, row, usage, history
<1>5. Apart'
  BY <1>1, <1>3, ApartKept DEF Goto, history
<1>6. RowsFit' /\ ChargesCover' /\ ChargesExact'
  BY DEF RowsFit, ChargesCover, Covered, ChargesExact, Stored, Goto, row, usage, history
<1>7. FreedIsGone'
  BY <1>2 DEF FreedIsGone, UploadFits, ActiveStatuses, Goto, row, history
<1>8. \A g \in Handlers : g # h /\ work[g].kind = "remove" =>
         work[g].asset # a \/ overlap[a] # 0
  BY <1>1, BusyIsWork, Companion
<1>9. HandlersFit'
  BY <1>1, <1>2, <1>3, <1>8
  DEF HandlersFit, HandlerFits, UploadFits, RequestFits, FailFits, RemoveFits, Goto, row,
      usage, history
<1> QED
  BY <1>4, <1>5, <1>6, <1>7, <1>9

\* The transaction exchanges the reservation the row has now for the bytes of
\* this upload; a second one finds nothing reserved, so it only adds.
LEMMA UploadCommitIInv ==
  ASSUME IInv, NEW h \in Handlers, UploadCommit(h) PROVE IInv'
<1> DEFINE a == work[h].asset
<1> USE DEF IInv
<1>1. Busy(h, "upload", "put") /\ Finish(h) /\ UNCHANGED objects
  BY DEF UploadCommit
<1>2. work[h].kind = "upload" /\ work[h] # Idle
  BY <1>1, BusyIsWork DEF Busy
<1>3. a \in Assets /\ UploadFits(h, a) /\ On(h, a)
  BY <1>2, WorkType DEF HandlersFit, HandlerFits, On
<1>4. CASE UNCHANGED <<row, usage>>
  <2>1. Die(h)
    BY <1>1, <1>2, <1>4 DEF Die
  <2> QED
    BY <2>1, DieIInv
<1>5. CASE status[a] # "AVAILABLE" /\ Exchange(a, work[h].bytes)
  <2> DEFINE n == work[h].bytes
  <2>1. /\ work' \in [Handlers -> {Idle} \cup Work] /\ work'[h] = Idle
        /\ \A g \in Handlers \ {h} : work'[g] = work[g]
    BY <1>1, FinishWork
  <2>2. /\ n \in 1..Reservation /\ usedFor[a] \in Int /\ reservedFor[a] \in Int
        /\ reserved[a] \in Int
    BY <1>3, ReservationAssumption DEF UploadFits, TypeOK
  <2>3. /\ status' = [status EXCEPT ![a] = "AVAILABLE"] /\ size' = [size EXCEPT ![a] = n]
        /\ reserved' = [reserved EXCEPT ![a] = 0]
        /\ usedFor' = [usedFor EXCEPT ![a] = usedFor[a] + n]
        /\ reservedFor' = [reservedFor EXCEPT ![a] = reservedFor[a] - reserved[a]]
    BY <1>5 DEF Exchange
  <2>4. /\ status'[a] = "AVAILABLE" /\ size'[a] = n /\ reserved'[a] = 0
        /\ usedFor'[a] = usedFor[a] + n /\ reservedFor'[a] = reservedFor[a] - reserved[a]
        /\ \A b \in Assets \ {a} :
             /\ status'[b] = status[b] /\ size'[b] = size[b] /\ reserved'[b] = reserved[b]
             /\ usedFor'[b] = usedFor[b] /\ reservedFor'[b] = reservedFor[b]
    BY <1>3, <2>3 DEF TypeOK
  <2>5. TypeOK'
    BY <1>1, <1>3, <2>1, <2>2, <2>3
    DEF TypeOK, Finish, history, Statuses, RowStatuses
  <2>6. Apart'
    BY <1>1, <2>1, ApartKept DEF Finish, history
  <2>7. RowsFit'
    BY <1>1, <1>3, <2>4 DEF RowsFit, ActiveStatuses, Finish, history
  <2>8. ChargesCover'
    BY <1>1, <1>3, <2>2, <2>4 DEF ChargesCover, Covered, Stored, Finish, history, TypeOK
  <2>9. ChargesExact'
    BY <1>1, <1>3, <1>5, <2>2, <2>4
    DEF ChargesExact, Stored, RowsFit, UploadFits, ActiveStatuses, Finish, history
  <2>10. FreedIsGone'
    BY <1>1, <1>3, <2>4 DEF FreedIsGone, Finish, history
  <2>11. ASSUME NEW g \in Handlers, g # h, work[g] # Idle
         PROVE  /\ work[g].asset \in Assets /\ work'[g] = work[g]
                /\ work[g].asset = a =>
                     /\ overlap[a] # 0 /\ (overlap[a] <= 1 => work[g].kind = "upload")
                     /\ status[a] \notin {"NONE", "ASKED"}
    BY <1>2, <1>3, <2>1, <2>11, WorkType, Companion DEF UploadFits
  <2>12. HandlersFit'
    <3> SUFFICES ASSUME NEW g \in Handlers, g # h, work[g] # Idle PROVE HandlerFits(g)'
      BY <2>1, <2>11, BusyIsWork DEF HandlersFit, HandlerFits, Idle
    <3>1. CASE work[g].asset = a
      BY <1>1, <2>4, <2>11, <3>1
      DEF HandlersFit, HandlerFits, RequestFits, UploadFits, FailFits, RemoveFits,
          ActiveStatuses,
          Finish, history
    <3>2. CASE work[g].asset # a
      BY <1>1, <2>4, <2>11, <3>2
      DEF HandlersFit, HandlerFits, RequestFits, UploadFits, FailFits, RemoveFits,
          Finish, history
    <3> QED
      BY <3>1, <3>2
  <2> QED
    BY <2>5, <2>6, <2>7, <2>8, <2>9, <2>10, <2>12
<1> QED
  BY <1>4, <1>5 DEF UploadCommit
------------------------------------------------------------------------------
(* Failures *)

\* A failure notes the reservation it is going to give back.
LEMMA FailBeginIInv ==
  ASSUME IInv, NEW h \in Handlers, NEW a \in Assets, FailBegin(h, a) PROVE IInv'
<1> USE DEF IInv, FailBegin
<1>1. /\ status[a] \in Statuses \ {"NONE", "ASKED", "DELETED"}
      /\ reserved[a] \in Int
  BY ReservationAssumption DEF TypeOK, RowsFit, ActiveStatuses
<1>2. work'[h].bytes = reserved[a]
  BY <1>1, BeginWork
<1>3. FailFits(h, a)'
  BY <1>1, <1>2 DEF FailFits, row
<1> QED
  BY <1>1, <1>3, BeginIInv

\* Undisturbed, the reservation noted is still the one the row has.
LEMMA FailCommitIInv ==
  ASSUME IInv, NEW h \in Handlers, FailCommit(h) PROVE IInv'
<1> DEFINE a == work[h].asset
<1> USE DEF IInv, FailCommit
<1>1. work[h].kind = "fail" /\ work[h] # Idle
  BY BusyIsWork DEF Busy
<1>2. a \in Assets /\ FailFits(h, a) /\ On(h, a) /\ work[h].bytes \in Int
  BY <1>1, WorkType DEF HandlersFit, HandlerFits, On
<1>3. /\ work' \in [Handlers -> {Idle} \cup Work] /\ work'[h] = Idle
      /\ \A g \in Handlers \ {h} : work'[g] = work[g]
  BY FinishWork
<1>4. /\ status' \in [Assets -> Statuses] /\ reserved' \in [Assets -> {0, Reservation}]
      /\ reservedFor' \in [Assets -> Int]
      /\ status'[a] = "FAILED" /\ reserved'[a] = 0
      /\ reservedFor'[a] = reservedFor[a] - work[h].bytes
      /\ \A b \in Assets \ {a} :
           /\ status'[b] = status[b] /\ reserved'[b] = reserved[b]
           /\ reservedFor'[b] = reservedFor[b]
  BY <1>2 DEF TypeOK, Statuses, RowStatuses
<1>5. /\ reserved[a] \in Int /\ reservedFor[a] \in Int
  BY <1>2, ReservationAssumption DEF TypeOK
<1>6. TypeOK'
  BY <1>3, <1>4 DEF TypeOK, Finish, history
<1>7. Apart'
  BY <1>3, ApartKept DEF Finish, history
<1>8. RowsFit'
  BY <1>2, <1>4 DEF RowsFit, Finish, history, ActiveStatuses
<1>9. ChargesCover' /\ FreedIsGone'
  BY <1>2, <1>4, <1>5
  DEF ChargesCover, Covered, FreedIsGone, Stored, FailFits, Finish, history
<1>10. ChargesExact'
  <2>1. overlap[a] = 0 => overlap[a] <= 1
    OBVIOUS
  <2> QED
    BY <1>2, <1>4, <1>5, <2>1 DEF ChargesExact, Stored, FailFits, Finish, history
<1>11. HandlersFit'
  <2>1. \A g \in Handlers \ {h} : HandlerFits(g)'
    BY <1>1, <1>2, <1>3, <1>4, OthersFit DEF FailFits, Finish, history
  <2> QED
    BY <1>3, <2>1 DEF HandlersFit, HandlerFits, Idle
<1> QED
  BY <1>6, <1>7, <1>8, <1>9, <1>10, <1>11
------------------------------------------------------------------------------
(* Removals *)

\* A removal notes the size and the status it has found.
LEMMA RemoveBeginIInv ==
  ASSUME IInv, NEW h \in Handlers, NEW a \in Assets, RemoveBegin(h, a) PROVE IInv'
<1> USE DEF IInv, RemoveBegin
<1>1. /\ status[a] \in RowStatuses \ {"DELETED"} /\ size[a] \in Int
      /\ overlap[a] = 0 => status[a] \notin ActiveStatuses
  BY ReservationAssumption DEF TypeOK, RowsFit
<1>2. status[a] \in Statuses \ {"NONE", "ASKED", "DELETED"}
  BY <1>1 DEF Statuses, RowStatuses, ActiveStatuses
<1>3. /\ work'[h].bytes = size[a] /\ work'[h].found = status[a] /\ work'[h].pc = "read"
      /\ overlap[a] <= overlap'[a] /\ overlap[a] \in Nat /\ overlap'[a] \in Nat
  BY <1>1, <1>2, BeginWork DEF TypeOK
<1>4. RemoveFits(h, a)'
  BY <1>1, <1>2, <1>3 DEF RemoveFits, row
<1> QED
  BY <1>1, <1>2, <1>4, BeginIInv

\* Marking DELETING disturbs only other handlers of the same asset.
LEMMA RemoveMarkIInv ==
  ASSUME IInv, NEW h \in Handlers, RemoveMark(h) PROVE IInv'
<1> DEFINE a == work[h].asset
<1> USE DEF IInv, RemoveMark
<1>1. work[h].kind = "remove" /\ work[h] # Idle
  BY BusyIsWork DEF Busy
<1>2. a \in Assets /\ RemoveFits(h, a)
  BY <1>1, WorkType DEF HandlersFit, HandlerFits
<1>3. /\ work' \in [Handlers -> {Idle} \cup Work]
      /\ \A g \in Handlers \ {h} : work'[g] = work[g]
      /\ work'[h] # Idle /\ work'[h].pc = "marked"
      /\ work'[h].kind = work[h].kind /\ work'[h].asset = a
      /\ work'[h].bytes = work[h].bytes /\ work'[h].found = work[h].found
  BY <1>1, GotoWork
<1>4. /\ status' \in [Assets -> Statuses]
      /\ status'[a] = "DELETING" /\ \A b \in Assets \ {a} : status'[b] = status[b]
  BY <1>2 DEF TypeOK, Statuses, RowStatuses
<1>5. TypeOK'
  BY <1>3, <1>4 DEF TypeOK, Goto, usage, history
<1>6. Apart'
  BY <1>1, <1>3, ApartKept DEF Goto, history
<1>7. RowsFit'
  BY <1>2, <1>4 DEF RowsFit, ActiveStatuses, Goto, usage, history
<1>8. ChargesCover' /\ ChargesExact' /\ FreedIsGone'
  <2>1. overlap[a] = 0 => overlap[a] <= 1
    OBVIOUS
  <2> QED
    BY <1>2, <1>4, <2>1
    DEF ChargesCover, Covered, ChargesExact, FreedIsGone, Stored, RemoveFits, Goto, usage,
        history
<1>9. HandlersFit'
  <2>1. \A g \in Handlers \ {h} : HandlerFits(g)'
    BY <1>1, <1>2, <1>3, <1>4, OthersFit DEF RemoveFits, Goto, usage, history
  <2>2. HandlerFits(h)'
    BY <1>1, <1>2, <1>3, <1>4 DEF HandlerFits, RemoveFits, Goto, history
  <2> QED
    BY <2>1, <2>2 DEF HandlersFit
<1> QED
  BY <1>5, <1>6, <1>7, <1>8, <1>9

\* Undisturbed, the object of a file that has a size is gone afterwards.
LEMMA RemoveObjectIInv ==
  ASSUME IInv, NEW h \in Handlers, RemoveObject(h) PROVE IInv'
<1> DEFINE a == work[h].asset
<1> USE DEF IInv, RemoveObject
<1>1. work[h].kind = "remove" /\ work[h] # Idle
  BY BusyIsWork DEF Busy
<1>2. a \in Assets /\ RemoveFits(h, a)
  BY <1>1, WorkType DEF HandlersFit, HandlerFits
<1>3. /\ work' \in [Handlers -> {Idle} \cup Work]
      /\ \A g \in Handlers \ {h} : work'[g] = work[g]
      /\ work'[h] # Idle /\ work'[h].pc = "cleared"
      /\ work'[h].kind = work[h].kind /\ work'[h].asset = a
      /\ work'[h].bytes = work[h].bytes /\ work'[h].found = work[h].found
  BY <1>1, GotoWork
<1>4. /\ objects' \subseteq objects
      /\ work[h].bytes > 0 => a \notin objects'
  OBVIOUS
<1>5. TypeOK'
  BY <1>3, <1>4 DEF TypeOK, Goto, row, usage, history
<1>6. Apart'
  BY <1>1, <1>3, ApartKept DEF Goto, history
<1>7. RowsFit' /\ ChargesCover' /\ ChargesExact'
  BY DEF RowsFit, ChargesCover, Covered, ChargesExact, Stored, Goto, row, usage, history
<1>8. FreedIsGone'
  BY <1>4 DEF FreedIsGone, Goto, row, history
<1>9. HandlersFit'
  <2>1. \A g \in Handlers \ {h} : HandlerFits(g)'
    BY <1>1, <1>2, <1>3, <1>4, OthersFit DEF RemoveFits, Goto, row, usage, history
  <2>2. overlap[a] = 0 => overlap[a] <= 1
    OBVIOUS
  <2>3. HandlerFits(h)'
    BY <1>1, <1>2, <1>3, <1>4, <2>2 DEF HandlerFits, RemoveFits, Goto, row, history
  <2> QED
    BY <2>1, <2>3 DEF HandlersFit
<1> QED
  BY <1>5, <1>6, <1>7, <1>8, <1>9

\* Undisturbed, the status that is restored is the one the charges fit.
LEMMA RemoveRestoreIInv ==
  ASSUME IInv, NEW h \in Handlers, RemoveRestore(h) PROVE IInv'
<1> DEFINE a == work[h].asset
<1> USE DEF IInv, RemoveRestore
<1>1. work[h].kind = "remove" /\ work[h] # Idle
  BY BusyIsWork DEF Busy
<1>2. a \in Assets /\ RemoveFits(h, a)
  BY <1>1, WorkType DEF HandlersFit, HandlerFits
<1>3. /\ work' \in [Handlers -> {Idle} \cup Work] /\ work'[h] = Idle
      /\ \A g \in Handlers \ {h} : work'[g] = work[g]
  BY FinishWork
<1>4. /\ status' \in [Assets -> Statuses]
      /\ status'[a] \in RowStatuses \ {"DELETED"}
      /\ overlap[a] = 0 => status'[a] \notin ActiveStatuses
      /\ \A b \in Assets \ {a} : status'[b] = status[b]
  BY <1>2 DEF TypeOK, Statuses, RemoveFits
<1>5. objects' \subseteq objects /\ status'[a] \notin {"NONE", "ASKED", "DELETED"}
  BY <1>4 DEF RowStatuses, ActiveStatuses
<1>6. TypeOK'
  BY <1>3, <1>4, <1>5 DEF TypeOK, Finish, usage, history
<1>7. Apart'
  BY <1>3, ApartKept DEF Finish, history
<1>8. RowsFit'
  BY <1>2, <1>4, <1>5 DEF RowsFit, Finish, usage, history
<1>9. ChargesCover' /\ ChargesExact' /\ FreedIsGone'
  <2>1. overlap[a] = 0 => overlap[a] <= 1
    OBVIOUS
  <2> QED
    BY <1>2, <1>4, <1>5, <2>1
    DEF ChargesCover, Covered, ChargesExact, FreedIsGone, Stored, RemoveFits, Finish, usage,
        history
<1>10. HandlersFit'
  <2>1. \A g \in Handlers \ {h} : HandlerFits(g)'
    BY <1>1, <1>2, <1>3, <1>4, <1>5, OthersFit DEF RemoveFits, Finish, usage, history
  <2> QED
    BY <1>3, <2>1 DEF HandlersFit, HandlerFits, Idle
<1> QED
  BY <1>6, <1>7, <1>8, <1>9, <1>10

\* The bytes given back are those the row has now.
LEMMA RemoveCommitIInv ==
  ASSUME IInv, NEW h \in Handlers, RemoveCommit(h) PROVE IInv'
<1> DEFINE a == work[h].asset
<1> USE DEF IInv
<1>1. Busy(h, "remove", "cleared") /\ Finish(h) /\ UNCHANGED objects
  BY DEF RemoveCommit
<1>2. work[h].kind = "remove" /\ work[h].pc = "cleared" /\ work[h] # Idle
  BY <1>1, BusyIsWork DEF Busy
<1>3. a \in Assets /\ RemoveFits(h, a)
  BY <1>2, WorkType DEF HandlersFit, HandlerFits
<1>4. CASE UNCHANGED <<row, usage>>
  <2>1. Die(h)
    BY <1>1, <1>2, <1>4 DEF Die
  <2> QED
    BY <2>1, DieIInv
<1>5. CASE Release(a)
  <2>1. /\ work' \in [Handlers -> {Idle} \cup Work] /\ work'[h] = Idle
        /\ \A g \in Handlers \ {h} : work'[g] = work[g]
    BY <1>1, FinishWork
  <2>2. /\ size[a] \in Nat /\ reserved[a] \in Nat
        /\ usedFor[a] \in Int /\ reservedFor[a] \in Int
    BY <1>3, ReservationAssumption DEF TypeOK
  <2>3. /\ usedFor' \in [Assets -> Int] /\ reservedFor' \in [Assets -> Int]
        /\ usedFor'[a] = usedFor[a] - size[a]
        /\ reservedFor'[a] = IF size[a] > 0 THEN reservedFor[a]
                             ELSE reservedFor[a] - reserved[a]
        /\ \A b \in Assets \ {a} :
             usedFor'[b] = usedFor[b] /\ reservedFor'[b] = reservedFor[b]
    <3>1. CASE size[a] > 0
      BY <1>3, <1>5, <2>2, <3>1 DEF Release, TypeOK
    <3>2. CASE size[a] = 0
      BY <1>3, <1>5, <2>2, <3>2 DEF Release, TypeOK
    <3> QED
      BY <2>2, <3>1, <3>2
  <2>4. /\ status' \in [Assets -> Statuses] /\ reserved' \in [Assets -> {0, Reservation}]
        /\ status'[a] = "DELETED" /\ reserved'[a] = 0
        /\ \A b \in Assets \ {a} : status'[b] = status[b] /\ reserved'[b] = reserved[b]
        /\ size' = size
    BY <1>3, <1>5 DEF Release, TypeOK, Statuses, RowStatuses
  <2>5. TypeOK'
    BY <1>1, <2>1, <2>3, <2>4 DEF TypeOK, Finish, history
  <2>6. Apart'
    BY <1>1, <2>1, ApartKept DEF Finish, history
  <2>7. RowsFit'
    BY <1>1, <1>3, <2>3, <2>4 DEF RowsFit, ActiveStatuses, Finish, history
  <2>8. overlap[a] = 0 => overlap[a] <= 1
    OBVIOUS
  <2>9. ChargesCover'
    BY <1>1, <1>3, <2>2, <2>3, <2>4
    DEF ChargesCover, Covered, Stored, RemoveFits, Finish, history
  <2>10. ChargesExact'
    BY <1>1, <1>3, <2>2, <2>3, <2>4, <2>8
    DEF ChargesExact, Stored, RowsFit, RemoveFits, Finish, history
  <2>11. FreedIsGone'
    BY <1>1, <1>2, <1>3, <2>4 DEF FreedIsGone, RemoveFits, Finish, history
  <2>12. HandlersFit'
    <3>1. \A g \in Handlers \ {h} : HandlerFits(g)'
      BY <1>1, <1>2, <1>3, <2>1, <2>3, <2>4, OthersFit DEF RemoveFits, Finish, history
    <3> QED
      BY <2>1, <3>1 DEF HandlersFit, HandlerFits, Idle
  <2> QED
    BY <2>5, <2>6, <2>7, <2>9, <2>10, <2>11, <2>12
<1> QED
  BY <1>4, <1>5 DEF RemoveCommit
------------------------------------------------------------------------------
(* Columns: the sum over all assets *)

\* A set that has 0 and, with a natural number, the next has all of them: there
\* would be a least one that it lacks.
LEMMA Induction ==
  ASSUME NEW Good, 0 \in Good, \A n \in Nat : n \in Good => n + 1 \in Good
  PROVE  Nat \subseteq Good
<1> DEFINE R == {pair \in Nat \X Nat : pair[1] < pair[2]}
           Bad == Nat \ Good
<1> SUFFICES ASSUME Bad # {} PROVE FALSE
  OBVIOUS
<1>1. \E n \in Bad : \A m \in Bad : ~ (<<m, n>> \in R)
  <2>1. IsWellFoundedOn(R, Nat)
    BY NatLessThanWellFounded DEF OpToRel
  <2>2. Bad \subseteq Nat
    OBVIOUS
  <2> HIDE DEF R, Bad
  <2> QED
    BY <2>1, <2>2, WFMin
<1>2. PICK n \in Bad : \A m \in Bad : ~ (m < n)
  BY <1>1
<1>3. n - 1 \in Nat \cap Good
  BY <1>2
<1> QED
  BY <1>2, <1>3

\* The sum over a set by the sum over the set without one of its elements.
First(s) == CHOOSE x \in s : TRUE
Part(g, f, s) == IF s = {} THEN 0 ELSE f[First(s)] + g[s \ {First(s)}]
Sums(g, f) ==
  g \in [SUBSET Assets -> Int] /\ \A s \in SUBSET Assets : g[s] = Part(g, f, s)

\* A set of assets has a size, which is 0 for none.
LEMMA Size ==
  ASSUME NEW s \in SUBSET Assets
  PROVE  /\ Cardinality(s) \in Nat /\ Cardinality(s) <= Cardinality(Assets)
         /\ Cardinality(s) = 0 <=> s = {}
<1>1. IsFiniteSet(s)
  BY AssetsAssumption, FS_Subset
<1> QED
  BY <1>1, AssetsAssumption, FS_CardinalityType, FS_EmptySet, FS_Subset

\* Removing an element makes it smaller by one.
LEMMA Smaller ==
  ASSUME NEW s \in SUBSET Assets, s # {}
  PROVE  /\ First(s) \in s /\ s \ {First(s)} \in SUBSET Assets
         /\ Cardinality(s \ {First(s)}) = Cardinality(s) - 1
<1>1. IsFiniteSet(s)
  BY AssetsAssumption, FS_Subset
<1>2. First(s) \in s
  BY DEF First
<1> QED
  BY <1>1, <1>2, FS_RemoveElement

\* What holds of a set when it holds of it without its first element holds of
\* every set of assets.
LEMMA SetInduction ==
  ASSUME NEW Good, {} \in Good,
         \A s \in SUBSET Assets : s # {} /\ s \ {First(s)} \in Good => s \in Good
  PROVE  SUBSET Assets \subseteq Good
<1> DEFINE Upto == {n \in Nat : \A s \in SUBSET Assets : Cardinality(s) <= n => s \in Good}
<1>1. 0 \in Upto
  BY Size
<1>2. ASSUME NEW n \in Nat, n \in Upto
      PROVE  n + 1 \in Upto
  <2> SUFFICES ASSUME NEW s \in SUBSET Assets, Cardinality(s) <= n + 1
               PROVE  s \in Good
    OBVIOUS
  <2>1. CASE s = {}
    BY <2>1
  <2>2. CASE s # {}
    <3>1. s \ {First(s)} \in SUBSET Assets /\ Cardinality(s \ {First(s)}) <= n
      BY <2>2, Smaller, Size
    <3>2. s \ {First(s)} \in Good
      BY <1>2, <3>1
    <3> QED
      BY <2>2, <3>2
  <2> QED
    BY <2>1, <2>2
<1>3. Nat \subseteq Upto
  <2> HIDE DEF Upto
  <2> QED
    BY <1>1, <1>2, Induction
<1> QED
  BY <1>3, Size

\* There is such a function: each round of the definition makes it right for sets
\* that are larger by one.
LEMMA SumsExist ==
  ASSUME NEW f \in [Assets -> Int]
  PROVE  \E g : Sums(g, f)
<1> DEFINE Right(g, n) == \A s \in SUBSET Assets : Cardinality(s) <= n => g[s] = Part(g, f, s)
           Upto == {n \in Nat : \E g \in [SUBSET Assets -> Int] : Right(g, n)}
<1>1. 0 \in Upto
  <2> DEFINE g == [s \in SUBSET Assets |-> 0]
  <2>1. Right(g, 0)
    <3> SUFFICES ASSUME NEW s \in SUBSET Assets, Cardinality(s) <= 0
                 PROVE  g[s] = Part(g, f, s)
      OBVIOUS
    <3>1. s = {}
      BY Size
    <3> QED
      BY <3>1 DEF Part
  <2>2. g \in [SUBSET Assets -> Int]
    OBVIOUS
  <2> HIDE DEF g, Right
  <2> QED
    BY <2>1, <2>2
<1>2. ASSUME NEW n \in Nat, n \in Upto
      PROVE  n + 1 \in Upto
  <2>1. PICK g \in [SUBSET Assets -> Int] : Right(g, n)
    BY <1>2
  <2> DEFINE k == [s \in SUBSET Assets |-> Part(g, f, s)]
  <2>2. k \in [SUBSET Assets -> Int]
    <3> SUFFICES ASSUME NEW s \in SUBSET Assets PROVE Part(g, f, s) \in Int
      OBVIOUS
    <3> QED
      BY Smaller, Size DEF Part
  <2>3. ASSUME NEW s \in SUBSET Assets, Cardinality(s) <= n + 1
        PROVE  k[s] = Part(k, f, s)
    <3>1. CASE s = {}
      BY <3>1 DEF Part
    <3>2. CASE s # {}
      <4> DEFINE t == s \ {First(s)}
      <4>1. t \in SUBSET Assets /\ Cardinality(t) <= n
        BY <2>3, <3>2, Smaller, Size
      <4>2. k[t] = g[t]
        BY <2>1, <4>1
      <4>3. k[s] = f[First(s)] + g[t]
        BY <3>2 DEF Part
      <4>4. Part(k, f, s) = f[First(s)] + k[t]
        BY <3>2 DEF Part
      <4> QED
        BY <4>2, <4>3, <4>4
    <3> QED
      BY <3>1, <3>2
  <2>4. Right(k, n + 1)
    BY <2>3
  <2> HIDE DEF k, Right
  <2> QED
    BY <2>2, <2>4
<1>3. Nat \subseteq Upto
  <2> HIDE DEF Upto
  <2> QED
    BY <1>1, <1>2, Induction
<1>4. PICK g \in [SUBSET Assets -> Int] : Right(g, Cardinality(Assets))
  BY <1>3, AssetsAssumption, FS_CardinalityType
<1>5. \A s \in SUBSET Assets : Cardinality(s) <= Cardinality(Assets)
  BY Size
<1> QED
  BY <1>4, <1>5 DEF Sums

\* A column is what such a function gives for all assets.
LEMMA ColumnIs ==
  ASSUME NEW f \in [Assets -> Int]
  PROVE  \E g : Sums(g, f) /\ Column(f) = g[Assets]
<1> DEFINE Eq(g) == g = [s \in SUBSET Assets |-> Part(g, f, s)]
           sum == CHOOSE g : Eq(g)
<1>1. Column(f) = sum[Assets]
  BY DEF Column, MapThenSumSet, MapThenFoldSet, Part, First
<1>2. PICK g : Sums(g, f)
  BY SumsExist
<1>3. Eq(g)
  BY <1>2 DEF Sums
<1>4. Eq(sum)
  <2> HIDE DEF Eq
  <2> QED
    BY <1>3
<1> DEFINE Same == {s \in SUBSET Assets : sum[s] = g[s]}
<1>5. SUBSET Assets \subseteq Same
  <2>1. {} \in Same
    BY <1>3, <1>4 DEF Part
  <2>2. ASSUME NEW s \in SUBSET Assets, s # {} /\ s \ {First(s)} \in Same
        PROVE  s \in Same
    <3>1. sum[s] = Part(sum, f, s) /\ g[s] = Part(g, f, s)
      BY <1>3, <1>4
    <3> QED
      BY <2>2, <3>1 DEF Part
  <2> HIDE DEF Same
  <2> QED
    BY <2>1, <2>2, SetInduction
<1> QED
  BY <1>1, <1>2, <1>5

\* Changing what one asset is charged changes the column by as much.
LEMMA ColumnChanges ==
  ASSUME NEW f \in [Assets -> Int], NEW k \in [Assets -> Int], NEW a \in Assets,
         \A b \in Assets \ {a} : k[b] = f[b]
  PROVE  /\ Column(f) \in Int
         /\ Column(k) = Column(f) + k[a] - f[a]
<1>1. PICK g : Sums(g, f) /\ Column(f) = g[Assets]
  BY ColumnIs
<1>2. PICK h : Sums(h, k) /\ Column(k) = h[Assets]
  BY ColumnIs
<1> DEFINE Off(s) == IF a \in s THEN k[a] - f[a] ELSE 0
           Good == {s \in SUBSET Assets : h[s] = g[s] + Off(s)}
<1>3. SUBSET Assets \subseteq Good
  <2>1. {} \in Good
    <3>1. g[{}] = 0 /\ h[{}] = 0 /\ Off({}) = 0
      BY <1>1, <1>2 DEF Sums, Part
    <3> HIDE DEF Off
    <3> QED
      BY <3>1
  <2>2. ASSUME NEW s \in SUBSET Assets, s # {} /\ s \ {First(s)} \in Good
        PROVE  s \in Good
    <3> DEFINE t == s \ {First(s)}
    <3>1. g[s] = f[First(s)] + g[t] /\ h[s] = k[First(s)] + h[t]
      BY <1>1, <1>2, <2>2 DEF Sums, Part
    <3>2. First(s) \in s /\ t \in SUBSET Assets /\ h[t] = g[t] + Off(t)
      BY <2>2, Smaller
    <3>3. g[t] \in Int /\ h[t] \in Int
      BY <1>1, <1>2, <3>2 DEF Sums
    <3>4. CASE First(s) = a
      <4>1. Off(t) = 0 /\ Off(s) = k[a] - f[a]
        BY <3>2, <3>4
      <4> HIDE DEF t, Off
      <4> QED
        BY <3>1, <3>2, <3>3, <3>4, <4>1
    <3>5. CASE First(s) # a
      <4>1. Off(t) = Off(s) /\ k[First(s)] = f[First(s)] /\ f[First(s)] \in Int /\ Off(s) \in Int
        BY <3>2, <3>5
      <4> HIDE DEF t, Off
      <4> QED
        BY <3>1, <3>2, <3>3, <4>1
    <3> QED
      BY <3>4, <3>5
  <2> HIDE DEF Good
  <2> QED
    BY <2>1, <2>2, SetInduction
<1>4. h[Assets] = g[Assets] + Off(Assets)
  BY <1>3
<1> QED
  BY <1>1, <1>2, <1>4 DEF Sums

\* A column is 0 when every charge is.
LEMMA ColumnZero == Column([a \in Assets |-> 0]) = 0
<1> DEFINE f == [a \in Assets |-> 0]
<1>1. f \in [Assets -> Int] /\ \A a \in Assets : f[a] = 0
  OBVIOUS
<1> HIDE DEF f
<1>2. PICK g : Sums(g, f) /\ Column(f) = g[Assets]
  BY <1>1, ColumnIs
<1> DEFINE Good == {s \in SUBSET Assets : g[s] = 0}
<1>3. SUBSET Assets \subseteq Good
  <2>1. {} \in Good
    BY <1>2 DEF Sums, Part
  <2>2. ASSUME NEW s \in SUBSET Assets, s # {} /\ s \ {First(s)} \in Good
        PROVE  s \in Good
    <3>1. First(s) \in s /\ g[s] = f[First(s)] + g[s \ {First(s)}]
      BY <1>2, <2>2, Smaller DEF Sums, Part
    <3> QED
      BY <1>1, <2>2, <3>1
  <2> HIDE DEF Good
  <2> QED
    BY <2>1, <2>2, SetInduction
<1> QED
  BY <1>2, <1>3 DEF f
------------------------------------------------------------------------------
(* The plan's quota *)

\* What the two columns come to.
LEMMA Total ==
  ASSUME TypeOK
  PROVE  /\ Charged(usage) = Column(usedFor) + Column(reservedFor)
         /\ Column(usedFor) \in Int /\ Column(reservedFor) \in Int
<1>1. \A f \in [Assets -> Int] : Column(f) \in Int
  <2> SUFFICES ASSUME NEW f \in [Assets -> Int] PROVE Column(f) \in Int
    OBVIOUS
  <2>1. PICK g : Sums(g, f) /\ Column(f) = g[Assets]
    BY ColumnIs
  <2> QED
    BY <2>1 DEF Sums
<1>2. Charged(usage) = Column(usedFor) + Column(reservedFor)
  BY DEF Charged, usage
<1> QED
  BY <1>1, <1>2 DEF TypeOK

\* A step that changes the charges of one asset changes the total by as much.
LEMMA TotalMoves ==
  ASSUME TypeOK, TypeOK', NEW a \in Assets,
         \A b \in Assets \ {a} : usedFor'[b] = usedFor[b] /\ reservedFor'[b] = reservedFor[b]
  PROVE  /\ Charged(usage) \in Int /\ Charged(usage)' \in Int
         /\ Charged(usage)' =
              Charged(usage) + (usedFor'[a] + reservedFor'[a]) - (usedFor[a] + reservedFor[a])
<1>1. /\ Charged(usage) = Column(usedFor) + Column(reservedFor)
      /\ Column(usedFor) \in Int /\ Column(reservedFor) \in Int
  BY Total
<1>2. Charged(usage)' = Column(usedFor') + Column(reservedFor')
  BY DEF Charged, usage
<1>3. /\ usedFor \in [Assets -> Int] /\ usedFor' \in [Assets -> Int]
      /\ reservedFor \in [Assets -> Int] /\ reservedFor' \in [Assets -> Int]
  BY DEF TypeOK
<1>4. Column(usedFor') = Column(usedFor) + usedFor'[a] - usedFor[a]
  BY <1>3, ColumnChanges
<1>5. Column(reservedFor') = Column(reservedFor) + reservedFor'[a] - reservedFor[a]
  BY <1>3, ColumnChanges
<1>6. /\ usedFor[a] \in Int /\ usedFor'[a] \in Int
      /\ reservedFor[a] \in Int /\ reservedFor'[a] \in Int
  BY <1>3
<1> QED
  BY <1>1, <1>2, <1>4, <1>5, <1>6

\* As long as nothing overlaps, the total is within the plan, and of the requests
\* that have read the usage without having reserved there is one at most, and
\* what it read is no less than what is charged now.
Calm == ~crowded /\ \A a \in Assets : overlap[a] = 0
Asking(h) == Busy(h, "request", "read")
AskingFits(h) ==
  /\ Charged(work[h].found) \in Int /\ Charged(usage) <= Charged(work[h].found)
  /\ \A g \in Handlers : Asking(g) => g = h
PlanFits ==
  Calm => Charged(usage) <= PlanBytes /\ \A h \in Handlers : Asking(h) => AskingFits(h)

\* A step after which no more is charged for the one asset it is about, and nobody
\* else is about to reserve, keeps within the plan.
LEMMA NoMore ==
  ASSUME TypeOK, TypeOK', PlanFits, NEW a \in Assets, Calm' => Calm,
         \A b \in Assets \ {a} : usedFor'[b] = usedFor[b] /\ reservedFor'[b] = reservedFor[b],
         Calm => usedFor'[a] + reservedFor'[a] <= usedFor[a] + reservedFor[a],
         \A h \in Handlers : Asking(h)' => Asking(h) /\ work'[h].found = work[h].found
  PROVE  PlanFits'
<1> SUFFICES ASSUME Calm' PROVE PlanFits'
  BY DEF PlanFits
<1>1. usedFor[a] + reservedFor[a] \in Int /\ usedFor'[a] + reservedFor'[a] \in Int
  BY DEF TypeOK
<1>2. /\ Charged(usage) \in Int /\ Charged(usage)' \in Int
      /\ Charged(usage)' <= Charged(usage)
  BY <1>1, TotalMoves
<1>3. Charged(usage)' <= PlanBytes
  BY <1>2, PlanAssumption DEF PlanFits
<1>4. ASSUME NEW h \in Handlers, Asking(h)' PROVE AskingFits(h)'
  <2>1. AskingFits(h) /\ work'[h].found = work[h].found
    BY <1>4 DEF PlanFits
  <2>2. Charged(work[h].found)' = Charged(work[h].found)
    BY <2>1 DEF Charged
  <2>3. \A g \in Handlers : Asking(g)' => g = h
    BY <2>1 DEF AskingFits
  <2>4. Charged(work[h].found) \in Int /\ Charged(usage)' <= Charged(work[h].found)
    BY <1>2, <2>1 DEF AskingFits
  <2> QED
    BY <2>1, <2>2, <2>3, <2>4 DEF AskingFits
<1> QED
  BY <1>3, <1>4 DEF PlanFits

\* Which handlers have still to reserve after one has gone on or ended.
LEMMA AskingKept ==
  ASSUME TypeOK, NEW h \in Handlers, work[h] # Idle,
         \/ Finish(h)
         \/ \E pc \in {"reserved", "marked", "put", "cleared"} : Goto(h, pc)
  PROVE  /\ Calm' => Calm
         /\ ~Asking(h)'
         /\ \A g \in Handlers : Asking(g)' => Asking(g) /\ work'[g].found = work[g].found
<1>1. /\ work'[h] = Idle \/ work'[h].pc # "read"
      /\ \A g \in Handlers \ {h} : work'[g] = work[g]
  <2>1. CASE Finish(h)
    BY <2>1, FinishWork
  <2>2. ASSUME NEW pc \in {"reserved", "marked", "put", "cleared"}, Goto(h, pc)
        PROVE  /\ work'[h].pc # "read"
               /\ \A g \in Handlers \ {h} : work'[g] = work[g]
    BY <2>2, GotoWork
  <2> QED
    BY <2>1, <2>2
<1>2. ~Asking(h)'
  BY <1>1 DEF Asking, Busy, Idle
<1>3. Calm' => Calm
  BY DEF Goto, Finish, history, Calm
<1> QED
  BY <1>1, <1>2, <1>3 DEF Asking, Busy

\* The request that reserves: what it checked, whether it read it now or when it
\* began, is no less than what is charged.
LEMMA ReservePlan ==
  ASSUME IInv, IInv', PlanFits, NEW h \in Handlers, RequestReserve(h)
  PROVE  PlanFits'
<1> DEFINE a == work[h].asset
<1> SUFFICES ASSUME Calm' PROVE PlanFits'
  BY DEF PlanFits
<1>1. TypeOK /\ TypeOK' /\ work[h] # Idle /\ a \in Assets /\ Asking(h)
  BY BusyIsWork, WorkType DEF IInv, RequestReserve, Asking, Busy
<1>2. /\ Calm /\ ~Asking(h)'
      /\ \A g \in Handlers : Asking(g)' => Asking(g)
  BY <1>1, AskingKept DEF RequestReserve
<1>3. AskingFits(h)
  BY <1>1, <1>2 DEF PlanFits
<1>4. \A g \in Handlers : ~Asking(g)'
  BY <1>2, <1>3 DEF AskingFits
<1>5. PICK seen \in {work[h].found, usage} : Fits(Charged(seen))
  BY DEF RequestReserve
<1>6. /\ usedFor[a] \in Int /\ reservedFor[a] \in Int /\ usedFor'[a] = usedFor[a]
      /\ reservedFor'[a] = reservedFor[a] + Reservation
      /\ \A b \in Assets \ {a} : usedFor'[b] = usedFor[b] /\ reservedFor'[b] = reservedFor[b]
  BY <1>1 DEF TypeOK, RequestReserve
<1>7. /\ Charged(usage) \in Int
      /\ Charged(usage)' = Charged(usage) + Reservation
  <2> HIDE DEF a
  <2>1. /\ Charged(usage) \in Int
        /\ Charged(usage)' =
             Charged(usage) + (usedFor'[a] + reservedFor'[a]) - (usedFor[a] + reservedFor[a])
    BY <1>1, <1>6, TotalMoves
  <2> QED
    BY <1>6, <2>1, ReservationAssumption
<1>8. Charged(usage) + Reservation <= PlanBytes
  <2>1. Charged(seen) \in Int /\ Charged(usage) <= Charged(seen)
    BY <1>3, <1>5, <1>7 DEF AskingFits
  <2>2. Charged(seen) + Reservation <= PlanBytes
    BY <1>5 DEF Fits
  <2> QED
    BY <1>7, <2>1, <2>2, ReservationAssumption, PlanAssumption
<1> QED
  BY <1>4, <1>7, <1>8 DEF PlanFits

\* A request that begins has read the usage as it is, and if another one has still
\* to reserve, the two crowd each other.
LEMMA BeginPlan ==
  ASSUME IInv, PlanFits, NEW h \in Handlers, NEW a \in Assets, Start(h, a)
  PROVE  PlanFits'
<1>1. TypeOK /\ Apart /\ status[a] \in Statuses /\ usage \in Statuses \cup Usages
  BY DEF IInv, TypeOK, usage, Usages
<1>2. PICK kind \in {"request", "upload", "fail", "remove"}, bytes \in Int,
           found \in Statuses \cup Usages :
        Begin(h, kind, a, bytes, found) /\ (kind = "request" => found = usage)
  <2>1. CASE RequestBegin(h, a)
    BY <1>1, <2>1 DEF RequestBegin
  <2>2. CASE FailBegin(h, a)
    BY <1>1, <2>2, ReservationAssumption DEF FailBegin, TypeOK
  <2>3. CASE RemoveBegin(h, a)
    <3>1. size[a] \in Int
      BY <1>1, ReservationAssumption DEF TypeOK
    <3> QED
      BY <1>1, <2>3, <3>1 DEF RemoveBegin
  <2>4. ASSUME NEW bytes \in 1..(Reservation + 1), UploadBegin(h, a, bytes)
        PROVE  bytes \in Int /\ Begin(h, "upload", a, bytes, status[a])
    BY <2>4, ReservationAssumption DEF UploadBegin
  <2> QED
    BY <1>1, <2>1, <2>2, <2>3, <2>4 DEF Start
<1>3. UNCHANGED usage
  BY DEF Start, RequestBegin, FailBegin, RemoveBegin, UploadBegin
<1>4. /\ \A g \in Handlers \ {h} : work'[g] = work[g]
      /\ work'[h].kind = kind /\ work'[h].found = found
      /\ \A b \in Assets \ {a} : overlap'[b] = overlap[b]
      /\ overlap[a] <= overlap'[a] /\ overlap[a] \in 0..2
  BY <1>1, <1>2, BeginWork DEF TypeOK
<1>5. crowded' = (crowded \/ (kind = "request" /\ \E g \in Handlers : Asking(g)))
  BY <1>2 DEF Begin, Asking
<1>6. Calm' => Calm
  <2> SUFFICES ASSUME Calm' PROVE Calm
    OBVIOUS
  <2>1. ~crowded
    BY <1>5 DEF Calm
  <2>2. \A b \in Assets : overlap[b] = 0
    BY <1>4 DEF Calm
  <2> QED
    BY <2>1, <2>2 DEF Calm
<1> SUFFICES ASSUME Calm' PROVE PlanFits'
  BY DEF PlanFits
<1>7. Charged(usage)' = Charged(usage) /\ Charged(usage) <= PlanBytes /\ Charged(usage) \in Int
  BY <1>1, <1>3, <1>6, Total DEF PlanFits, Charged
<1>8. ASSUME NEW g \in Handlers, Asking(g)'
      PROVE  AskingFits(g)'
  <2>1. CASE kind = "request"
    <3>1. \A f \in Handlers : ~Asking(f)
      BY <1>5, <2>1 DEF Calm
    <3>2. \A f \in Handlers : Asking(f)' => f = h
      BY <1>4, <3>1 DEF Asking, Busy
    <3>3. g = h /\ work'[g].found = usage
      BY <1>2, <1>4, <1>8, <2>1, <3>2
    <3>4. Charged(work[g].found)' = Charged(usage)
      BY <3>3 DEF Charged
    <3> QED
      BY <1>7, <3>2, <3>3, <3>4 DEF AskingFits
  <2>2. CASE kind # "request"
    <3>1. \A f \in Handlers : Asking(f)' => f # h /\ Asking(f) /\ work'[f] = work[f]
      BY <1>4, <2>2 DEF Asking, Busy
    <3>2. AskingFits(g) /\ work'[g].found = work[g].found
      BY <1>6, <1>8, <3>1 DEF PlanFits
    <3>3. Charged(work[g].found)' = Charged(work[g].found)
      BY <3>2 DEF Charged
    <3> QED
      BY <1>7, <3>1, <3>2, <3>3 DEF AskingFits
  <2> QED
    BY <2>1, <2>2
<1> QED
  BY <1>7, <1>8 DEF PlanFits

\* Every other step of a handler charges no more for its asset than was charged
\* before: an upload takes at most what was reserved for it.
LEMMA StepPlan ==
  ASSUME IInv, IInv', PlanFits, NEW h \in Handlers, Step(h)
  PROVE  PlanFits'
<1> DEFINE a == work[h].asset
<1>1. CASE RequestReserve(h)
  BY <1>1, ReservePlan
<1> SUFFICES ASSUME ~RequestReserve(h) PROVE PlanFits'
  BY <1>1
<1>2. TypeOK /\ TypeOK' /\ work[h] # Idle
  BY BusyIsWork DEF IInv, Step, Die, Busy, RequestCreate, RequestRelease, UploadMark, UploadPut,
     UploadCommit, FailCommit, RemoveMark, RemoveObject, RemoveRestore, RemoveCommit
<1>3. a \in Assets /\ HandlerFits(h)
  BY <1>2, WorkType DEF IInv, HandlersFit
<1>4. /\ usedFor[a] \in Int /\ reservedFor[a] \in Int
      /\ reserved[a] \in {0, Reservation} /\ size[a] \in Nat /\ reserved[a] \in Nat
  BY <1>2, <1>3, ReservationAssumption DEF TypeOK
<1>5. \/ Finish(h)
      \/ \E pc \in {"reserved", "marked", "put", "cleared"} : Goto(h, pc)
  BY DEF Step, Die, RequestCreate, RequestRelease, UploadMark, UploadPut,
     UploadCommit, FailCommit, RemoveMark, RemoveObject, RemoveRestore, RemoveCommit
<1>6. /\ Calm' => Calm
      /\ \A g \in Handlers : Asking(g)' => Asking(g) /\ work'[g].found = work[g].found
  BY <1>2, <1>5, AskingKept
<1>7. /\ \A b \in Assets \ {a} : usedFor'[b] = usedFor[b] /\ reservedFor'[b] = reservedFor[b]
      /\ Calm => usedFor'[a] + reservedFor'[a] <= usedFor[a] + reservedFor[a]
  <2>1. CASE UNCHANGED usage
    BY <1>4, <2>1 DEF usage
  <2>2. CASE RequestRelease(h)
    <3>1. CASE Column(reservedFor) >= Reservation
      BY <1>2, <1>3, <1>4, <2>2, <3>1, ReservationAssumption DEF RequestRelease, TypeOK
    <3>2. CASE ~(Column(reservedFor) >= Reservation)
      BY <1>4, <2>2, <3>2 DEF RequestRelease
    <3> QED
      BY <3>1, <3>2
  <2>3. CASE UploadCommit(h)
    <3>1. work[h].kind = "upload"
      BY <2>3 DEF UploadCommit, Busy
    <3>2. UploadFits(h, a)
      BY <1>3, <3>1 DEF HandlerFits
    <3>3. Calm => work[h].bytes \in 1..Reservation /\ status[a] \in ActiveStatuses
      BY <1>3, <3>2 DEF UploadFits, Calm
    <3>4. CASE UNCHANGED usage
      BY <2>1, <3>4
    <3>5. CASE Exchange(a, work[h].bytes)
      <4>1. /\ usedFor'[a] = usedFor[a] + work[h].bytes
            /\ reservedFor'[a] = reservedFor[a] - reserved[a]
            /\ \A b \in Assets \ {a} :
                 usedFor'[b] = usedFor[b] /\ reservedFor'[b] = reservedFor[b]
        BY <1>2, <1>3, <3>5 DEF Exchange, TypeOK
      <4>2. Calm => reserved[a] = Reservation
        BY <1>3, <3>3 DEF IInv, RowsFit, Calm
      <4> QED
        BY <1>4, <3>3, <4>1, <4>2, ReservationAssumption
    <3> QED
      BY <2>3, <3>4, <3>5 DEF UploadCommit
  <2>4. CASE FailCommit(h)
    <3>1. work[h].kind = "fail"
      BY <2>4 DEF FailCommit, Busy
    <3>2. Calm => work[h].bytes = reserved[a]
      BY <1>3, <3>1 DEF HandlerFits, FailFits, Calm
    <3>3. /\ usedFor' = usedFor
          /\ reservedFor'[a] = reservedFor[a] - work[h].bytes
          /\ \A b \in Assets \ {a} : reservedFor'[b] = reservedFor[b]
      BY <1>2, <1>3, <2>4 DEF FailCommit, TypeOK
    <3> QED
      BY <1>4, <3>2, <3>3
  <2>5. CASE RemoveCommit(h)
    <3>1. CASE UNCHANGED usage
      BY <2>1, <3>1
    <3>2. CASE Release(a) /\ size[a] > 0
      BY <1>2, <1>3, <1>4, <3>2 DEF Release, TypeOK
    <3>3. CASE Release(a) /\ ~(size[a] > 0)
      BY <1>2, <1>3, <1>4, <3>3 DEF Release, TypeOK
    <3> QED
      BY <2>5, <3>1, <3>2, <3>3 DEF RemoveCommit
  <2> QED
    BY <2>1, <2>2, <2>3, <2>4, <2>5
    DEF Step, Die, RequestCreate, UploadMark, UploadPut, RemoveMark, RemoveObject, RemoveRestore
<1> HIDE DEF a
<1> QED
  BY <1>2, <1>3, <1>6, <1>7, NoMore

\* The quota, by one lemma for each way a handler moves.
LEMMA PlanStep == IInv /\ IInv' /\ PlanFits /\ [Next]_vars => PlanFits'
<1> SUFFICES ASSUME IInv, IInv', PlanFits, [Next]_vars PROVE PlanFits'
  OBVIOUS
<1>1. CASE UNCHANGED vars
  <2>1. UNCHANGED <<usage, work, overlap, crowded>>
    BY <1>1 DEF vars, history
  <2> QED
    BY <2>1 DEF PlanFits, Calm, Asking, AskingFits, Busy, Charged
<1> QED
  BY <1>1, BeginPlan, StepPlan DEF Next

\* Nothing is charged at first, and nobody asks.
LEMMA PlanInit == Init => PlanFits
<1> SUFFICES ASSUME Init PROVE PlanFits
  OBVIOUS
<1>1. Charged(usage) = 0
  BY ColumnZero DEF Init, Charged, usage
<1> QED
  BY <1>1, PlanAssumption DEF Init, PlanFits, Asking, Busy, Idle

------------------------------------------------------------------------------
(* The theorems *)

\* Nothing is charged at first.
LEMMA InitIInv == Init => IInv
<1> SUFFICES ASSUME Init PROVE IInv
  OBVIOUS
<1> USE ReservationAssumption DEF Init
<1>1. TypeOK
  <2>1. "NONE" \in Statuses /\ 0 \in 0..Reservation /\ 0 \in {0, Reservation}
    BY DEF Statuses
  <2>2. /\ status \in [Assets -> Statuses] /\ size \in [Assets -> 0..Reservation]
        /\ reserved \in [Assets -> {0, Reservation}]
    BY <2>1
  <2>3. work \in [Handlers -> {Idle} \cup Work]
    OBVIOUS
  <2>4. /\ usedFor \in [Assets -> Int] /\ reservedFor \in [Assets -> Int]
        /\ objects \subseteq Assets /\ overlap \in [Assets -> 0..2]
    OBVIOUS
  <2>5. crowded \in BOOLEAN
    OBVIOUS
  <2> QED
    BY <2>2, <2>3, <2>4, <2>5 DEF TypeOK
<1>2. ChargesCover /\ ChargesExact /\ FreedIsGone
  BY DEF ChargesCover, Covered, ChargesExact, FreedIsGone, Stored
<1>3. Apart /\ RowsFit /\ HandlersFit
  BY DEF Apart, On, RowsFit, HandlersFit, HandlerFits, Idle, ActiveStatuses
<1> QED
  BY <1>1, <1>2, <1>3 DEF IInv

\* Every step keeps the inductive invariant, by one lemma per action.
LEMMA IInvStep == IInv /\ [Next]_vars => IInv'
<1> SUFFICES ASSUME IInv, [Next]_vars PROVE IInv'
  OBVIOUS
<1>1. CASE UNCHANGED vars
  BY <1>1
  DEF vars, row, usage, history, IInv, TypeOK, ChargesCover, Covered, ChargesExact,
      FreedIsGone, Stored, Apart, On, RowsFit, HandlersFit, HandlerFits, RequestFits,
      UploadFits, FailFits, RemoveFits
<1>2. ASSUME NEW h \in Handlers, Step(h) PROVE IInv'
  BY <1>2, RequestReserveIInv, RequestCreateIInv, RequestReleaseIInv, UploadMarkIInv,
     UploadPutIInv, UploadCommitIInv, FailCommitIInv, RemoveMarkIInv, RemoveObjectIInv,
     RemoveRestoreIInv, RemoveCommitIInv, DieIInv DEF Step
<1>3. ASSUME NEW h \in Handlers, NEW a \in Assets, Start(h, a) PROVE IInv'
  BY <1>3, RequestBeginIInv, UploadBeginIInv, FailBeginIInv, RemoveBeginIInv DEF Start
<1> QED
  BY <1>1, <1>2, <1>3 DEF Next

\* Every column and every handler stays within its type; in particular no size
\* is ever stored that was not authorized by a reservation.
THEOREM TypeCorrect == Spec => []TypeOK
<1>1. IInv => TypeOK
  BY DEF IInv
<1> QED
  BY <1>1, InitIInv, IInvStep, PTL DEF Spec

\* Whatever handlers die and whichever uploads race, an asset's charges cover
\* what it holds and may still upload; they are exact, and what was given back
\* is gone from the bucket, while its handlers run one after the other.
THEOREM Charging == Spec => [](ChargesCover /\ ChargesExact /\ FreedIsGone)
<1>1. IInv => ChargesCover /\ ChargesExact /\ FreedIsGone
  BY DEF IInv
<1> QED
  BY <1>1, InitIInv, IInvStep, PTL DEF Spec

\* The plan's quota holds of the sum of all charges, for any number of captures:
\* a request that checks the usage of its beginning checks no less than what is
\* charged when it reserves, unless another request reserved in between.
THEOREM QuotaHolds == Spec => []WithinPlan
<1>1. IInv /\ PlanFits => WithinPlan
  BY DEF PlanFits, Calm, WithinPlan
<1> QED
  BY <1>1, InitIInv, IInvStep, PlanInit, PlanStep, PTL DEF Spec
==============================================================================
