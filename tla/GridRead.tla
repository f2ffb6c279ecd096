------------------------------ MODULE GridRead ------------------------------
(***************************************************************************)
(* Grid input: gaggrd reads the rows of a request one after another, each  *)
(* through garrow, which asks gaopfn for the file and reads plain binary   *)
(* data, GRIB1 data with the bit map it keeps between rows, or GRIB2 data  *)
(* with the grids it keeps between requests.                               *)
(*                                                                         *)
(* A row is a time and a member.  What reading it gave is compared with    *)
(* where the descriptor file puts the data: the opening of the data set,   *)
(* the file, and the place within it.                                      *)
(***************************************************************************)
EXTENDS Template

CONSTANTS
  MaxCache,    \* MAXG2CACHE
  ReadsFail    \* BOOLEAN: a read from a data file, or memory for it, may fail

ASSUME CacheAssumption == MaxCache \in Nat /\ ReadsFail \in BOOLEAN

(* Files are numbered from 1; 0 stands for none. *)
ASSUME SlotAssumption == 0 \notin Slot

VARIABLES
  pc,      \* "idle", "row", "read", "done", "undefined"
  req,     \* the request: its data set, rows and forecast offset flag
  bpsav,   \* the place of the bit map kept, or NoMap
  bitmap,  \* history: where that bit map was read from
  cache,   \* the GRIB2 blocks, oldest first
  total,   \* anchor->total
  row      \* what the row read last should be, and what it is

gridvars == <<pc, req, bpsav, bitmap, cache, total, row>>

NoMap == <<0, 0>>
NoRow == [want |-> Missing, got |-> Missing, bits |-> Missing, away |-> FALSE, late |-> 0]
NoReq == [d |-> 0, rows |-> << >>, toff |-> FALSE]

File == ds[req.d]
Current == req.rows[1]

(* garrow: the forecast offset counts from the member's first time. *)
E == Current[2]
T == IF req.toff THEN Lay(File).gt[E] + Current[1] ELSE Current[1]

GridInit ==
  /\ pc = "idle" /\ req = NoReq
  /\ bpsav = NoMap /\ bitmap = Missing
  /\ cache = << >> /\ total = 0
  /\ row = NoRow

-----------------------------------------------------------------------------
(* The request.                                                            *)

(* Rows along Y, which are all of one time and member, along T or E.       *)
Requests(d) ==
  LET L == Lay(ds[d])
      Ts == 0 .. L.nt + 1
      Ask(rows, toff) == [d |-> d, rows |-> rows, toff |-> toff]
      AlongE(t) == [e \in Members(L) |-> <<t, e>>]
  IN {Ask(<< <<t, e>>, <<t, e>> >>, FALSE) : t \in 1 .. L.nt, e \in Members(L)}
     \cup {Ask([i \in 1 .. L.nt + 2 |-> <<i - 1, e>>], FALSE) : e \in Members(L)}
     \cup {Ask(AlongE(t), toff) : t \in 0 .. L.nt - 1, toff \in BOOLEAN}

(* Mutant of NewMap: the bit map of the request before may be used.        *)
MapKept == bpsav

(* gaggrd forgets the bit map. *)
NewMap == NoMap

AskGrid(d) ==
  /\ pc = "idle" /\ IsOpen(d) /\ Lay(ds[d]).kind # "station"
  /\ req' \in Requests(d)
  /\ pc' = "row"
  /\ bpsav' = NewMap /\ bitmap' = Missing
  /\ row' = NoRow
  /\ UNCHANGED <<filevars, cache, total>>

(* The row is filled; the request goes on with the next one.               *)
Filled(want, got, bits) ==
  /\ row' = [want |-> want, got |-> got, bits |-> bits, away |-> Gone(File, T, E),
             late |-> Late(File, E)]
  /\ req' = [req EXCEPT !.rows = Tail(@)]
  /\ pc' = IF Len(req.rows) = 1 THEN "done" ELSE "row"

(* garrow returns 1: gaggrd gives up. *)
Fails == pc' = "done" /\ UNCHANGED <<req, row>>

Finish ==
  /\ pc = "done" /\ Lay(File).kind # "station"
  /\ pc' = "idle" /\ req' = NoReq /\ row' = NoRow
  /\ UNCHANGED <<filevars, bpsav, bitmap, cache, total>>

GridRow == pc = "row" /\ Lay(File).kind # "station"

(* gaggrd and garrow give missing values for what is outside the file.     *)
RowOutside ==
  /\ GridRow
  /\ T \notin 1 .. Lay(File).nt
  /\ Filled(Missing, Missing, Missing)
  /\ UNCHANGED <<filevars, bpsav, bitmap, cache, total>>

(* Mutant of MapFor: a file that is opened does not force a new bit map.   *)
MapStays(o) == bpsav

MapFor(o) == IF o.oflg THEN NoMap ELSE bpsav

(* gaopfn is asked for the file. *)
RowFile ==
  /\ GridRow
  /\ T \in 1 .. Lay(File).nt
  /\ \E o \in Gaopfn(File, T, E) :
       /\ ds' = [ds EXCEPT ![req.d] = o.file]
       /\ handles' = handles + o.took
       /\ bpsav' = MapFor(o)
       /\ \/ o.rc = "missing" /\ Filled(Truth(File, T, E), Missing, Missing)
          \/ o.rc = "read" /\ pc' = "read" /\ UNCHANGED <<req, row>>
          \/ o.rc = "error" /\ Fails
          \/ o.rc = "undefined" /\ pc' = "undefined" /\ UNCHANGED <<req, row>>
  /\ UNCHANGED <<opened, sources, gone, bitmap, cache, total>>

-----------------------------------------------------------------------------
(* Reading the row from the current file.                                  *)

(* gairow looks the place up by time and member in the index, which        *)
(* gribmap made of all the files.                                          *)
Indexed(f, t, e) == [Place(f, t, e) EXCEPT !.name = f.infile]

InIndex == T \in Times(Lay(File), E)

(* A read from a stream that is closed.                                    *)
ReadUndefined ==
  /\ pc = "read" /\ File.infile = Dangling /\ Lay(File).kind # "station"
  /\ pc' = "undefined"
  /\ UNCHANGED <<filevars, req, row, bpsav, bitmap, cache, total>>

Reads(kind) == pc = "read" /\ File.infile # Dangling /\ Lay(File).kind = kind

(* garead *)
ReadPlain ==
  /\ Reads("plain")
  /\ LET got == Relative(File, T, E) IN Filled(Truth(File, T, E), got, got)
  /\ UNCHANGED <<filevars, bpsav, bitmap, cache, total>>

(* The bit map is read if its place is not the one of the map kept.        *)
ReadGrib1 ==
  /\ Reads("grib1")
  /\ LET got == Indexed(File, T, E)
         bpos == <<got.tt, got.ee>>
     IN IF InIndex
        THEN /\ bpsav' = bpos
             /\ bitmap' = IF bpos = bpsav THEN bitmap ELSE got
             /\ Filled(Truth(File, T, E), got, bitmap')
        ELSE /\ Filled(Truth(File, T, E), Missing, Missing)
             /\ UNCHANGED <<bpsav, bitmap>>
  /\ UNCHANGED <<filevars, cache, total>>

-----------------------------------------------------------------------------
(* The GRIB2 cache.                                                        *)

Block(f, t, e, data) ==
  [fseq |-> f.fseq, t |-> t, e |-> e, size |-> Lay(f).size, data |-> data]

(* Mutant of G2check: blocks are told apart by time only.                  *)
G2checkTime(f, t, e) ==
  {i \in 1 .. Len(cache) : cache[i].fseq = f.fseq /\ cache[i].t = t}

G2check(f, t, e) ==
  {i \in 1 .. Len(cache) : /\ cache[i].fseq = f.fseq
                           /\ cache[i].t = t /\ cache[i].e = e
                           /\ cache[i].size = Lay(f).size}

ReadUnindexed ==
  /\ Reads("grib2") /\ ~InIndex
  /\ Filled(Truth(File, T, E), Missing, Missing)
  /\ UNCHANGED <<filevars, bpsav, bitmap, cache, total>>

(* The newest of the blocks that match. *)
ReadCached ==
  /\ Reads("grib2") /\ InIndex
  /\ LET found == G2check(File, T, E) IN
     /\ found # {}
     /\ LET got == cache[CHOOSE i \in found : \A j \in found : j <= i].data IN
        Filled(Truth(File, T, E), got, got)
  /\ UNCHANGED <<filevars, bpsav, bitmap, cache, total>>

(* The bytes of the blocks.                                                *)
Sizes(c) == LET sum[n \in 0 .. Len(c)] == IF n = 0 THEN 0 ELSE sum[n - 1] + c[n].size
            IN sum[Len(c)]

(* anchor->total when the k oldest blocks are released.                    *)
Left(k) == IF k = Len(cache) THEN 0 ELSE total - Sizes(SubSeq(cache, 1, k))

(* Mutant of ForRoom: the new block is not counted.                        *)
ForRoomBefore(size) == {k \in 0 .. Len(cache) : Left(k) <= MaxCache}

(* How many blocks to release so that one of this size fits.               *)
ForRoom(size) == {k \in 0 .. Len(cache) : Left(k) + size <= MaxCache}

(* g2read: the oldest blocks make room for the grid.                       *)
ReadGrib2 ==
  /\ Reads("grib2") /\ InIndex /\ G2check(File, T, E) = {}
  /\ LET got == Indexed(File, T, E)
         size == Lay(File).size
     IN /\ ForRoom(size) # {}
        /\ LET k == Min(ForRoom(size)) IN
           /\ cache' = Append(SubSeq(cache, k + 1, Len(cache)), Block(File, T, E, got))
           /\ total' = Left(k) + size
        /\ Filled(Truth(File, T, E), got, got)
  /\ UNCHANGED <<filevars, bpsav, bitmap>>

(* A grid larger than the cache: without any block it is refused, with one *)
(* all are released and the next is looked for through a null pointer.     *)
ReadTooLarge ==
  /\ Reads("grib2") /\ InIndex /\ G2check(File, T, E) = {}
  /\ Lay(File).size > MaxCache
  /\ IF cache = << >> THEN Fails ELSE pc' = "undefined" /\ UNCHANGED <<req, row>>
  /\ UNCHANGED <<filevars, bpsav, bitmap, cache, total>>

(* A read of the bit map, after bpsav was set, or of the data fails.       *)
ReadFails ==
  /\ pc = "read" /\ ReadsFail /\ File.infile # Dangling
  /\ Lay(File).kind # "station"
  /\ Lay(File).kind # "plain" => InIndex
  /\ Lay(File).kind = "grib2" => G2check(File, T, E) = {}
  /\ LET got == Indexed(File, T, E) IN
     IF Lay(File).kind = "grib1" /\ bpsav # <<got.tt, got.ee>>
     THEN bpsav' = <<got.tt, got.ee>> /\ bitmap' \in {Missing, got}
     ELSE UNCHANGED <<bpsav, bitmap>>
  /\ Fails
  /\ UNCHANGED <<filevars, cache, total>>

-----------------------------------------------------------------------------
(* Commands between requests.                                              *)

Open(d, k) ==
  /\ pc = "idle" /\ OpenSet(d, k)
  /\ UNCHANGED gridvars

Close(d) ==
  /\ pc = "idle" /\ CloseSet(d)
  /\ UNCHANGED gridvars

(* g2clear. *)
Flush ==
  /\ pc = "idle"
  /\ cache' = << >> /\ total' = 0
  /\ UNCHANGED <<filevars, pc, req, row, bpsav, bitmap>>

(* A file can be removed while a request is served. *)
RemoveFile(d) == pc # "undefined" /\ Remove(d) /\ UNCHANGED gridvars

GridStep ==
  \/ \E d \in Slot : AskGrid(d) \/ Close(d) \/ RemoveFile(d)
  \/ \E d \in Slot, k \in DOMAIN Layout : Open(d, k)
  \/ RowOutside \/ RowFile \/ Finish \/ Flush
  \/ ReadPlain \/ ReadGrib1 \/ ReadFails \/ ReadUndefined
  \/ ReadUnindexed \/ ReadCached \/ ReadGrib2 \/ ReadTooLarge

-----------------------------------------------------------------------------
(* Properties.                                                             *)

(* A row is the data the descriptor file puts at its time and member, and  *)
(* a bit map that goes with it.  Missing values stand for data only where  *)
(* the member has none or the user removed the file.                       *)
RowsAreRight ==
  \/ row.got = row.want /\ row.bits = row.want
  \/ row.away /\ row.got = Missing

(* The same, except that a member of padded files that begins late is read *)
(* as many times too early as it begins after the time axis.               *)
RowsAreRightUnlessLate ==
  \/ RowsAreRight
  \/ /\ row.late > 0 /\ row.want # Missing
     /\ row.got = [row.want EXCEPT !.tt = @ - row.late] /\ row.bits = row.got

(* The GRIB2 cache keeps to its limit, its size is what is counted, and no *)
(* open data set finds another's grid in it.                               *)
CacheIsTrue ==
  /\ total = Sizes(cache) /\ total <= MaxCache
  /\ \A i \in 1 .. Len(cache), d \in Slot :
       IsOpen(d) /\ ds[d].fseq = cache[i].fseq =>
         cache[i].data = Truth(ds[d], cache[i].t, cache[i].e)
=============================================================================
