---------------------------- MODULE StationRead ----------------------------
(***************************************************************************)
(* Station input: gagstn reads the reports of a request time by time, from *)
(* the file gaopfn gives or from the cache, a buffer that holds the        *)
(* reports of one earlier request.  Composed with grid input, which shares *)
(* gaopfn and the open files.                                              *)
(***************************************************************************)
EXTENDS GridRead

CONSTANTS
  Area,      \* the stations a request may select
  SCNUM      \* size of the buffer: the times it holds the reports of

(* Areas are numbered from 1; 0 stands for none. *)
ASSUME StationAssumption == SCNUM \in Nat /\ 0 \notin Area

VARIABLES
  scflg,     \* anything cached?
  scuca,     \* can use cache for this request
  scok,      \* OK to fill buffer
  scpnt,     \* current cache offset
  scseq,     \* file sequence of the last request
  scstn,     \* the previous request
  scbuf,     \* the buffer
  stn,       \* this request
  torn,      \* history: a request failed after it had written to the buffer
  report     \* what the reports read last should be, and what they are

cachevars == <<scflg, scseq, scstn, scbuf, torn>>
stnvars == <<scflg, scuca, scok, scpnt, scseq, scstn, scbuf, stn, torn, report>>
vars == <<filevars, gridvars, stnvars>>

Reports(data, area) == [data |-> data, area |-> area]
NoReports == Reports(Missing, 0)
NoReport == [want |-> NoReports, got |-> NoReports, away |-> FALSE]
NoStn == [d |-> 0, area |-> 0, tmin |-> 1, tmax |-> 0]

Init ==
  /\ FileInit /\ GridInit
  /\ scflg = FALSE /\ scuca = FALSE /\ scok = FALSE /\ scpnt = 0
  /\ scseq = 0 /\ scstn = NoStn /\ scbuf = << >>
  /\ stn = NoStn /\ torn = FALSE /\ report = NoReport

-----------------------------------------------------------------------------
(* Mutant of CanUse: the request is the same, whatever the file is.        *)
CanUseAny(s) == scflg /\ scstn = s

(* The cache holds the reports of the same request of the same file.       *)
CanUse(s) == scflg /\ scseq = ds[s.d].fseq /\ scstn = s

AskStations(d) ==
  /\ pc = "idle" /\ IsOpen(d) /\ Lay(ds[d]).kind = "station"
  /\ \E area \in Area, lo, hi \in 1 .. Lay(ds[d]).nt :
       /\ lo <= hi
       /\ stn' = [d |-> d, area |-> area, tmin |-> lo, tmax |-> hi]
       /\ req' = [d |-> d, rows |-> [i \in 1 .. 1 + hi - lo |-> <<lo + i - 1, 1>>],
                  toff |-> FALSE]
  /\ pc' = "row"
  /\ scuca' = CanUse(stn') /\ scok' = ~scuca' /\ scpnt' = 0
  /\ report' = NoReport
  /\ UNCHANGED <<filevars, bpsav, bitmap, cache, total, row, cachevars>>

(* The reports of one time are chained to the request, which goes on.      *)
Chained(reports) ==
  /\ report' = [want |-> Reports(Truth(File, T, E), IF Truth(File, T, E) = Missing
                                                    THEN 0 ELSE stn.area),
                got |-> reports, away |-> Gone(File, T, E)]
  /\ req' = [req EXCEPT !.rows = Tail(@)]
  /\ pc' = IF Len(req.rows) = 1 THEN "done" ELSE "row"

(* Mutant of Gacstn: there is room for one more than there is.             *)
GacstnOver(reports) ==
  IF scok /\ scpnt <= SCNUM
  THEN /\ scbuf' = Append(SubSeq(scbuf, 1, scpnt), reports)
       /\ scpnt' = scpnt + 1
       /\ UNCHANGED scok
  ELSE scok' = FALSE /\ UNCHANGED <<scbuf, scpnt>>

Written(reports) ==
  /\ scbuf' = IF scpnt < Len(scbuf) THEN [scbuf EXCEPT ![scpnt + 1] = reports]
              ELSE Append(scbuf, reports)
  /\ scpnt' = scpnt + 1

(* Each report of a time goes to the buffer before the next one is read,   *)
(* so that some of them may be there when the buffer is full or a read     *)
(* fails: neither the reports of that time nor those that were there.      *)
Partly == Reports(Missing, stn.area)
MaybePart == \/ UNCHANGED <<scbuf, scpnt>>
             \/ scok /\ scpnt < SCNUM /\ Written(Partly)

(* gacstn, for the reports of a time and the mark that ends them: there is *)
(* room for all of them, or not, and then for some of them perhaps, as     *)
(* the size of a time is that of its reports.                              *)
Gacstn(reports) ==
  \/ scok /\ scpnt < SCNUM /\ Written(reports) /\ UNCHANGED scok
  \/ scok' = FALSE /\ IF reports = NoReports THEN UNCHANGED <<scbuf, scpnt>> ELSE MaybePart

(* The request fails: scflg and scstn stay what they were, whatever it has *)
(* written to the buffer.                                                  *)
StnFails ==
  /\ pc' = "idle" /\ req' = NoReq /\ stn' = NoStn /\ report' = NoReport
  /\ torn' = (torn \/ (~scuca /\ scpnt' > 0))

StnRow == pc = "row" /\ Lay(File).kind = "station"

(* gagcst *)
StnCached ==
  /\ StnRow /\ scuca
  /\ Chained(scbuf[scpnt + 1])
  /\ scpnt' = scpnt + 1
  /\ UNCHANGED <<filevars, bpsav, bitmap, cache, total, row,
                 scuca, scok, cachevars, stn>>

(* gaglvs runs out of memory for the reports.                              *)
StnCachedFails ==
  /\ StnRow /\ scuca /\ ReadsFail
  /\ UNCHANGED <<filevars, bpsav, bitmap, cache, total, row,
                 scflg, scuca, scok, scpnt, scseq, scstn, scbuf>>
  /\ StnFails

StnFile ==
  /\ StnRow /\ ~scuca
  /\ \E o \in Gaopfn(File, T, E) :
       /\ ds' = [ds EXCEPT ![req.d] = o.file]
       /\ handles' = handles + o.took
       /\ \/ o.rc = "missing" /\ Chained(NoReports) /\ Gacstn(NoReports)
             /\ UNCHANGED <<stn, torn>>
          \/ o.rc = "read" /\ pc' = "read"
             /\ UNCHANGED <<req, scbuf, scpnt, scok, stn, torn, report>>
          \/ o.rc = "error" /\ UNCHANGED <<scbuf, scpnt, scok>> /\ StnFails
          \/ o.rc = "undefined" /\ pc' = "undefined"
             /\ UNCHANGED <<req, scbuf, scpnt, scok, stn, torn, report>>
  /\ UNCHANGED <<opened, sources, gone, bpsav, bitmap, cache, total, row,
                 scflg, scuca, scseq, scstn>>

StnRead ==
  /\ Reads("station")
  /\ LET r == Reports(Indexed(File, T, E), stn.area) IN Chained(r) /\ Gacstn(r)
  /\ UNCHANGED <<filevars, bpsav, bitmap, cache, total, row,
                 scflg, scuca, scseq, scstn, stn, torn>>

(* A read or gaglvs fails, at any of the reports of the time.              *)
StnReadFails ==
  /\ Reads("station") /\ ReadsFail
  /\ MaybePart
  /\ StnFails
  /\ UNCHANGED <<filevars, bpsav, bitmap, cache, total, row,
                 scflg, scuca, scok, scseq, scstn>>

StnUndefined ==
  /\ pc = "read" /\ Lay(File).kind = "station" /\ File.infile = Dangling
  /\ pc' = "undefined"
  /\ UNCHANGED <<filevars, req, row, bpsav, bitmap, cache, total, stnvars>>

(* What the buffer holds can be used from now on.                          *)
Flag == scok \/ scuca

StnFinish ==
  /\ pc = "done" /\ Lay(File).kind = "station"
  /\ scflg' = Flag
  /\ IF Flag /\ ~scuca THEN scstn' = stn /\ scseq' = File.fseq ELSE UNCHANGED <<scstn, scseq>>
  /\ torn' = (torn /\ scuca)
  /\ pc' = "idle" /\ req' = NoReq /\ stn' = NoStn /\ report' = NoReport
  /\ UNCHANGED <<filevars, bpsav, bitmap, cache, total, row,
                 scuca, scok, scpnt, scbuf>>

-----------------------------------------------------------------------------
StnStep ==
  \/ \E d \in Slot : AskStations(d)
  \/ StnCached \/ StnCachedFails
  \/ StnFile \/ StnRead \/ StnReadFails \/ StnUndefined \/ StnFinish

Next == (GridStep /\ UNCHANGED stnvars) \/ StnStep

Spec == Init /\ [][Next]_vars

-----------------------------------------------------------------------------
(* Properties.                                                             *)

TypeOK ==
  /\ pc \in {"idle", "row", "read", "done", "undefined"}
  /\ \A d \in Slot : ds[d].lay \in 0 .. Len(Layout)
  /\ handles \in Nat /\ total \in Nat
  /\ pc = "idle" <=> req = NoReq
  /\ pc \in {"row", "read"} => req.rows # << >> /\ IsOpen(req.d)
  /\ scpnt \in 0 .. SCNUM /\ Len(scbuf) <= SCNUM
  /\ ~(scuca /\ scok)

(* The reports of a time are those the request selects from the file that  *)
(* holds the time; none only where there is no file.                       *)
ReportsAreRight ==
  \/ report.got = report.want
  \/ report.away /\ report.got = NoReports

(* The same, except for what comes from a buffer that a request has        *)
(* written to which then failed, if only one report of its first time.     *)
ReportsAreRightUnlessTorn == (torn /\ scuca) \/ ReportsAreRight
=============================================================================
