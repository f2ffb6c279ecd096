------------------------------ MODULE FileList ------------------------------
(***************************************************************************)
(* The open files, the default file, the calendar all open files share and *)
(* the defined variables: gaopen, gasdfopen, gaxdfopen, gadef, gaudef and  *)
(* the close, reset, reinit and set dfile commands of gacmd.               *)
(*                                                                         *)
(* Files and defined variables own grid coordinate arrays, which the       *)
(* scaling environment of a plot points into.  An owner is a number that   *)
(* is never used twice, so a pointer into freed arrays can be told apart   *)
(* from one into arrays allocated later at the same place.                 *)
(***************************************************************************)
EXTENDS Integers, Sequences

CONSTANTS
  Name,      \* names of defined variables
  Dims,      \* dimensions, of Z, T and E, the user may let vary
  MaxFiles,  \* bound: files open at a time
  MaxObj     \* bound: files and variables created

NoCal == -999                        \* no calendar in effect
Calendars == {0, 1}                  \* standard, 365-day
LoopDims == {"z", "t", "e"}

ASSUME FileAssumption ==
  /\ Dims \subseteq LoopDims
  /\ MaxFiles \in Nat /\ MaxObj \in Nat

VARIABLES
  files,     \* pfi1, pforw: the open files, in order; fnum is its length
  pfid,      \* owner number of the default file, 0 for a null pointer
  dfnum,     \* number of the default file
  cal365,    \* the calendar in effect
  defs,      \* pdf1: the owner number of each defined variable, 0 for none
  datagen,   \* gadatagen: how often coordinate arrays may have been freed
  vdim,      \* the dimensions among LoopDims that vary
  asked,     \* those the user, or a command on his behalf, let vary
  made,      \* owners created so far
  refused    \* the last command was an open refused for its calendar

filevars == <<files, pfid, dfnum, cal365, defs, datagen, vdim,
             asked, made, refused>>

File == [own : Nat, cal : Calendars]
Owners(fs) == {fs[i].own : i \in 1 .. Len(fs)}
Live == (Owners(files) \cup {defs[v] : v \in Name}) \ {0}

FileInit ==
  /\ files = << >> /\ pfid = 0 /\ dfnum = 0
  /\ cal365 = NoCal
  /\ defs = [v \in Name |-> 0]
  /\ datagen = 0 /\ vdim = {} /\ asked = {} /\ made = 0 /\ refused = FALSE

-----------------------------------------------------------------------------
(* Opening.                                                                *)

(* Mutant of CalFree: the calendar an earlier file left stays.             *)
CalKept == cal365

(* gacalfree, which precedes every open. *)
CalFree == IF files = << >> THEN NoCal ELSE cal365

(* The file is of another calendar than the open ones: no open takes it.   *)
OpenRefused(c) ==
  /\ CalFree \notin {NoCal, c}
  /\ cal365' = CalFree
  /\ refused' = TRUE
  /\ UNCHANGED <<files, pfid, dfnum, defs, datagen, vdim, asked, made>>

(* gaopen and gasdfopen give up before the file is in the chain: before    *)
(* its calendar is in effect, or after.                                    *)
OpenFails(c) ==
  /\ cal365' \in {CalFree} \cup (IF CalFree \in {NoCal, c} THEN {c} ELSE {})
  /\ refused' = FALSE
  /\ UNCHANGED <<files, pfid, dfnum, defs, datagen, vdim, asked, made>>

Chained(c) == Append(files, [own |-> made + 1, cal |-> c])

(* Mutant of Unchain: the failed file stays the end of the chain.          *)
UnchainLate(fs) == fs

(* What gaxdfopen leaves of the chain when its last file failed.           *)
Unchain(fs) == SubSeq(fs, 1, Len(fs) - 1)

(* gaxdfopen has chained the file, and made it the default one if it is    *)
(* the only one, when gadsdf fails.                                        *)
XdfOpenFails(c) ==
  /\ Len(files) < MaxFiles
  /\ cal365' \in {CalFree} \cup (IF CalFree \in {NoCal, c} THEN {c} ELSE {})
  /\ files' = Unchain(Chained(c))
  /\ IF files = << >> THEN pfid' = 0 /\ dfnum' = 0 ELSE UNCHANGED <<pfid, dfnum>>
  /\ refused' = FALSE
  /\ UNCHANGED <<defs, datagen, vdim, asked, made>>

(* The first file becomes the default one, and sets the dimensions.        *)
OpenFile(c) ==
  /\ CalFree \in {NoCal, c}
  /\ Len(files) < MaxFiles /\ made < MaxObj
  /\ cal365' = c
  /\ files' = Chained(c)
  /\ made' = made + 1
  /\ IF files = << >> THEN pfid' = made + 1 /\ dfnum' = 1 /\ vdim' = {} /\ asked' = {}
     ELSE UNCHANGED <<pfid, dfnum, vdim, asked>>
  /\ refused' = FALSE
  /\ UNCHANGED <<defs, datagen>>

-----------------------------------------------------------------------------
(* Default file and closing.                                               *)

(* set dfile looks for the end of the chain, not for numbers below one.    *)
SetDfile(n) ==
  /\ pfid # 0 /\ n <= Len(files)
  /\ pfid' = files[IF n < 1 THEN 1 ELSE n].own
  /\ dfnum' = n
  /\ refused' = FALSE
  /\ UNCHANGED <<files, cal365, defs, datagen, vdim, asked, made>>

(* Mutants of CloseLast: the default file is not looked at; the release of *)
(* its coordinates is not counted.                                         *)
CloseKeepsDefault ==
  /\ files # << >>
  /\ files' = SubSeq(files, 1, Len(files) - 1)
  /\ datagen' = datagen + 1
  /\ UNCHANGED <<pfid, dfnum, cal365>>

CloseUncounted ==
  /\ files # << >>
  /\ files' = SubSeq(files, 1, Len(files) - 1)
  /\ UNCHANGED datagen
  /\ IF Len(files) = 1 THEN pfid' = 0 /\ dfnum' = 0 /\ cal365' = NoCal
     ELSE /\ UNCHANGED cal365
          /\ IF dfnum = Len(files) THEN pfid' = files[1].own /\ dfnum' = 1
             ELSE UNCHANGED <<pfid, dfnum>>

(* Only the last file can be closed. *)
CloseLast ==
  /\ files # << >>
  /\ files' = SubSeq(files, 1, Len(files) - 1)
  /\ datagen' = datagen + 1
  /\ IF Len(files) = 1 THEN pfid' = 0 /\ dfnum' = 0 /\ cal365' = NoCal
     ELSE /\ UNCHANGED cal365
          /\ IF dfnum = Len(files) THEN pfid' = files[1].own /\ dfnum' = 1
             ELSE UNCHANGED <<pfid, dfnum>>

Close == CloseLast /\ refused' = FALSE /\ UNCHANGED <<defs, vdim, asked, made>>

(* reset goes back to the first file; reinit closes everything.            *)
ResetFiles ==
  /\ datagen' = datagen + 1
  /\ IF files = << >> THEN UNCHANGED <<pfid, dfnum, vdim, asked>>
     ELSE pfid' = files[1].own /\ dfnum' = 1 /\ vdim' = {} /\ asked' = {}
  /\ refused' = FALSE
  /\ UNCHANGED <<files, cal365, defs, made>>

ReinitFiles ==
  /\ datagen' = datagen + 1
  /\ files' = << >> /\ pfid' = 0 /\ dfnum' = 0 /\ cal365' = NoCal
  /\ defs' = [v \in Name |-> 0]
  /\ refused' = FALSE
  /\ UNCHANGED <<vdim, asked, made>>

-----------------------------------------------------------------------------
(* Defined variables.                                                      *)

(* The user lets dimensions vary, or fixes them. *)
SetDims(d) ==
  /\ pfid # 0
  /\ vdim' = d /\ asked' = d
  /\ refused' = FALSE
  /\ UNCHANGED <<files, pfid, dfnum, cal365, defs, datagen, made>>

(* Mutant of Redefine: replacing a variable is not counted.                *)
RedefineUncounted(v) ==
  /\ defs' = [defs EXCEPT ![v] = made + 1]
  /\ UNCHANGED datagen

(* The new variable is chained; one of its name is released first.         *)
Redefine(v) ==
  /\ defs' = [defs EXCEPT ![v] = made + 1]
  /\ datagen' = IF defs[v] = 0 THEN datagen ELSE datagen + 1

(* gadef fixes Z, T and E while it loops over them, and puts them back.    *)
Define(v) ==
  /\ pfid # 0 /\ made < MaxObj
  /\ Redefine(v)
  /\ made' = made + 1
  /\ refused' = FALSE
  /\ UNCHANGED <<files, pfid, dfnum, cal365, vdim, asked>>

(* What the error exit of gadef restores of the dimensions that varied:    *)
(* unlike the other exit, it does not restore the ensemble dimension.      *)
KeptDims == vdim \ {"e"}

(* The expression is refused, before or after the dimensions are fixed. *)
DefineFails ==
  /\ pfid # 0
  /\ vdim' \in {vdim, KeptDims}
  /\ refused' = FALSE
  /\ UNCHANGED <<files, pfid, dfnum, cal365, defs, datagen, asked, made>>

Undefine(v) ==
  /\ defs[v] # 0
  /\ defs' = [defs EXCEPT ![v] = 0]
  /\ datagen' = datagen + 1
  /\ refused' = FALSE
  /\ UNCHANGED <<files, pfid, dfnum, cal365, vdim, asked, made>>

(* One command that acts on files or variables and not on the picture.     *)
Housekeeping ==
  \/ \E c \in Calendars :
       OpenRefused(c) \/ OpenFails(c) \/ XdfOpenFails(c) \/ OpenFile(c)
  \/ \E n \in 0 .. MaxFiles : SetDfile(n)
  \/ Close
  \/ \E d \in SUBSET Dims : SetDims(d)
  \/ \E v \in Name : Define(v) \/ Undefine(v)
  \/ DefineFails

-----------------------------------------------------------------------------
FilesTypeOK ==
  /\ files \in Seq(File) /\ Len(files) <= MaxFiles
  /\ pfid \in Nat /\ dfnum \in Int /\ dfnum <= Len(files)
  /\ cal365 \in Calendars \cup {NoCal}
  /\ defs \in [Name -> Nat]
  /\ datagen \in Nat /\ vdim \subseteq LoopDims /\ asked \subseteq LoopDims
  /\ made \in 0 .. MaxObj /\ refused \in BOOLEAN

(* The default file is an open one, and the one its number says, through   *)
(* every open, failed open and close (pfid and dfnum in gaopen, gaxdfopen, *)
(* close, reinit); below one stands for the first file.                    *)
DefaultFileOpen ==
  IF files = << >> THEN pfid = 0 /\ dfnum = 0
  ELSE pfid = files[IF dfnum < 1 THEN 1 ELSE dfnum].own

(* All open files are of the calendar in effect (cal365, set and tested in *)
(* gaddes, gadxdf and gadsdf, released by close and reinit).               *)
OneCalendar == \A i \in 1 .. Len(files) : files[i].cal = cal365

(* With no file open any file may set the calendar, whatever an earlier or *)
(* a failed one used (gacalfree).                                          *)
RefusedByOpenFiles == refused => files # << >>

(* A define leaves the dimensions as the user set them, whether it         *)
(* succeeds or not ("Restore user dim limits", gadef).                     *)
DefineKeepsDims == vdim = asked
=============================================================================
