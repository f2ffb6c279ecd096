------------------------------ MODULE Template ------------------------------
(***************************************************************************)
(* Data sets whose grids lie in many files: which file of the template     *)
(* holds a time and an ensemble member (the fnums array gaddes builds),    *)
(* and gaopfn, which keeps one of the files open and says where in it the  *)
(* request is.                                                             *)
(*                                                                         *)
(* A layout stands for a descriptor file.  The data of a grid is the place *)
(* it was read from: the opening of the data set, the file, the time and   *)
(* the member within the file.                                             *)
(***************************************************************************)
EXTENDS Integers, Sequences, FiniteSets

CONSTANTS
  Layout,     \* the descriptor files, a sequence
  Slot,       \* the files a session can have open
  MaxOpens,   \* bound: opens in a session
  MaxGone,    \* bound: data files the user removes
  NamesFail   \* BOOLEAN: gafndt may run out of memory

Kinds == {"plain", "grib1", "grib2", "station"}

(* kind; tmplat; nt: dnum[3]; gt and length of each member; span: how many *)
(* times share a file name when the name depends on time; size: of a grid. *)
Layouts == [kind : Kinds, tmplat : 0 .. 3, nt : Nat \ {0},
            gt : Seq(Nat \ {0}), length : Seq(Nat), span : Nat \ {0}, size : Nat]

Min(S) == CHOOSE x \in S : \A y \in S : x <= y

Members(L) == 1 .. Len(L.gt)
Times(L, e) == L.gt[e] .. L.gt[e] + L.length[e] - 1

(* gaddes refuses GRIB1 and plain data templated on T only with members,   *)
(* and the documentation asks for the whole time axis where the name omits *)
(* E.                                                                      *)
ASSUME LayoutAssumption ==
  /\ IsFiniteSet(Slot)
  /\ MaxOpens \in Nat /\ MaxGone \in Nat /\ NamesFail \in BOOLEAN
  /\ Layout \in Seq(Layouts)
  /\ \A k \in DOMAIN Layout : LET L == Layout[k] IN
       /\ Len(L.gt) = Len(L.length) /\ L.gt # << >>
       /\ \A e \in Members(L) : Times(L, e) \subseteq 1 .. L.nt
       /\ L.tmplat = 1 /\ L.kind \in {"plain", "grib1"} => Len(L.gt) = 1
       /\ L.tmplat < 2 => \A e \in Members(L) : Times(L, e) = 1 .. L.nt

VARIABLES
  ds,        \* the open data sets
  opened,    \* gcmn.fseq: data sets opened so far
  sources,   \* history: openings so far
  handles,   \* data files the operating system has open for the program
  gone       \* data files the user has removed

filevars == <<ds, opened, sources, handles, gone>>

NoFile == <<-1, -1>>      \* infile and tempname are NULL
Unopened == <<-3, -3>>    \* infile is NULL, tempname is a name that failed
Dangling == <<-2, -2>>    \* infile or tempname points to what is released
NoSet == [fseq |-> 0, src |-> 0, lay |-> 0, fnumc |-> 0, fnume |-> 0,
          infile |-> NoFile]

IsOpen(d) == ds[d].lay # 0
Lay(f) == Layout[f.lay]
NoStream == {NoFile, Unopened, Dangling}
Holds(f) == IF f.infile \in NoStream THEN 0 ELSE 1

-----------------------------------------------------------------------------
(* Names.                                                                  *)

(* gafndt: what the name of a data file is made of. *)
Gafndt(L, t, e) == <<IF L.tmplat >= 2 THEN e ELSE 0,
                     IF L.tmplat \in {1, 3} THEN (t - 1) \div L.span ELSE 0>>

(* Mutant of Fnum: a name that changes does not begin another file.        *)
FnumFirst(L, t, e) == IF t \in Times(L, e) THEN L.gt[e] ELSE -1

(* fnums: the first of the member's times in a row that share t's name.    *)
Fnum(L, t, e) ==
  IF t \notin Times(L, e) THEN -1
  ELSE Min({u \in L.gt[e] .. t :
              \A w \in u .. t : Gafndt(L, w, e) = Gafndt(L, t, e)})

(* Plain files templated on E only hold the whole time axis, padded with   *)
(* missing values where the member has no data.                            *)
Padded(L) == L.kind = "plain" /\ L.tmplat = 2

(* Where the data files have the data: the file, and the place of t among  *)
(* the times it holds.                                                     *)
Place(f, t, e) ==
  LET L == Lay(f)
      times == IF Padded(L) THEN 1 .. L.nt ELSE Times(L, e)
  IN [src |-> f.src, name |-> Gafndt(L, t, e),
      tt |-> Cardinality({u \in times :
                            u <= t /\ Gafndt(L, u, e) = Gafndt(L, t, e)}),
      ee |-> IF L.tmplat < 2 THEN e ELSE 1]

Missing == [src |-> 0, name |-> NoFile, tt |-> 0, ee |-> 0]
Truth(f, t, e) == IF e \in Members(Lay(f)) /\ t \in Times(Lay(f), e)
                  THEN Place(f, t, e) ELSE Missing
Gone(f, t, e) == <<f.src, Gafndt(Lay(f), t, e)>> \in gone

-----------------------------------------------------------------------------
(* gaopfn.                                                                 *)

(* Mutants of Needs: members are told apart by their file's number only;   *)
(* the member is all that is looked at.                                    *)
NeedsTime(f, i, e) == i # f.fnumc
NeedsMember(f, i, e) == e # f.fnume

(* need_new_file *)
Needs(f, i, e) ==
  \/ Lay(f).tmplat = 3 /\ (i # f.fnumc \/ e # f.fnume)
  \/ Lay(f).tmplat = 2 /\ e # f.fnume
  \/ Lay(f).tmplat = 1 /\ i # f.fnumc

(* No file is the current one. *)
Forgotten(f) == [f EXCEPT !.fnumc = 0, !.fnume = 0]

(* The times of a padded file before its member's first, which gaopfn      *)
(* leaves out of its count.                                                *)
Late(f, e) == IF Padded(Lay(f)) THEN Lay(f).gt[e] - 1 ELSE 0

(* Mutants of FileGone and Shut: the file that could not be opened is the  *)
(* current one; the file before stays open.                                *)
FileKept(f, i, e) == [f EXCEPT !.fnumc = i, !.fnume = e, !.infile = Unopened]
ShutNone(f) == 0

FileGone(f, i, e) == [Forgotten(f) EXCEPT !.infile = Unopened]
Shut(f) == Holds(f)

(* No name for the file: the stream is closed and the old name released.   *)
Nameless(f) == [f EXCEPT !.infile = IF @ = NoFile THEN @ ELSE Dangling]

(* The outcomes of gaopfn: whether there is data to read, the data set,    *)
(* whether a file was opened and how many handles that took.               *)
Gaopfn(f, t, e) ==
  LET L == Lay(f)
      i == Fnum(L, t, e)
  IN IF L.tmplat = 0
     THEN {[rc |-> "read", file |-> f, oflg |-> FALSE, took |-> 0]}
     ELSE IF i = -1
     THEN {[rc |-> "missing", file |-> Forgotten(f), oflg |-> FALSE, took |-> 0]}
     ELSE IF ~Needs(f, i, e)
     THEN {[rc |-> "read", file |-> f, oflg |-> FALSE, took |-> 0]}
     ELSE IF f.infile = Dangling
     THEN {[rc |-> "undefined", file |-> f, oflg |-> FALSE, took |-> 0]}
     ELSE {IF Gone(f, t, e)
           THEN [rc |-> "missing", file |-> FileGone(f, i, e), oflg |-> FALSE,
                 took |-> -Shut(f)]
           ELSE [rc |-> "read",
                 file |-> [f EXCEPT !.fnumc = i, !.fnume = e,
                                    !.infile = Gafndt(L, t, e)],
                 oflg |-> TRUE, took |-> 1 - Shut(f)]}
          \cup {[rc |-> "error",
                 file |-> Nameless(f),
                 oflg |-> FALSE, took |-> -Shut(f)] : x \in {y \in {1} : NamesFail}}

(* tt and ee: where in the current file gaopfn says the request is.        *)
Relative(f, t, e) ==
  [src |-> f.src, name |-> f.infile,
   tt |-> IF Lay(f).tmplat = 0 THEN t ELSE 1 + t - f.fnumc,
   ee |-> IF Lay(f).tmplat < 2 THEN e ELSE 1]

(* Mutants of NextFseq and Freed: every file opened gets the same number;  *)
(* a data set that is closed keeps its file open.                          *)
SameFseq == 1
FreedNone(f) == 0

NextFseq == opened + 1
Freed(f) == Holds(f)

-----------------------------------------------------------------------------
(* Opening and closing a data set.                                         *)

(* The file number of the slot is free again, and so is its memory.        *)
OpenSet(d, k) ==
  LET L == Layout[k]
      single == L.tmplat = 0
      f == [fseq |-> NextFseq, src |-> sources + 1, lay |-> k, fnumc |-> 0,
            fnume |-> 0, infile |-> IF single THEN Gafndt(L, 1, 1) ELSE NoFile]
  IN /\ ~IsOpen(d) /\ sources < MaxOpens
     /\ opened' = NextFseq /\ sources' = sources + 1
     /\ ds' = [ds EXCEPT ![d] = f]
     /\ handles' = handles + Holds(f)
     /\ UNCHANGED gone

CloseSet(d) ==
  /\ IsOpen(d) /\ ds[d].infile # Dangling
  /\ ds' = [ds EXCEPT ![d] = NoSet]
  /\ handles' = handles - Freed(ds[d])
  /\ UNCHANGED <<opened, sources, gone>>

(* The user removes a file of an open data set.                            *)
Remove(d) ==
  /\ IsOpen(d) /\ Lay(ds[d]).tmplat > 0 /\ Cardinality(gone) < MaxGone
  /\ \E e \in Members(Lay(ds[d])) : \E t \in Times(Lay(ds[d]), e) :
       gone' = gone \cup {<<ds[d].src, Gafndt(Lay(ds[d]), t, e)>>}
  /\ gone' # gone
  /\ UNCHANGED <<ds, opened, sources, handles>>

FileInit ==
  /\ ds = [d \in Slot |-> NoSet]
  /\ opened = 0 /\ sources = 0 /\ handles = 0 /\ gone = {}

(* An open data set has at most one file open, and a closed one none: no   *)
(* switch, failed open or close leaves a stream behind or loses one.       *)
OneFileOpen == handles = Cardinality({d \in Slot : Holds(ds[d]) = 1})
=============================================================================
