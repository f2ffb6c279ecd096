--------------------------- MODULE Session_proofs ---------------------------
(* Proofs about Session and the FileList it extends, for every value of    *)
(* their constants: any number of files, variables, options and steps.     *)
EXTENDS Session, SequenceTheorems, Induction, TLAPS

LEMMA FrontOfSeq ==
  ASSUME NEW S, NEW s \in Seq(S), s # << >>
  PROVE  /\ SubSeq(s, 1, Len(s) - 1) \in Seq(S)
         /\ Len(SubSeq(s, 1, Len(s) - 1)) = Len(s) - 1
         /\ \A i \in 1 .. Len(s) - 1 : SubSeq(s, 1, Len(s) - 1)[i] = s[i]
  <1>1. Len(s) \in Nat /\ Len(s) > 0
    BY EmptySeq, LenProperties
  <1>2. \A i \in 1 .. Len(s) - 1 : s[i] \in S
    BY <1>1, ElementOfSeq
  <1> DEFINE n == Len(s) - 1
  <1>3. 1 \in Int /\ n \in Int
    BY <1>1
  <1>4. /\ SubSeq(s, 1, n) \in Seq(S)
        /\ Len(SubSeq(s, 1, n)) = IF 1 <= n THEN n - 1 + 1 ELSE 0
        /\ \A i \in 1 .. n - 1 + 1 : SubSeq(s, 1, n)[i] = s[1 + i - 1]
    <2> HIDE DEF n
    <2>1. \A i \in 1 .. n : s[i] \in S
      BY <1>2 DEF n
    <2>2. QED
      BY <1>3, <2>1, SubSeqProperties
  <1>0. n \in Nat
    BY <1>1
  <1>5. (IF 1 <= n THEN n - 1 + 1 ELSE 0) = n
    <2> HIDE DEF n
    <2>1. QED
      BY <1>0
  <1>6. \A i \in 1 .. n - 1 + 1 : 1 + i - 1 = i
    OBVIOUS
  <1>7. n - 1 + 1 = n
    BY <1>3
  <1>8. QED
    BY <1>4, <1>5, <1>6, <1>7

LEMMA TailOfSeq ==
  ASSUME NEW S, NEW s \in Seq(S), s # << >>
  PROVE  /\ Tail(s) \in Seq(S) /\ Len(Tail(s)) = Len(s) - 1
         /\ \A i \in 1 .. Len(s) - 1 : Tail(s)[i] = s[i + 1]
  BY HeadTailProperties

LEMMA AppendToSeq ==
  ASSUME NEW S, NEW s \in Seq(S), NEW x \in S
  PROVE  /\ Append(s, x) \in Seq(S) /\ Len(Append(s, x)) = Len(s) + 1
         /\ \A i \in 1 .. Len(s) : Append(s, x)[i] = s[i]
         /\ Append(s, x)[Len(s) + 1] = x
  BY AppendProperties

LEMMA FrontOfAppend ==
  ASSUME NEW S, NEW s \in Seq(S), NEW x \in S
  PROVE  SubSeq(Append(s, x), 1, Len(Append(s, x)) - 1) = s
  <1>1. Append(s, x) # << >> /\ Len(Append(s, x)) - 1 = Len(s)
    BY AppendToSeq, EmptySeq, LenProperties
  <1>2. QED
    BY <1>1, AppendToSeq, FrontOfSeq, SeqEqual

-----------------------------------------------------------------------------
(* The files.                                                              *)

(* The four conditions on the files go together: a close looks for the     *)
(* default file by its number, and a calendar is set and tested by files   *)
(* of the same calendar.                                                   *)
FilesInv == FilesTypeOK /\ DefaultFileOpen /\ OneCalendar /\ RefusedByOpenFiles

LEMMA CalendarInEffect ==
  ASSUME FilesInv, files # << >>
  PROVE  cal365 \in Calendars /\ CalFree = cal365
  <1>1. Len(files) \in Nat \ {0} /\ files[1] \in File
    BY EmptySeq, LenProperties, ElementOfSeq DEF FilesInv, FilesTypeOK
  <1>2. QED
    BY <1>1 DEF FilesInv, OneCalendar, File, CalFree

LEMMA InitFiles ==
  ASSUME FileAssumption, FileInit
  PROVE  FilesInv
  <1>b. refused \in BOOLEAN
    BY DEF FileInit
  <1>1. files = << >> /\ files \in Seq(File) /\ Len(files) = 0
    BY EmptySeq DEF FileInit
  <1>2. FilesTypeOK
    BY <1>b, <1>1 DEF FileAssumption, FileInit, FilesTypeOK
  <1>3. QED
    BY <1>1, <1>2 DEF FileInit, FilesInv, DefaultFileOpen, OneCalendar, RefusedByOpenFiles

LEMMA OpenFails_Files ==
  ASSUME FileAssumption, FilesInv, NEW c \in Calendars,
         OpenRefused(c) \/ OpenFails(c)
  PROVE  FilesInv'
  <1>1. cal365' \in Calendars \cup {NoCal}
    BY DEF FilesInv, FilesTypeOK, OpenRefused, OpenFails, CalFree
  <1>2. files # << >> => cal365' = cal365
    BY CalendarInEffect DEF OpenRefused, OpenFails, Calendars, NoCal
  <1>3. refused' => files # << >>
    BY DEF OpenRefused, OpenFails, CalFree
  <1>4. UNCHANGED <<files, pfid, dfnum, defs, datagen, vdim, asked, made>>
        /\ refused' \in BOOLEAN
    BY DEF OpenRefused, OpenFails
  <1>5. OneCalendar'
    BY <1>2, <1>4 DEF FilesInv, OneCalendar, FilesTypeOK
  <1>6. QED
    BY <1>1, <1>3, <1>4, <1>5
    DEF FilesInv, FilesTypeOK, DefaultFileOpen, RefusedByOpenFiles

LEMMA XdfOpenFails_Files ==
  ASSUME FileAssumption, FilesInv, NEW c \in Calendars, XdfOpenFails(c)
  PROVE  FilesInv'
  <1>1. files' = files
    <2>1. [own |-> made + 1, cal |-> c] \in File /\ files \in Seq(File)
      BY DEF File, FilesInv, FilesTypeOK
    <2>2. QED
      BY <2>1, FrontOfAppend DEF XdfOpenFails, Unchain, Chained
  <1>2. cal365' \in Calendars \cup {NoCal}
    BY DEF FilesInv, FilesTypeOK, XdfOpenFails, CalFree
  <1>3. files # << >> => cal365' = cal365
    BY CalendarInEffect DEF XdfOpenFails, Calendars, NoCal
  <1>4. DefaultFileOpen' /\ pfid' \in Nat /\ dfnum' \in Int /\ dfnum' <= Len(files')
    BY <1>1 DEF XdfOpenFails, FilesInv, FilesTypeOK, DefaultFileOpen
  <1>5. OneCalendar'
    BY <1>1, <1>3 DEF FilesInv, OneCalendar, FilesTypeOK
  <1>6. QED
    BY <1>1, <1>2, <1>4, <1>5
    DEF XdfOpenFails, FilesInv, FilesTypeOK, RefusedByOpenFiles

LEMMA OpenFile_Files ==
  ASSUME FileAssumption, FilesInv, NEW c \in Calendars, OpenFile(c)
  PROVE  FilesInv'
  <1> DEFINE f == [own |-> made + 1, cal |-> c]
  <1>1. f \in File /\ files \in Seq(File) /\ Len(files) \in Nat
    BY LenProperties DEF File, FilesInv, FilesTypeOK
  <1>2. files' = Append(files, f) /\ cal365' = c /\ f.cal = c /\ f.own = made + 1
    BY DEF OpenFile, Chained
  <1>3. /\ files' \in Seq(File) /\ Len(files') = Len(files) + 1
        /\ \A i \in 1 .. Len(files) : files'[i] = files[i]
        /\ files'[Len(files) + 1] = f
    BY <1>1, <1>2, AppendToSeq
  <1>4. files # << >> => cal365 = c
    BY CalendarInEffect DEF OpenFile, Calendars, NoCal
  <1>5. OneCalendar'
    <2>1. SUFFICES ASSUME NEW i \in 1 .. Len(files')
                   PROVE  files'[i].cal = c
      BY <1>2 DEF OneCalendar
    <2>2. CASE i = Len(files) + 1
      BY <2>2, <1>2, <1>3
    <2>3. CASE i \in 1 .. Len(files)
      BY <2>3, <1>1, <1>3, <1>4, EmptySeq DEF FilesInv, OneCalendar
    <2>4. QED
      BY <2>2, <2>3, <1>1, <1>3
  <1>6. DefaultFileOpen' /\ pfid' \in Nat /\ dfnum' \in Int /\ dfnum' <= Len(files')
    <2>1. files' # << >>
      BY <1>1, <1>3, EmptySeq
    <2>2. CASE files = << >>
      <3>1. Len(files) = 0 /\ pfid' = made + 1 /\ dfnum' = 1
        BY <2>2, EmptySeq DEF OpenFile
      <3>2. files'[1].own = made + 1
        BY <3>1, <1>2, <1>3
      <3>3. QED
        BY <3>1, <3>2, <2>1, <1>3 DEF DefaultFileOpen, FilesInv, FilesTypeOK
    <2>3. CASE files # << >>
      <3>1. Len(files) > 0 /\ pfid' = pfid /\ dfnum' = dfnum
        BY <2>3, <1>1, EmptySeq DEF OpenFile
      <3>2. (IF dfnum < 1 THEN 1 ELSE dfnum) \in 1 .. Len(files)
        BY <3>1, <1>1 DEF FilesInv, FilesTypeOK
      <3>3. pfid = files[IF dfnum < 1 THEN 1 ELSE dfnum].own
        BY <2>3 DEF FilesInv, DefaultFileOpen
      <3>4. QED
        BY <3>1, <3>2, <3>3, <2>1, <1>1, <1>3 DEF DefaultFileOpen, FilesInv, FilesTypeOK
    <2>4. QED
      BY <2>2, <2>3
  <1>7. /\ vdim' \subseteq LoopDims /\ asked' \subseteq LoopDims
        /\ made' \in 0 .. MaxObj /\ Len(files') <= MaxFiles
        /\ defs' \in [Name -> Nat] /\ datagen' \in Nat /\ refused' = FALSE
    BY <1>1, <1>3 DEF OpenFile, FilesInv, FilesTypeOK, FileAssumption
  <1>8. QED
    BY <1>2, <1>3, <1>5, <1>6, <1>7 DEF FilesInv, FilesTypeOK, RefusedByOpenFiles

LEMMA SetDfile_Files ==
  ASSUME FileAssumption, FilesInv, NEW n \in 0 .. MaxFiles, SetDfile(n)
  PROVE  FilesInv'
  <1>b. refused' \in BOOLEAN
    BY DEF SetDfile
  <1>1. Len(files) \in Nat /\ (files = << >> => Len(files) = 0)
        /\ (files # << >> => Len(files) > 0)
    BY LenProperties, EmptySeq DEF FilesInv, FilesTypeOK
  <1>2. files # << >>
    BY DEF SetDfile, FilesInv, DefaultFileOpen
  <1>3. (IF n < 1 THEN 1 ELSE n) \in 1 .. Len(files)
    BY <1>1, <1>2 DEF SetDfile, FileAssumption
  <1>4. pfid' \in Nat
    <2>1. files[IF n < 1 THEN 1 ELSE n] \in File
      BY <1>3, ElementOfSeq DEF FilesInv, FilesTypeOK
    <2>2. QED
      BY <2>1 DEF SetDfile, File
  <1>5. QED
    BY <1>b, <1>2, <1>4
    DEF SetDfile, FilesInv, FilesTypeOK, DefaultFileOpen, OneCalendar, RefusedByOpenFiles

LEMMA Close_Files ==
  ASSUME FileAssumption, FilesInv, Close
  PROVE  FilesInv'
  <1>b. refused' \in BOOLEAN
    BY DEF Close
  <1>1. /\ files \in Seq(File) /\ files # << >> /\ Len(files) \in Nat /\ Len(files) > 0
        /\ files' = SubSeq(files, 1, Len(files) - 1)
    BY LenProperties, EmptySeq DEF FilesInv, FilesTypeOK, Close, CloseLast
  <1>2. /\ files' \in Seq(File) /\ Len(files') = Len(files) - 1
        /\ \A i \in 1 .. Len(files) - 1 : files'[i] = files[i]
    BY <1>1, FrontOfSeq
  <1>3. files[1] \in File
    BY <1>1, ElementOfSeq
  <1>a. files[1].own \in Nat
    BY <1>3 DEF File
  <1>4. CASE Len(files) = 1
    <2>1. files' = << >> /\ Len(files') = 0 /\ pfid' = 0 /\ dfnum' = 0 /\ cal365' = NoCal
      BY <1>2, <1>4, EmptySeq DEF Close, CloseLast
    <2>2. QED
      BY <1>b, <1>1, <1>2, <1>4, <2>1
      DEF Close, CloseLast, FilesInv, FilesTypeOK, DefaultFileOpen, OneCalendar,
          RefusedByOpenFiles
  <1>5. CASE Len(files) # 1
    <2>0. Len(files) - 1 >= 1
      <3>1. Len(files) \in Nat /\ Len(files) > 0
        BY <1>1
      <3> DEFINE n == Len(files)
      <3>2. n \in Nat /\ n > 0 /\ n # 1
        BY <3>1, <1>5
      <3> HIDE DEF n
      <3>3. n - 1 >= 1
        BY <3>2
      <3>4. QED
        BY <3>3 DEF n
    <2>a. files' # << >>
      BY <1>2, <2>0, EmptySeq
    <2>1. files' # << >> /\ Len(files') >= 1 /\ files'[1] = files[1] /\ cal365' = cal365
      BY <1>2, <1>5, <2>0, <2>a DEF Close, CloseLast
    <2>2. OneCalendar'
      BY <1>1, <1>2, <2>1 DEF FilesInv, OneCalendar
    <2>3. DefaultFileOpen' /\ pfid' \in Nat /\ dfnum' \in Int /\ dfnum' <= Len(files')
      <3>1. CASE dfnum = Len(files)
        BY <1>1, <1>2, <1>a, <1>5, <2>1, <3>1 DEF Close, CloseLast, DefaultFileOpen
      <3>2. CASE dfnum # Len(files)
        <4>1. pfid' = pfid /\ dfnum' = dfnum /\ dfnum \in Int /\ dfnum < Len(files)
          BY <1>1, <1>5, <3>2 DEF Close, CloseLast, FilesInv, FilesTypeOK
        <4>2. (IF dfnum < 1 THEN 1 ELSE dfnum) \in 1 .. Len(files) - 1
          <5> DEFINE n == Len(files)
          <5>1. n \in Nat /\ n - 1 >= 1 /\ dfnum < n /\ dfnum \in Int
            BY <1>1, <2>0, <4>1
          <5> HIDE DEF n
          <5>2. (IF dfnum < 1 THEN 1 ELSE dfnum) \in 1 .. n - 1
            BY <5>1
          <5>3. QED
            BY <5>2 DEF n
        <4>3. pfid = files[IF dfnum < 1 THEN 1 ELSE dfnum].own
          BY <1>1 DEF FilesInv, DefaultFileOpen
        <4>4. QED
          BY <1>1, <1>2, <2>1, <4>1, <4>2, <4>3 DEF DefaultFileOpen, FilesInv, FilesTypeOK
      <3>3. QED
        BY <3>1, <3>2
    <2>4. QED
      BY <1>b, <1>1, <1>2, <2>1, <2>2, <2>3
      DEF Close, CloseLast, FilesInv, FilesTypeOK, RefusedByOpenFiles
  <1>6. QED
    BY <1>4, <1>5

LEMMA ResetFiles_Files ==
  ASSUME FileAssumption, FilesInv, ResetFiles
  PROVE  FilesInv'
  <1>b. refused' \in BOOLEAN
    BY DEF ResetFiles
  <1>1. CASE files = << >>
    BY <1>b, <1>1
    DEF ResetFiles, FilesInv, FilesTypeOK, DefaultFileOpen, OneCalendar, RefusedByOpenFiles
  <1>2. CASE files # << >>
    <2>1. Len(files) \in Nat \ {0} /\ files[1] \in File
      BY <1>2, LenProperties, EmptySeq, ElementOfSeq DEF FilesInv, FilesTypeOK
    <2>2. files[1].own \in Nat
      BY <2>1 DEF File
    <2>3. QED
      BY <1>b, <1>2, <2>1, <2>2
      DEF ResetFiles, FilesInv, FilesTypeOK, DefaultFileOpen, OneCalendar, RefusedByOpenFiles
  <1>3. QED
    BY <1>1, <1>2

LEMMA ReinitFiles_Files ==
  ASSUME FileAssumption, FilesInv, ReinitFiles
  PROVE  FilesInv'
  <1>b. refused' \in BOOLEAN
    BY DEF ReinitFiles
  <1>1. files' = << >> /\ files' \in Seq(File) /\ Len(files') = 0
    BY EmptySeq DEF ReinitFiles
  <1>2. QED
    BY <1>b, <1>1
    DEF FileAssumption, ReinitFiles, FilesInv, FilesTypeOK, DefaultFileOpen, OneCalendar,
        RefusedByOpenFiles

LEMMA Variables_Files ==
  ASSUME FileAssumption, FilesInv,
         \/ \E d \in SUBSET Dims : SetDims(d)
         \/ \E v \in Name : Define(v) \/ Undefine(v)
         \/ DefineFails
  PROVE  FilesInv'
  <1>1. /\ UNCHANGED <<files, pfid, dfnum, cal365>>
        /\ refused' = FALSE
    BY DEF SetDims, Define, Undefine, DefineFails
  <1>2. CASE \E d \in SUBSET Dims : SetDims(d)
    BY <1>1, <1>2
    DEF SetDims, FileAssumption, FilesInv, FilesTypeOK, DefaultFileOpen, OneCalendar,
        RefusedByOpenFiles
  <1>3. CASE \E v \in Name : Define(v) \/ Undefine(v)
    <2>1. /\ defs' \in [Name -> Nat] /\ datagen' \in Nat /\ made' \in 0 .. MaxObj
          /\ UNCHANGED <<vdim, asked>>
      BY <1>3
      DEF Define, Redefine, Undefine, FileAssumption, FilesInv, FilesTypeOK
    <2>2. QED
      BY <1>1, <2>1 DEF FilesInv, FilesTypeOK, DefaultFileOpen, OneCalendar, RefusedByOpenFiles
  <1>4. CASE DefineFails
    BY <1>1, <1>4
    DEF DefineFails, KeptDims, FilesInv, FilesTypeOK, DefaultFileOpen, OneCalendar,
        RefusedByOpenFiles
  <1>5. QED
    BY <1>2, <1>3, <1>4

LEMMA Housekeeping_Files ==
  ASSUME FileAssumption, FilesInv, Housekeeping
  PROVE  FilesInv'
  BY OpenFails_Files, XdfOpenFails_Files, OpenFile_Files, SetDfile_Files, Close_Files,
     Variables_Files
  DEF Housekeeping

(* The commands that leave the files alone.                                *)
LEMMA Others_Files ==
  ASSUME SessionAssumption, FileAssumption, FilesInv,
         \/ BeginCommand \/ EndCommand \/ Undo
         \/ (\E id \in Live : Display(id)) \/ DisplayOwn
         \/ (\E norset \in BOOLEAN : Clear(norset)) \/ CleanOnly
         \/ (\E o \in Opt, v \in Val : SetOption(o, v))
         \/ (\E n \in Limits : SetUndo(n))
         \/ UNCHANGED vars
  PROVE  FilesInv'
  <1>1. UNCHANGED <<files, pfid, dfnum, cal365, defs, datagen, vdim, asked>>
    BY DEF BeginCommand, EndCommand, Undo, Display, DisplayOwn, Clear, CleanOnly,
           SetOption, SetUndo, vars, filevars
  <1>2. made' \in 0 .. MaxObj
    <2>1. CASE DisplayOwn
      BY <2>1 DEF DisplayOwn, FilesInv, FilesTypeOK, FileAssumption
    <2>2. CASE ~DisplayOwn
      <3>1. made' = made
        BY <2>2 DEF BeginCommand, EndCommand, Undo, Display, Clear, CleanOnly,
                    SetOption, SetUndo, vars, filevars
      <3>2. QED
        BY <3>1 DEF FilesInv, FilesTypeOK
    <2>3. QED
      BY <2>1, <2>2
  <1>3. refused' = FALSE \/ refused' = refused
    BY DEF BeginCommand, EndCommand, Undo, Display, DisplayOwn, Clear, CleanOnly,
           SetOption, SetUndo, vars, filevars
  <1>4. refused' \in BOOLEAN /\ (refused' => refused)
    <2>1. refused \in BOOLEAN
      BY DEF FilesInv, FilesTypeOK
    <2>2. CASE refused' = FALSE
      BY <2>2
    <2>3. CASE refused' = refused
      BY <2>1, <2>3
    <2>4. QED
      BY <1>3, <2>2, <2>3
  <1>5. QED
    BY <1>1, <1>2, <1>4
    DEF FilesInv, FilesTypeOK, DefaultFileOpen, OneCalendar, RefusedByOpenFiles

LEMMA Next_Files ==
  ASSUME SessionAssumption, FileAssumption, FilesInv, [Next]_vars
  PROVE  FilesInv'
  <1>1. CASE KeepHouse
    BY <1>1, Housekeeping_Files DEF KeepHouse
  <1>2. CASE \E all \in BOOLEAN : Reset(all)
    BY <1>2, ResetFiles_Files, ReinitFiles_Files DEF Reset
  <1>3. CASE ~KeepHouse /\ ~(\E all \in BOOLEAN : Reset(all))
    BY <1>3, Others_Files DEF Next
  <1>4. QED
    BY <1>1, <1>2, <1>3

LEMMA FilesAlways == Spec => []FilesInv
  <1>1. Init => FilesInv
    BY FileAssumption, InitFiles DEF Init
  <1>2. FilesInv /\ [Next]_vars => FilesInv'
    BY SessionAssumption, FileAssumption, Next_Files
  <1>3. QED
    BY <1>1, <1>2, PTL DEF Spec

(* After any opens, failed opens, closes, resets and reinits the default   *)
(* file is an open one and the one its number says (gaopen, gaxdfopen, the *)
(* close command): DefaultFileOpen.                                        *)
THEOREM DefaultFileAlwaysOpen == Spec => []DefaultFileOpen
  <1>1. FilesInv => DefaultFileOpen
    BY DEF FilesInv
  <1>2. QED
    BY <1>1, FilesAlways, PTL

(* Files of two calendars are never open together, whichever open failed   *)
(* in between (cal365 in gaddes and gaxdfopen): OneCalendar.               *)
THEOREM CalendarIsShared == Spec => []OneCalendar
  <1>1. FilesInv => OneCalendar
    BY DEF FilesInv
  <1>2. QED
    BY <1>1, FilesAlways, PTL

(* No open is refused for a calendar that no open file has (gacalfree):    *)
(* RefusedByOpenFiles.                                                     *)
THEOREM OnlyOpenFilesRefuse == Spec => []RefusedByOpenFiles
  <1>1. FilesInv => RefusedByOpenFiles
    BY DEF FilesInv
  <1>2. QED
    BY <1>1, FilesAlways, PTL

-----------------------------------------------------------------------------
(* The picture, the options and the steps kept.                            *)

PlotTyped  == opts \in [Opt -> Nat] /\ env \in [on : BOOLEAN, own : Nat]
FlagsTyped == /\ marked \in BOOLEAN /\ drew \in BOOLEAN /\ blank \in BOOLEAN
              /\ wasblank \in BOOLEAN /\ running \in BOOLEAN
StackTyped ==
  /\ undolim \in Limits \cup {0}
  /\ undostk \in Seq(Step) /\ Len(undostk) <= undolim
  /\ undobefore \in Seq(Snap) /\ Len(undobefore) <= 1
  /\ marked => undolim > 0
Counts == cmds \in 0 .. MaxCmd /\ subs \in 0 .. MaxSub

(* A step is kept only while some may be: this makes the types inductive.  *)
SessInv == FilesInv /\ PlotTyped /\ FlagsTyped /\ StackTyped /\ Counts

LEMMA LiveAreNumbers ==
  ASSUME FilesTypeOK
  PROVE  Live \subseteq Nat
  <1>1. Owners(files) \subseteq Nat
    <2>1. SUFFICES ASSUME NEW i \in 1 .. Len(files)
                   PROVE  files[i].own \in Nat
      BY DEF Owners
    <2>2. files[i] \in File
      BY ElementOfSeq DEF FilesTypeOK
    <2>3. QED
      BY <2>2 DEF File
  <1>2. {defs[v] : v \in Name} \subseteq Nat
    BY DEF FilesTypeOK
  <1>3. QED
    BY <1>1, <1>2 DEF Live

LEMMA SavedTyped ==
  ASSUME FilesTypeOK, PlotTyped
  PROVE  Saved \in Snap
  <1>1. (env.on => env.own \in Live) \in BOOLEAN
    OBVIOUS
  <1>2. datagen \in Nat
    BY DEF FilesTypeOK
  <1>3. QED
    BY <1>1, <1>2 DEF Saved, Snap, PlotTyped

LEMMA StepTyped ==
  ASSUME NEW i \in 1 .. Len(undostk), StackTyped
  PROVE  /\ undostk[i] \in Step
         /\ undostk[i].before \in Snap /\ undostk[i].after \in Snap
         /\ undostk[i].blank \in BOOLEAN
  <1>1. undostk[i] \in Step
    BY ElementOfSeq DEF StackTyped
  <1>2. QED
    BY <1>1 DEF Step

LEMMA LimitIsNat ==
  ASSUME SessionAssumption, StackTyped
  PROVE  undolim \in Nat /\ Len(undostk) \in Nat
  BY LenProperties DEF SessionAssumption, StackTyped

LEMMA InitTyped ==
  ASSUME FileAssumption, SessionAssumption, Init
  PROVE  SessInv
  <1>1. FilesInv
    BY InitFiles DEF Init
  <1>2. PlotTyped
    BY DEF Init, PlotTyped, Defaults, NoEnv
  <1>3. FlagsTyped
    BY DEF Init, FlagsTyped
  <1>4. StackTyped
    <2>1. /\ undostk = << >> /\ undostk \in Seq(Step) /\ Len(undostk) = 0
          /\ undobefore = << >> /\ undobefore \in Seq(Snap) /\ Len(undobefore) = 0
          /\ undolim = 0
      BY EmptySeq DEF Init
    <2>2. ~marked
      BY DEF Init
    <2>3. QED
      BY <2>1, <2>2 DEF StackTyped
  <1>5. Counts
    BY DEF Init, Counts, SessionAssumption
  <1>6. QED
    BY <1>1, <1>2, <1>3, <1>4, <1>5 DEF SessInv

LEMMA CountsStay ==
  ASSUME SessionAssumption, Counts, [Next]_vars
  PROVE  Counts'
  <1>1. CASE BeginCommand \/ Undo
    BY <1>1 DEF BeginCommand, Undo, Counts, SessionAssumption
  <1>2. CASE EndCommand \/ UNCHANGED vars
    BY <1>2 DEF EndCommand, Counts, vars
  <1>3. CASE Sub
    BY <1>3 DEF Sub, Counts, SessionAssumption
  <1>4. QED
    BY <1>1, <1>2, <1>3
    DEF Next, Display, DisplayOwn, Clear, CleanOnly, SetOption, KeepHouse, SetUndo, Reset

LEMMA FlagsStay ==
  ASSUME FlagsTyped, StackTyped, [Next]_vars
  PROVE  FlagsTyped'
  <1>1. CASE BeginCommand
    <2>1. marked' = (undolim > 0)
      BY <1>1 DEF BeginCommand
    <2>2. marked' \in BOOLEAN
      BY <2>1
    <2>3. /\ drew' \in BOOLEAN /\ blank' \in BOOLEAN /\ wasblank' \in BOOLEAN
          /\ running' \in BOOLEAN
      BY <1>1 DEF BeginCommand, FlagsTyped
    <2>4. QED
      BY <2>2, <2>3 DEF FlagsTyped
  <1>2. CASE EndCommand
    BY <1>2 DEF EndCommand, FlagsTyped
  <1>3. CASE Undo
    <2>1. undostk # << >> /\ blank' = undostk[Len(undostk)].blank
      BY <1>3 DEF Undo
    <2>2. Len(undostk) \in 1 .. Len(undostk)
      BY <2>1, EmptySeq, LenProperties DEF StackTyped
    <2>3. blank' \in BOOLEAN
      BY <2>1, <2>2, StepTyped
    <2>4. QED
      BY <1>3, <2>3 DEF Undo, FlagsTyped
  <1>4. CASE (\E id \in Live : Display(id)) \/ DisplayOwn
    BY <1>4 DEF Display, DisplayOwn, Sub, FlagsTyped
  <1>5. CASE \E norset \in BOOLEAN : Clear(norset)
    BY <1>5 DEF Clear, Sub, FlagsTyped
  <1>6. CASE CleanOnly \/ KeepHouse \/ \E o \in Opt, v \in Val : SetOption(o, v)
    BY <1>6 DEF CleanOnly, KeepHouse, SetOption, Sub, FlagsTyped, undovars
  <1>7. CASE \E n \in Limits : SetUndo(n)
    BY <1>7 DEF SetUndo, ForgetSteps, Sub, FlagsTyped
  <1>8. CASE \E all \in BOOLEAN : Reset(all)
    BY <1>8 DEF Reset, ForgetSteps, Sub, FlagsTyped
  <1>9. CASE UNCHANGED vars
    BY <1>9 DEF vars, sessvars, undovars, FlagsTyped
  <1>10. QED
    BY <1>1, <1>2, <1>3, <1>4, <1>5, <1>6, <1>7, <1>8, <1>9 DEF Next

LEMMA PlotStays ==
  ASSUME SessionAssumption, FilesInv, PlotTyped, StackTyped, [Next]_vars
  PROVE  PlotTyped'
  <1>a. Defaults \in [Opt -> Nat]
    BY DEF Defaults
  <1>b. [env EXCEPT !.on = FALSE] \in [on : BOOLEAN, own : Nat]
    BY DEF PlotTyped
  <1>1. CASE \E id \in Live : Display(id)
    <2>1. PICK id \in Live : Display(id)
      BY <1>1
    <2>2. id \in Nat
      BY LiveAreNumbers DEF FilesInv
    <2>3. QED
      BY <2>1, <2>2 DEF Display, PlotTyped
  <1>2. CASE DisplayOwn
    <2>1. made + 1 \in Nat
      BY DEF FilesInv, FilesTypeOK
    <2>2. QED
      BY <1>2, <2>1 DEF DisplayOwn, PlotTyped
  <1>3. CASE CleanOnly \/ \E norset \in BOOLEAN : Clear(norset)
    <2>1. PICK reset \in BOOLEAN : Gacln(reset)
      BY <1>3 DEF CleanOnly, Clear
    <2>2. QED
      BY <1>a, <1>b, <2>1 DEF Gacln, PlotTyped
  <1>4. CASE \E o \in Opt, v \in Val : SetOption(o, v)
    BY <1>4 DEF SetOption, PlotTyped, SessionAssumption
  <1>5. CASE \E all \in BOOLEAN : Reset(all)
    BY <1>a, <1>b, <1>5 DEF Reset, PlotTyped
  <1>6. CASE Undo
    <2> DEFINE s == undostk[Len(undostk)]
    <2>1. Len(undostk) \in 1 .. Len(undostk)
      BY <1>6, EmptySeq, LenProperties DEF Undo, StackTyped
    <2>2. s.before \in Snap /\ s.after \in Snap
      BY <2>1, StepTyped
    <2>3. s.before.opts \in [Opt -> Nat] /\ s.before.env \in [on : BOOLEAN, own : Nat]
      BY <2>2 DEF Snap
    <2>4. \/ UNCHANGED <<opts, env>>
          \/ /\ opts' = [o \in Opt |-> OptionBack(o, s.before, s.after)]
             /\ env' = EnvBack(s.before, s.after)
      BY <1>6 DEF Undo
    <2> HIDE DEF s
    <2>5. \A o \in Opt : OptionBack(o, s.before, s.after) \in Nat
      BY <2>3 DEF OptionBack, PlotTyped
    <2>6. EnvBack(s.before, s.after) \in [on : BOOLEAN, own : Nat]
      BY <2>3 DEF EnvBack, PlotTyped
    <2>7. QED
      BY <2>4, <2>5, <2>6 DEF PlotTyped
  <1>7. CASE \/ BeginCommand \/ EndCommand \/ KeepHouse \/ UNCHANGED vars
             \/ \E n \in Limits : SetUndo(n)
    BY <1>7 DEF BeginCommand, EndCommand, KeepHouse, SetUndo, vars, sessvars, PlotTyped
  <1>8. QED
    BY <1>1, <1>2, <1>3, <1>4, <1>5, <1>6, <1>7 DEF Next

LEMMA NewStepsTyped ==
  ASSUME FilesTypeOK, PlotTyped, FlagsTyped, StackTyped, NEW s \in NewSteps
  PROVE  s \in Step
  <1>1. Saved \in Snap /\ wasblank \in BOOLEAN
    BY SavedTyped DEF FlagsTyped
  <1>2. CASE undobefore # << >> /\ s = NewStep(undobefore[1])
    <2>1. undobefore[1] \in Snap
      BY <1>2, EmptySeq, LenProperties, ElementOfSeq DEF StackTyped
    <2>2. QED
      BY <1>1, <1>2, <2>1 DEF NewStep, Step
  <1>3. CASE s = BareStep
    BY <1>1, <1>3 DEF BareStep, Step
  <1>4. QED
    BY <1>2, <1>3 DEF NewSteps

(* The stack after a step is kept: within its limit, and of old steps and  *)
(* the new one.                                                            *)
LEMMA KeepStepStack ==
  ASSUME SessionAssumption, StackTyped, marked, NEW s \in Step, KeepStep(s)
  PROVE  /\ undostk' \in Seq(Step) /\ Len(undostk') <= undolim
         /\ \A i \in 1 .. Len(undostk') :
              undostk'[i] = s \/ \E j \in 1 .. Len(undostk) : undostk'[i] = undostk[j]
  <1> DEFINE rest == IF Len(undostk) = undolim THEN Tail(undostk) ELSE undostk
  <1>1. /\ undolim \in Nat /\ Len(undostk) \in Nat /\ Len(undostk) <= undolim
        /\ undolim > 0 /\ undostk \in Seq(Step)
    BY LimitIsNat DEF StackTyped
  <1>2. /\ rest \in Seq(Step) /\ Len(rest) \in Nat /\ Len(rest) < undolim
        /\ \A i \in 1 .. Len(rest) : \E j \in 1 .. Len(undostk) : rest[i] = undostk[j]
    <2>1. CASE Len(undostk) = undolim
      <3>1. undostk # << >>
        BY <1>1, <2>1, EmptySeq
      <3>2. /\ rest = Tail(undostk) /\ rest \in Seq(Step)
            /\ Len(rest) = Len(undostk) - 1
            /\ \A i \in 1 .. Len(undostk) - 1 : rest[i] = undostk[i + 1]
        BY <1>1, <2>1, <3>1, TailOfSeq
      <3>3. \A i \in 1 .. Len(rest) : i + 1 \in 1 .. Len(undostk)
        BY <1>1, <3>2
      <3>4. QED
        BY <1>1, <2>1, <3>2, <3>3
    <2>2. CASE Len(undostk) # undolim
      BY <1>1, <2>2
    <2>3. QED
      BY <2>1, <2>2
  <1>3. undostk' = Append(rest, s)
    BY DEF KeepStep
  <1> HIDE DEF rest
  <1>4. /\ undostk' \in Seq(Step) /\ Len(undostk') = Len(rest) + 1
        /\ \A i \in 1 .. Len(rest) : undostk'[i] = rest[i]
        /\ undostk'[Len(rest) + 1] = s
    BY <1>2, <1>3, AppendToSeq
  <1>5. Len(undostk') <= undolim
    BY <1>1, <1>2, <1>4
  <1>6. ASSUME NEW i \in 1 .. Len(undostk')
        PROVE  undostk'[i] = s \/ \E j \in 1 .. Len(undostk) : undostk'[i] = undostk[j]
    <2>1. i = Len(rest) + 1 \/ i \in 1 .. Len(rest)
      BY <1>2, <1>4
    <2>2. QED
      BY <2>1, <1>2, <1>4
  <1>7. QED
    BY <1>4, <1>5, <1>6

LEMMA UndoStack ==
  ASSUME StackTyped, Undo
  PROVE  /\ undostk' \in Seq(Step) /\ Len(undostk') = Len(undostk) - 1
         /\ \A i \in 1 .. Len(undostk') :
              i \in 1 .. Len(undostk) /\ undostk'[i] = undostk[i]
  <1>1. /\ undostk \in Seq(Step) /\ undostk # << >> /\ Len(undostk) \in Nat
        /\ undostk' = SubSeq(undostk, 1, Len(undostk) - 1)
    BY LenProperties DEF StackTyped, Undo
  <1>2. /\ undostk' \in Seq(Step) /\ Len(undostk') = Len(undostk) - 1
        /\ \A i \in 1 .. Len(undostk) - 1 : undostk'[i] = undostk[i]
    BY <1>1, FrontOfSeq
  <1>3. \A i \in 1 .. Len(undostk) - 1 : i \in 1 .. Len(undostk)
    BY <1>1
  <1>4. QED
    BY <1>2, <1>3

LEMMA StackStays ==
  ASSUME SessionAssumption, SessInv, [Next]_vars
  PROVE  StackTyped'
  <1>1. undolim \in Nat /\ Len(undostk) \in Nat /\ undolim \in Limits \cup {0}
    BY LimitIsNat DEF SessInv, StackTyped
  <1>2. CASE BeginCommand
    <2>1. undobefore' \in Seq(Snap) /\ Len(undobefore') <= 1
      <3>1. Saved \in Snap
        BY SavedTyped DEF SessInv, FilesInv
      <3>2. <<Saved>> \in Seq(Snap) /\ Len(<<Saved>>) = 1
        BY <3>1
      <3>3. << >> \in Seq(Snap) /\ Len(<< >>) = 0
        BY EmptySeq
      <3>4. undobefore' \in {<<Saved>>, << >>}
        BY <1>2 DEF BeginCommand, TakeBefore
      <3>5. CASE undobefore' = <<Saved>>
        <4>1. Len(<<Saved>>) <= 1
          BY <3>2
        <4>2. QED
          BY <3>2, <3>5, <4>1
      <3>6. CASE undobefore' = << >>
        <4>1. Len(undobefore') = 0
          BY <3>3, <3>6
        <4>2. QED
          BY <3>3, <3>6, <4>1
      <3>7. QED
        BY <3>4, <3>5, <3>6
    <2>2. marked' => undolim' > 0
      BY <1>2 DEF BeginCommand
    <2>3. UNCHANGED <<undolim, undostk>>
      BY <1>2 DEF BeginCommand
    <2>4. QED
      BY <2>1, <2>2, <2>3 DEF SessInv, StackTyped
  <1>3. CASE EndCommand
    <2>1. undobefore' = << >> /\ undobefore' \in Seq(Snap) /\ Len(undobefore') = 0
          /\ undolim' = undolim
      BY <1>3, EmptySeq DEF EndCommand
    <2>2. marked' = FALSE
      BY <1>3 DEF EndCommand
    <2>3. undostk' \in Seq(Step) /\ Len(undostk') <= undolim
      <3>1. CASE marked /\ drew
        <4>1. PICK s \in NewSteps : KeepStep(s)
          BY <1>3, <3>1 DEF EndCommand
        <4>2. s \in Step
          BY NewStepsTyped DEF SessInv, FilesInv
        <4>3. QED
          BY <3>1, <4>1, <4>2, KeepStepStack DEF SessInv
      <3>2. CASE ~(marked /\ drew)
        <4>1. undostk' = undostk
          BY <1>3, <3>2 DEF EndCommand, KeepNothing
        <4>2. QED
          BY <4>1 DEF SessInv, StackTyped
      <3>3. QED
        BY <3>1, <3>2
    <2>4. QED
      BY <1>1, <2>1, <2>2, <2>3 DEF StackTyped
  <1>4. CASE Undo
    <2>1. undostk' \in Seq(Step) /\ Len(undostk') = Len(undostk) - 1
      BY <1>4, UndoStack DEF SessInv
    <2>2. UNCHANGED <<undolim, undobefore, marked>>
      BY <1>4 DEF Undo
    <2>3. Len(undostk') <= undolim
      BY <1>1, <2>1 DEF SessInv, StackTyped
    <2>4. QED
      BY <2>1, <2>2, <2>3 DEF SessInv, StackTyped
  <1>5. CASE (\E n \in Limits : SetUndo(n)) \/ (\E all \in BOOLEAN : Reset(all))
    <2>1. /\ undostk' = << >> /\ undostk' \in Seq(Step) /\ Len(undostk') = 0
          /\ undobefore' = undobefore /\ undolim' \in Limits \cup {0}
      BY <1>1, <1>5, EmptySeq DEF SetUndo, Reset, ForgetSteps
    <2>2. marked' = FALSE
      BY <1>5 DEF SetUndo, Reset, ForgetSteps
    <2>3. undolim' \in Nat
      BY <2>1 DEF SessionAssumption
    <2>4. QED
      BY <2>1, <2>2, <2>3 DEF SessInv, StackTyped
  <1>6. CASE \/ (\E id \in Live : Display(id)) \/ DisplayOwn
             \/ (\E norset \in BOOLEAN : Clear(norset)) \/ CleanOnly \/ KeepHouse
             \/ (\E o \in Opt, v \in Val : SetOption(o, v)) \/ UNCHANGED vars
    <2>1. UNCHANGED <<undolim, undostk, undobefore, marked>>
      BY <1>6 DEF Display, DisplayOwn, Clear, CleanOnly, KeepHouse, SetOption, vars,
                  sessvars, undovars
    <2>2. QED
      BY <2>1 DEF SessInv, StackTyped
  <1>7. QED
    BY <1>2, <1>3, <1>4, <1>5, <1>6 DEF Next

LEMMA SessAlways == Spec => []SessInv
  <1>1. Init => SessInv
    BY FileAssumption, SessionAssumption, InitTyped
  <1>2. SessInv /\ [Next]_vars => SessInv'
    BY FileAssumption, SessionAssumption, Next_Files, PlotStays, FlagsStay, StackStays,
       CountsStay
    DEF SessInv
  <1>3. QED
    BY <1>1, <1>2, PTL DEF Spec

(* The variables keep their types; no more steps are kept than the limit   *)
(* allows, and no more than one snapshot of a running command.             *)
THEOREM SessionTypeCorrect == Spec => []TypeOK
  <1>1. SessInv => TypeOK
    <2>1. SUFFICES ASSUME SessInv PROVE TypeOK
      OBVIOUS
    <2>2. FilesTypeOK
      BY <2>1 DEF SessInv, FilesInv
    <2>3. {marked, drew, blank, wasblank, running} \subseteq BOOLEAN
      BY <2>1 DEF SessInv, FlagsTyped
    <2>4. QED
      BY <2>1, <2>2, <2>3 DEF SessInv, PlotTyped, StackTyped, Counts, TypeOK, SessionTypeOK
  <1>2. QED
    BY <1>1, SessAlways, PTL

-----------------------------------------------------------------------------
(* The scaling environments that steps keep.                               *)

(* A snapshot says nothing false: if nothing was released since it was     *)
(* taken, what was in order then still is.                                 *)
Fits(b, gen, owners) ==
  /\ b.datagen <= gen
  /\ b.live /\ b.env.on /\ b.datagen = gen => b.env.own \in owners

(* The snapshot of the running command becomes a step's, so it counts too. *)
KeptInv ==
  /\ \A i \in 1 .. Len(undobefore) : Fits(undobefore[i], datagen, Live)
  /\ \A i \in 1 .. Len(undostk) : Fits(undostk[i].before, datagen, Live)

LEMMA FitsOn ==
  ASSUME NEW b \in Snap, NEW gen \in Nat, NEW gen2 \in Nat,
         NEW owners, NEW owners2,
         Fits(b, gen, owners), gen <= gen2, gen = gen2 => owners \subseteq owners2
  PROVE  Fits(b, gen2, owners2)
  <1>1. b.datagen \in Nat
    BY DEF Snap
  <1>2. QED
    BY <1>1 DEF Fits

LEMMA SavedFits ==
  ASSUME FilesTypeOK
  PROVE  Fits(Saved, datagen, Live)
  <1>1. /\ Saved.datagen = datagen /\ Saved.env = env
        /\ Saved.live = (env.on => env.own \in Live)
    BY DEF Saved
  <1>2. datagen <= datagen
    BY DEF FilesTypeOK
  <1>3. QED
    BY <1>1, <1>2 DEF Fits

(* What is released is counted: with the count unchanged, owners only come *)
(* to be.                                                                  *)
LEMMA ReleasesCounted ==
  ASSUME FileAssumption, FilesInv, [Next]_vars
  PROVE  /\ datagen \in Nat /\ datagen' \in Nat /\ datagen <= datagen'
         /\ datagen = datagen' => Live \subseteq Live'
  <1>1. datagen \in Nat
    BY DEF FilesInv, FilesTypeOK
  <1>2. CASE UNCHANGED <<files, defs, datagen>>
    BY <1>1, <1>2 DEF Live, Owners
  <1>3. CASE datagen' = datagen + 1
    BY <1>1, <1>3
  <1>4. CASE \E c \in Calendars : XdfOpenFails(c)
    <2>1. PICK c \in Calendars : XdfOpenFails(c)
      BY <1>4
    <2>2. [own |-> made + 1, cal |-> c] \in File /\ files \in Seq(File)
      BY DEF File, FilesInv, FilesTypeOK
    <2>3. files' = files /\ UNCHANGED <<defs, datagen>>
      BY <2>1, <2>2, FrontOfAppend DEF XdfOpenFails, Unchain, Chained
    <2>4. QED
      BY <1>1, <2>3 DEF Live, Owners
  <1>5. CASE \E c \in Calendars : OpenFile(c)
    <2>1. PICK c \in Calendars : OpenFile(c)
      BY <1>5
    <2>2. [own |-> made + 1, cal |-> c] \in File /\ files \in Seq(File)
          /\ Len(files) \in Nat
      BY LenProperties DEF File, FilesInv, FilesTypeOK
    <2>3. /\ Len(files') = Len(files) + 1
          /\ \A i \in 1 .. Len(files) : files'[i] = files[i]
          /\ UNCHANGED <<defs, datagen>>
      BY <2>1, <2>2, AppendToSeq DEF OpenFile, Chained
    <2>4. \A i \in 1 .. Len(files) : i \in 1 .. Len(files')
      BY <2>2, <2>3
    <2>5. Owners(files) \subseteq Owners(files')
      BY <2>3, <2>4 DEF Owners
    <2>6. QED
      BY <1>1, <2>3, <2>5 DEF Live
  <1>6. CASE \E v \in Name : Define(v)
    <2>1. PICK v \in Name : Define(v)
      BY <1>6
    <2>2. defs[v] = 0 => datagen' = datagen /\ Live \subseteq Live'
      <3>1. SUFFICES ASSUME defs[v] = 0 PROVE datagen' = datagen /\ Live \subseteq Live'
        OBVIOUS
      <3>2. /\ datagen' = datagen /\ files' = files
            /\ defs' = [defs EXCEPT ![v] = made + 1] /\ defs \in [Name -> Nat]
        BY <2>1, <3>1 DEF Define, Redefine, FilesInv, FilesTypeOK
      <3>3. \A w \in Name : defs[w] # 0 => defs'[w] = defs[w]
        BY <3>1, <3>2
      <3>4. QED
        BY <3>2, <3>3 DEF Live, Owners
    <2>3. defs[v] # 0 => datagen' = datagen + 1
      BY <2>1 DEF Define, Redefine
    <2>4. QED
      BY <1>1, <2>2, <2>3
  <1>7. \/ UNCHANGED <<files, defs, datagen>>
        \/ datagen' = datagen + 1
        \/ \E c \in Calendars : XdfOpenFails(c) \/ OpenFile(c)
        \/ \E v \in Name : Define(v)
    <2>1. CASE KeepHouse
      BY <2>1 DEF KeepHouse, Housekeeping, OpenRefused, OpenFails, SetDfile, Close,
                  CloseLast, SetDims, Undefine, DefineFails
    <2>2. CASE \E all \in BOOLEAN : Reset(all)
      BY <2>2 DEF Reset, ResetFiles, ReinitFiles
    <2>3. CASE ~KeepHouse /\ ~\E all \in BOOLEAN : Reset(all)
      BY <2>3 DEF Next, BeginCommand, EndCommand, Undo, Display, DisplayOwn, Clear,
                  CleanOnly, SetOption, SetUndo, vars, filevars
    <2>4. QED
      BY <2>1, <2>2, <2>3
  <1>8. QED
    BY <1>2, <1>3, <1>4, <1>5, <1>6, <1>7

(* Where the steps and the snapshot after a command come from.             *)
LEMMA SnapsComeFrom ==
  ASSUME SessionAssumption, SessInv, KeptInv, [Next]_vars
  PROVE  /\ \A i \in 1 .. Len(undobefore') :
              undobefore'[i] \in Snap /\ Fits(undobefore'[i], datagen, Live)
         /\ \A i \in 1 .. Len(undostk') :
              undostk'[i].before \in Snap /\ Fits(undostk'[i].before, datagen, Live)
  <1>1. Saved \in Snap /\ Fits(Saved, datagen, Live)
    BY SavedTyped, SavedFits DEF SessInv, FilesInv
  <1>2. \A i \in 1 .. Len(undobefore) :
          undobefore[i] \in Snap /\ Fits(undobefore[i], datagen, Live)
    BY ElementOfSeq DEF SessInv, StackTyped, KeptInv
  <1>3. \A i \in 1 .. Len(undostk) :
          undostk[i].before \in Snap /\ Fits(undostk[i].before, datagen, Live)
    BY StepTyped DEF SessInv, KeptInv
  <1>4. CASE BeginCommand
    <2>1. undobefore' = <<Saved>> \/ undobefore' = << >>
      BY <1>4 DEF BeginCommand, TakeBefore
    <2>2. undostk' = undostk
      BY <1>4 DEF BeginCommand
    <2>3. \A i \in 1 .. Len(undobefore') : undobefore'[i] = Saved
      <3>1. CASE undobefore' = <<Saved>>
        BY <3>1
      <3>2. CASE undobefore' = << >>
        BY <3>2, EmptySeq
      <3>3. QED
        BY <2>1, <3>1, <3>2
    <2>4. QED
      BY <1>1, <1>3, <2>2, <2>3
  <1>5. CASE EndCommand
    <2>1. Len(undobefore') = 0
      BY <1>5, EmptySeq DEF EndCommand
    <2>2. CASE marked /\ drew
      <3>1. PICK s \in NewSteps : KeepStep(s)
        BY <1>5, <2>2 DEF EndCommand
      <3>2. s \in Step
        BY NewStepsTyped DEF SessInv, FilesInv
      <3>3. s.before \in Snap /\ Fits(s.before, datagen, Live)
        <4>1. CASE undobefore # << >> /\ s = NewStep(undobefore[1])
          <5>1. 1 \in 1 .. Len(undobefore)
            BY <4>1, EmptySeq, LenProperties DEF SessInv, StackTyped
          <5>2. QED
            BY <4>1, <5>1, <1>2 DEF NewStep
        <4>2. CASE s = BareStep
          BY <4>2, <1>1 DEF BareStep
        <4>3. QED
          BY <4>1, <4>2 DEF NewSteps
      <3>4. \A i \in 1 .. Len(undostk') :
              undostk'[i] = s \/ \E j \in 1 .. Len(undostk) : undostk'[i] = undostk[j]
        BY <2>2, <3>1, <3>2, KeepStepStack DEF SessInv
      <3>5. QED
        BY <1>3, <2>1, <3>3, <3>4
    <2>3. CASE ~(marked /\ drew)
      <3>1. undostk' = undostk
        BY <1>5, <2>3 DEF EndCommand, KeepNothing
      <3>2. QED
        BY <1>3, <2>1, <3>1
    <2>4. QED
      BY <2>2, <2>3
  <1>6. CASE Undo
    <2>1. \A i \in 1 .. Len(undostk') : i \in 1 .. Len(undostk) /\ undostk'[i] = undostk[i]
      BY <1>6, UndoStack DEF SessInv
    <2>2. undobefore' = undobefore
      BY <1>6 DEF Undo
    <2>3. QED
      BY <1>2, <1>3, <2>1, <2>2
  <1>7. CASE (\E n \in Limits : SetUndo(n)) \/ (\E all \in BOOLEAN : Reset(all))
    <2>1. Len(undostk') = 0 /\ undobefore' = undobefore
      BY <1>7, EmptySeq DEF SetUndo, Reset, ForgetSteps
    <2>2. QED
      BY <1>2, <2>1
  <1>8. CASE \/ (\E id \in Live : Display(id)) \/ DisplayOwn
             \/ (\E norset \in BOOLEAN : Clear(norset)) \/ CleanOnly \/ KeepHouse
             \/ (\E o \in Opt, v \in Val : SetOption(o, v)) \/ UNCHANGED vars
    <2>1. UNCHANGED <<undostk, undobefore>>
      BY <1>8 DEF Display, DisplayOwn, Clear, CleanOnly, KeepHouse, SetOption, vars,
                  sessvars, undovars
    <2>2. QED
      BY <1>2, <1>3, <2>1
  <1>9. QED
    BY <1>4, <1>5, <1>6, <1>7, <1>8 DEF Next

LEMMA KeptStays ==
  ASSUME FileAssumption, SessionAssumption, SessInv, KeptInv, [Next]_vars
  PROVE  KeptInv'
  <1>1. /\ datagen \in Nat /\ datagen' \in Nat /\ datagen <= datagen'
        /\ datagen = datagen' => Live \subseteq Live'
    BY ReleasesCounted DEF SessInv
  <1>2. \A b \in Snap : Fits(b, datagen, Live) => Fits(b, datagen', Live')
    BY <1>1, FitsOn
  <1>3. QED
    BY <1>2, SnapsComeFrom DEF KeptInv

LEMMA KeptAlways == Spec => []KeptInv
  <1>1. Init => KeptInv
    <2>1. Init => Len(undobefore) = 0 /\ Len(undostk) = 0
      BY EmptySeq DEF Init
    <2>2. QED
      BY <2>1 DEF KeptInv
  <1>2. SessInv /\ KeptInv /\ [Next]_vars => KeptInv'
    BY FileAssumption, SessionAssumption, KeptStays
  <1>3. QED
    BY <1>1, <1>2, SessAlways, PTL DEF Spec

(* However commands, undos, closes and redefinitions follow one another,   *)
(* the scaling a step can still give back points into coordinates that     *)
(* exist, if it did when the step began: KeptScalingLive, the use of       *)
(* gadatagen in gaundorest.                                                *)
THEOREM KeptScalingIsLive == Spec => []KeptScalingLive
  <1>1. KeptInv => KeptScalingLive
    BY DEF KeptInv, KeptScalingLive, Fits
  <1>2. QED
    BY <1>1, KeptAlways, PTL

-----------------------------------------------------------------------------
(* The history, and what the steps kept have to do with it.                *)

Plot   == [on : BOOLEAN, own : Nat, gen : Nat]
Pic    == [opts : [Opt -> Int], env : Plot]
Effect == [opts : [Opt -> Int], env : Seq(Plot)]
Entry  == [step : BOOLEAN, fx : Effect]

(* st holds the states the commands of l lead through from s.              *)
Past(st, s, l) ==
  /\ st \in [0 .. Len(l) -> Pic]
  /\ st[0] = s
  /\ \A i \in 1 .. Len(l) : st[i] = Apply(l[i].fx, st[i - 1])

LEMMA AppliedIsPic ==
  ASSUME NEW f \in Effect, NEW s \in Pic
  PROVE  /\ Apply(f, s) \in Pic
         /\ \A o \in Opt : Apply(f, s).opts[o] = IF f.opts[o] = Keep THEN s.opts[o] ELSE f.opts[o]
         /\ Apply(f, s).env = IF f.env = << >> THEN s.env ELSE f.env[1]
         /\ f.env # << >> => f.env[1] \in Plot
  <1>1. f.opts \in [Opt -> Int] /\ s.opts \in [Opt -> Int] /\ f.env \in Seq(Plot) /\ s.env \in Plot
    BY DEF Effect, Pic
  <1>2. f.env # << >> => f.env[1] \in Plot
    BY <1>1, EmptySeq, LenProperties, ElementOfSeq
  <1>3. (IF f.env = << >> THEN s.env ELSE f.env[1]) \in Plot
    BY <1>1, <1>2
  <1>4. \A o \in Opt : (IF f.opts[o] = Keep THEN s.opts[o] ELSE f.opts[o]) \in Int
    BY <1>1
  <1>5. QED
    BY <1>2, <1>3, <1>4 DEF Apply, Pic

LEMMA EntriesTyped ==
  ASSUME NEW l \in Seq(Entry)
  PROVE  /\ Len(l) \in Nat
         /\ \A i \in 1 .. Len(l) : l[i] \in Entry /\ l[i].fx \in Effect /\ l[i].step \in BOOLEAN
  <1>1. Len(l) \in Nat /\ \A i \in 1 .. Len(l) : l[i] \in Entry
    BY LenProperties, ElementOfSeq
  <1>2. \A x \in Entry : x.fx \in Effect /\ x.step \in BOOLEAN
    BY DEF Entry
  <1>3. QED
    BY <1>1, <1>2

LEMMA PastExists ==
  ASSUME NEW s \in Pic, NEW l \in Seq(Entry)
  PROVE  \E st : Past(st, s, l)
  <1> DEFINE P(f, n) == /\ f \in [0 .. n -> Pic] /\ f[0] = s
                        /\ \A i \in 1 .. n : f[i] = Apply(l[i].fx, f[i - 1])
             S == {n \in Nat : n <= Len(l) => \E f : P(f, n)}
  <1>0. Len(l) \in Nat /\ \A i \in 1 .. Len(l) : l[i].fx \in Effect
    BY EntriesTyped
  <1>1. 0 \in S
    <2> DEFINE g == [i \in 0 .. 0 |-> s]
    <2>1. P(g, 0)
      OBVIOUS
    <2>2. QED
      BY <2>1
  <1>2. ASSUME NEW n \in Nat, n \in S PROVE n + 1 \in S
    <2>1. SUFFICES ASSUME n + 1 <= Len(l) PROVE \E f : P(f, n + 1)
      OBVIOUS
    <2>2. PICK f : P(f, n)
      BY <1>0, <1>2, <2>1
    <2> DEFINE g == [i \in 0 .. n + 1 |-> IF i = n + 1 THEN Apply(l[n + 1].fx, f[n]) ELSE f[i]]
    <2>3. n + 1 \in 1 .. Len(l) /\ f[n] \in Pic
      BY <1>0, <2>1, <2>2
    <2>4. Apply(l[n + 1].fx, f[n]) \in Pic
      BY <1>0, <2>3, AppliedIsPic
    <2>5. g \in [0 .. n + 1 -> Pic] /\ g[0] = s
      <3>1. \A i \in 0 .. n + 1 : i # n + 1 => i \in 0 .. n
        OBVIOUS
      <3> HIDE DEF P
      <3>2. f \in [0 .. n -> Pic] /\ f[0] = s
        BY <2>2 DEF P
      <3>3. QED
        BY <2>4, <3>1, <3>2
    <2>6. ASSUME NEW i \in 1 .. n + 1 PROVE g[i] = Apply(l[i].fx, g[i - 1])
      <3>1. CASE i = n + 1
        <4>1. g[i - 1] = f[n] /\ g[i] = Apply(l[n + 1].fx, f[n])
          BY <3>1
        <4>2. QED
          BY <3>1, <4>1
      <3>2. CASE i # n + 1
        <4>1. i \in 1 .. n /\ g[i] = f[i] /\ g[i - 1] = f[i - 1]
          BY <3>2
        <4>2. QED
          BY <2>2, <4>1
      <3>3. QED
        BY <3>1, <3>2
    <2>7. QED
      BY <2>5, <2>6
  <1> HIDE DEF S
  <1>3. Nat \subseteq S
    BY <1>1, <1>2, NatInSet
  <1>4. Len(l) \in S /\ Len(l) <= Len(l)
    BY <1>0, <1>3
  <1>5. PICK f : P(f, Len(l))
    BY <1>4 DEF S
  <1>6. Past(f, s, l)
    BY <1>5 DEF Past
  <1>7. QED
    BY <1>6

LEMMA PastAgrees ==
  ASSUME NEW s, NEW l, NEW k, NEW f, NEW g, NEW m \in Nat,
         Len(l) \in Nat, Len(k) \in Nat, m <= Len(l), m <= Len(k),
         \A i \in 1 .. m : l[i].fx = k[i].fx,
         Past(f, s, l), Past(g, s, k)
  PROVE  \A i \in 0 .. m : f[i] = g[i]
  <1> DEFINE S == {i \in Nat : i <= m => f[i] = g[i]}
  <1>1. 0 \in S
    BY DEF Past
  <1>2. ASSUME NEW i \in Nat, i \in S PROVE i + 1 \in S
    <2>1. SUFFICES ASSUME i + 1 <= m PROVE f[i + 1] = g[i + 1]
      OBVIOUS
    <2>2. f[i] = g[i] /\ i + 1 \in 1 .. m /\ i + 1 \in 1 .. Len(l) /\ i + 1 \in 1 .. Len(k)
          /\ (i + 1) - 1 = i
      BY <1>2, <2>1
    <2>3. QED
      BY <2>2 DEF Past
  <1> HIDE DEF S
  <1>3. Nat \subseteq S
    BY <1>1, <1>2, NatInSet
  <1>4. QED
    BY <1>3 DEF S

LEMMA AfterLogIs ==
  ASSUME NEW s \in Pic, NEW l \in Seq(Entry), NEW st, Past(st, s, l)
  PROVE  AfterLog(s, l) = st[Len(l)]
  <1>0. Len(l) \in Nat /\ \A i \in 1 .. Len(l) : l[i].fx \in Effect
    BY EntriesTyped
  <1> DEFINE R(f) == f = [i \in 0 .. Len(l) |-> IF i = 0 THEN s ELSE Apply(l[i].fx, f[i - 1])]
             w == CHOOSE f : R(f)
  <1>1. AfterLog(s, l) = w[Len(l)]
    BY DEF AfterLog
  <1>2. R(st)
    <2>1. ASSUME NEW i \in 0 .. Len(l)
          PROVE  st[i] = IF i = 0 THEN s ELSE Apply(l[i].fx, st[i - 1])
      <3>1. i # 0 => i \in 1 .. Len(l)
        BY <1>0
      <3>2. QED
        BY <3>1 DEF Past
    <2>2. st = [i \in 0 .. Len(l) |-> st[i]]
      BY DEF Past
    <2>3. QED
      BY <2>1, <2>2
  <1>3. R(w)
    BY <1>2
  <1> DEFINE S == {i \in Nat : i <= Len(l) => st[i] = w[i]}
  <1> HIDE DEF w
  <1>4. 0 \in S
    BY <1>0, <1>2, <1>3
  <1>5. ASSUME NEW i \in Nat, i \in S PROVE i + 1 \in S
    <2>1. SUFFICES ASSUME i + 1 <= Len(l) PROVE st[i + 1] = w[i + 1]
      OBVIOUS
    <2>2. st[i] = w[i] /\ i + 1 \in 0 .. Len(l) /\ i + 1 # 0 /\ (i + 1) - 1 = i
      BY <1>0, <1>5, <2>1
    <2>3. QED
      BY <2>2, <1>2, <1>3
  <1> HIDE DEF S
  <1>6. Nat \subseteq S
    BY <1>4, <1>5, NatInSet
  <1>7. QED
    BY <1>0, <1>1, <1>6 DEF S

-----------------------------------------------------------------------------
(* Which command of the log each step that can be undone is of.            *)

Real(stk) == {i \in 1 .. Len(stk) : ~stk[i].bare}

Matched(at, l, stk) ==
  /\ at \in [Real(stk) -> Undone(l)]
  /\ \A i, j \in Real(stk) : i < j => at[i] < at[j]
  /\ \A k \in Undone(l) : \E i \in Real(stk) : at[i] = k

LEMMA FirstIs ==
  ASSUME NEW l \in Seq(Entry)
  PROVE  /\ First(l) \in 1 .. Len(l) + 1
         /\ First(l) <= Len(l) => l[First(l)].step
         /\ \A i \in 1 .. Len(l) : l[i].step => First(l) <= i
  <1>1. Len(l) \in Nat
    BY EntriesTyped
  <1>2. CASE Undone(l) = {}
    BY <1>1, <1>2 DEF First, Undone
  <1>3. CASE Undone(l) # {}
    <2>1. Undone(l) \in SUBSET Nat
      BY <1>1 DEF Undone
    <2>2. \E x \in Undone(l) : \A y \in Undone(l) : x <= y
      BY <1>3, <2>1, NatLeast
    <2>a. First(l) = CHOOSE i \in Undone(l) : \A j \in Undone(l) : i <= j
      BY <1>3 DEF First
    <2>3. First(l) \in Undone(l) /\ \A y \in Undone(l) : First(l) <= y
      BY <2>2, <2>a
    <2>4. QED
      BY <1>1, <2>3 DEF Undone
  <1>4. QED
    BY <1>2, <1>3

LEMMA SubSeqOfLog ==
  ASSUME NEW l \in Seq(Entry), NEW m \in 1 .. Len(l) + 1, NEW n \in 0 .. Len(l), m <= n + 1
  PROVE  /\ SubSeq(l, m, n) \in Seq(Entry)
         /\ Len(SubSeq(l, m, n)) = n - m + 1
         /\ \A i \in 1 .. n - m + 1 : SubSeq(l, m, n)[i] = l[m + i - 1]
  <1>1. Len(l) \in Nat /\ m \in Int /\ n \in Int
    BY EntriesTyped
  <1>2. \A i \in m .. n : l[i] \in Entry
    BY <1>1, EntriesTyped
  <1>3. /\ SubSeq(l, m, n) \in Seq(Entry)
        /\ Len(SubSeq(l, m, n)) = IF m <= n THEN n - m + 1 ELSE 0
        /\ \A i \in 1 .. n - m + 1 : SubSeq(l, m, n)[i] = l[m + i - 1]
    BY <1>1, <1>2, SubSeqProperties
  <1>4. (IF m <= n THEN n - m + 1 ELSE 0) = n - m + 1
    BY <1>1
  <1>5. QED
    BY <1>3, <1>4

(* The log after Settle(l) is l less its first d commands.                 *)
Shifted(d, l, stk, st, at, st2, at2) ==
  /\ d \in 0 .. Len(l)
  /\ base' \in Pic /\ log' \in Seq(Entry) /\ Len(log') = Len(l) - d
  /\ \A i \in 1 .. Len(l) - d : log'[i] = l[i + d]
  /\ Past(st2, base', log') /\ Matched(at2, log', stk)
  /\ \A i \in 0 .. Len(l) - d : st2[i] = st[i + d]
  /\ \A i \in Real(stk) : at[i] > d /\ at2[i] = at[i] - d

LEMMA Settled ==
  ASSUME base \in Pic, NEW l \in Seq(Entry), NEW stk \in Seq(Step), NEW st, NEW at,
         Past(st, base, l), Matched(at, l, stk), Settle(l)
  PROVE  \E d, st2, at2 : Shifted(d, l, stk, st, at, st2, at2)
  <1> DEFINE d == First(l) - 1
             pre == SubSeq(l, 1, d)
             st2 == [i \in 0 .. Len(l) - d |-> st[i + d]]
             at2 == [i \in Real(stk) |-> at[i] - d]
  <1>0. Len(l) \in Nat
    BY EntriesTyped
  <1>1. /\ d \in 0 .. Len(l) /\ d \in Nat
        /\ \A i \in 1 .. Len(l) : l[i].step => i > d
    BY <1>0, FirstIs
  <1>2. /\ log' = SubSeq(l, d + 1, Len(l)) /\ base' = AfterLog(base, pre)
    BY <1>0, FirstIs DEF Settle
  <1> HIDE DEF d
  <1>3. /\ log' \in Seq(Entry) /\ Len(log') = Len(l) - d
        /\ \A i \in 1 .. Len(l) - d : log'[i] = l[i + d]
    <2>1. d + 1 \in 1 .. Len(l) + 1 /\ Len(l) \in 0 .. Len(l) /\ d + 1 <= Len(l) + 1
      BY <1>0, <1>1
    <2>2. /\ log' \in Seq(Entry) /\ Len(log') = Len(l) - (d + 1) + 1
          /\ \A i \in 1 .. Len(l) - (d + 1) + 1 : log'[i] = l[(d + 1) + i - 1]
      BY <1>2, <2>1, SubSeqOfLog
    <2>3. Len(l) - (d + 1) + 1 = Len(l) - d
      BY <1>0, <1>1
    <2>4. ASSUME NEW i \in 1 .. Len(l) - d PROVE log'[i] = l[i + d]
      <3>1. (d + 1) + i - 1 = i + d
        BY <1>1
      <3>2. log'[i] = l[(d + 1) + i - 1]
        BY <2>2, <2>3
      <3>3. QED
        BY <3>1, <3>2
    <2>5. Len(log') = Len(l) - d
      BY <2>2, <2>3
    <2>6. QED
      BY <2>2, <2>4, <2>5
  <1>4. /\ pre \in Seq(Entry) /\ Len(pre) = d
        /\ \A i \in 1 .. d : pre[i] = l[i]
    <2>1. 1 \in 1 .. Len(l) + 1 /\ 1 <= d + 1
      BY <1>0, <1>1
    <2>2. /\ pre \in Seq(Entry) /\ Len(pre) = d - 1 + 1
          /\ \A i \in 1 .. d - 1 + 1 : pre[i] = l[1 + i - 1]
      BY <1>1, <2>1, SubSeqOfLog
    <2>3. d - 1 + 1 = d /\ \A i \in Int : 1 + i - 1 = i
      BY <1>1
    <2>4. QED
      BY <2>2, <2>3
  <1> HIDE DEF pre
  <1>5. base' = st[d] /\ st[d] \in Pic
    <2> DEFINE sp == [i \in 0 .. d |-> st[i]]
    <2>1. \A i \in 0 .. d : i \in 0 .. Len(l)
      BY <1>0, <1>1
    <2>2. sp \in [0 .. d -> Pic] /\ sp[0] = base
      BY <1>1, <2>1 DEF Past
    <2>3. ASSUME NEW i \in 1 .. d PROVE sp[i] = Apply(pre[i].fx, sp[i - 1])
      <3>1. i \in 1 .. Len(l) /\ i \in 0 .. d /\ i - 1 \in 0 .. d
        BY <1>0, <1>1
      <3>2. st[i] = Apply(l[i].fx, st[i - 1])
        BY <3>1 DEF Past
      <3>3. QED
        BY <1>4, <3>1, <3>2
    <2>4. Past(sp, base, pre)
      BY <1>4, <2>2, <2>3 DEF Past
    <2>5. sp[d] = st[d]
      BY <1>1
    <2> HIDE DEF sp
    <2>6. AfterLog(base, pre) = sp[d]
      BY <1>4, <2>4, AfterLogIs
    <2>7. QED
      BY <1>1, <1>2, <2>1, <2>5, <2>6 DEF Past
  <1>6. Past(st2, base', log')
    <2>1. \A i \in 0 .. Len(l) - d : i + d \in 0 .. Len(l)
      BY <1>0, <1>1
    <2>2. st2 \in [0 .. Len(l) - d -> Pic] /\ st2[0] = base'
      BY <1>0, <1>1, <1>5, <2>1 DEF Past
    <2>3. ASSUME NEW i \in 1 .. Len(l) - d PROVE st2[i] = Apply(log'[i].fx, st2[i - 1])
      <3>1. /\ i + d \in 1 .. Len(l) /\ i \in 0 .. Len(l) - d /\ i - 1 \in 0 .. Len(l) - d
            /\ (i + d) - 1 = (i - 1) + d
        BY <1>0, <1>1
      <3>2. st[i + d] = Apply(l[i + d].fx, st[(i - 1) + d])
        BY <3>1 DEF Past
      <3>3. QED
        BY <1>3, <3>1, <3>2
    <2> HIDE DEF st2
    <2>4. QED
      BY <1>3, <2>2, <2>3 DEF Past
  <1>7. ASSUME NEW i \in Real(stk)
        PROVE  at[i] \in 1 .. Len(l) /\ l[at[i]].step /\ at[i] > d /\ at2[i] = at[i] - d
    BY <1>1 DEF Matched, Undone
  <1>8. Matched(at2, log', stk)
    <2>1. ASSUME NEW i \in Real(stk) PROVE at[i] - d \in Undone(log')
      <3>1. at[i] - d \in 1 .. Len(l) - d /\ (at[i] - d) + d = at[i]
        BY <1>0, <1>1, <1>7
      <3>2. log'[at[i] - d].step
        BY <1>3, <1>7, <3>1
      <3>3. QED
        BY <1>3, <3>1, <3>2 DEF Undone
    <2>2. \A i, j \in Real(stk) : i < j => at2[i] < at2[j]
      <3>1. SUFFICES ASSUME NEW i \in Real(stk), NEW j \in Real(stk), i < j
                     PROVE  at2[i] < at2[j]
        OBVIOUS
      <3>2. at[i] < at[j] /\ at[i] \in Int /\ at[j] \in Int /\ d \in Int
        BY <1>0, <1>1, <1>7, <3>1 DEF Matched
      <3>3. at[i] - d < at[j] - d
        BY <3>2
      <3>4. QED
        BY <1>7, <3>3
    <2>3. ASSUME NEW k \in Undone(log') PROVE \E i \in Real(stk) : at2[i] = k
      <3>1. k \in 1 .. Len(l) - d /\ log'[k].step
        BY <1>3 DEF Undone
      <3>2. k + d \in 1 .. Len(l) /\ l[k + d].step
        BY <1>0, <1>1, <1>3, <3>1
      <3>3. PICK i \in Real(stk) : at[i] = k + d
        BY <3>2 DEF Matched, Undone
      <3>4. at2[i] = k
        BY <1>1, <1>7, <3>1, <3>3
      <3>5. QED
        BY <3>4
    <2>4. QED
      BY <2>1, <2>2, <2>3 DEF Matched
  <1>9. \A i \in 0 .. Len(l) - d : st2[i] = st[i + d]
    OBVIOUS
  <1> HIDE DEF st2, at2
  <1>10. Shifted(d, l, stk, st, at, st2, at2)
    BY <1>1, <1>3, <1>5, <1>6, <1>7, <1>8, <1>9 DEF Shifted
  <1>11. QED
    BY <1>10

(* A command is added.                                                     *)
LEMMA PastAppended ==
  ASSUME NEW s \in Pic, NEW l \in Seq(Entry), NEW e \in Entry, NEW st, Past(st, s, l)
  PROVE  \E st2 : /\ Past(st2, s, Append(l, e))
                  /\ \A i \in 0 .. Len(l) : st2[i] = st[i]
                  /\ st2[Len(l) + 1] = Apply(e.fx, st[Len(l)])
  <1> DEFINE l2 == Append(l, e)
  <1>1. /\ l2 \in Seq(Entry) /\ Len(l2) = Len(l) + 1 /\ Len(l) \in Nat
        /\ \A i \in 1 .. Len(l) : l2[i] = l[i]
        /\ l2[Len(l) + 1] = e
    BY AppendToSeq, EntriesTyped
  <1> HIDE DEF l2
  <1>2. PICK st2 : Past(st2, s, l2)
    BY <1>1, PastExists
  <1>3. \A i \in 1 .. Len(l) : l2[i].fx = l[i].fx
    BY <1>1
  <1>3a. Len(l) <= Len(l) /\ Len(l) <= Len(l2) /\ Len(l2) \in Nat
    BY <1>1
  <1>4. \A i \in 0 .. Len(l) : st2[i] = st[i]
    BY <1>1, <1>2, <1>3, <1>3a, PastAgrees
  <1>5. /\ Len(l) + 1 \in 1 .. Len(l2) /\ (Len(l) + 1) - 1 = Len(l)
        /\ Len(l) \in 0 .. Len(l)
    BY <1>1
  <1>6. st2[Len(l) + 1] = Apply(e.fx, st[Len(l)])
    BY <1>1, <1>2, <1>4, <1>5 DEF Past
  <1>7. QED
    BY <1>2, <1>4, <1>6 DEF l2

LEMMA MatchedAppended ==
  ASSUME NEW l \in Seq(Entry), NEW e \in Entry, ~e.step, NEW stk \in Seq(Step), NEW at,
         Matched(at, l, stk)
  PROVE  Matched(at, Append(l, e), stk)
  <1>1. /\ Len(Append(l, e)) = Len(l) + 1 /\ Len(l) \in Nat
        /\ \A i \in 1 .. Len(l) : Append(l, e)[i] = l[i]
        /\ Append(l, e)[Len(l) + 1] = e
    BY AppendToSeq, EntriesTyped
  <1>2. Undone(Append(l, e)) = Undone(l)
    BY <1>1 DEF Undone
  <1>3. QED
    BY <1>2 DEF Matched

LEMMA MatchedBoth ==
  ASSUME NEW l \in Seq(Entry), NEW e \in Entry, NEW stk \in Seq(Step), NEW x \in Step,
         e.step = ~x.bare, NEW at, Matched(at, l, stk)
  PROVE  \E at2 : /\ Matched(at2, Append(l, e), Append(stk, x))
                  /\ \A i \in Real(stk) : at2[i] = at[i]
                  /\ ~x.bare => at2[Len(stk) + 1] = Len(l) + 1
  <1> DEFINE n == Len(l)
             m == Len(stk)
             l2 == Append(l, e)
             s2 == Append(stk, x)
             at2 == [i \in Real(s2) |-> IF i = m + 1 THEN n + 1 ELSE at[i]]
  <1>1. /\ Len(l2) = n + 1 /\ n \in Nat
        /\ \A i \in 1 .. n : l2[i] = l[i]
        /\ l2[n + 1] = e
    BY AppendToSeq, EntriesTyped
  <1>2. /\ Len(s2) = m + 1 /\ m \in Nat
        /\ \A i \in 1 .. m : s2[i] = stk[i]
        /\ s2[m + 1] = x
    BY AppendToSeq, LenProperties
  <1>3. x.bare \in BOOLEAN
    BY DEF Step
  <1> HIDE DEF n, m, l2, s2
  <1>a. \A i \in Real(stk) : i \in 1 .. m
    BY DEF Real, m
  <1>4. Real(s2) = Real(stk) \cup (IF x.bare THEN {} ELSE {m + 1})
    BY <1>2 DEF Real, m
  <1>b. \A k \in Undone(l) : k \in 1 .. n
    BY DEF Undone, n
  <1>5. Undone(l2) = Undone(l) \cup (IF x.bare THEN {} ELSE {n + 1})
    <2>1. CASE x.bare
      <3>1. ~l2[n + 1].step
        BY <1>1, <2>1
      <3>2. QED
        BY <1>1, <2>1, <3>1 DEF Undone, n
    <2>2. CASE ~x.bare
      <3>1. l2[n + 1].step
        BY <1>1, <2>2
      <3>2. QED
        BY <1>1, <2>2, <3>1 DEF Undone, n
    <2>3. QED
      BY <2>1, <2>2
  <1>6. \A i \in Real(stk) : i \in 1 .. m /\ i # m + 1 /\ at2[i] = at[i] /\ at[i] \in Undone(l)
                             /\ at[i] \in 1 .. n
    BY <1>2, <1>a, <1>b, <1>4 DEF Matched
  <1>7. ~x.bare => m + 1 \in Real(s2) /\ at2[m + 1] = n + 1
    BY <1>4
  <1> HIDE DEF at2
  <1>8. at2 \in [Real(s2) -> Undone(l2)]
    <2>1. \A i \in Real(s2) : at2[i] \in Undone(l2)
      BY <1>4, <1>5, <1>6, <1>7
    <2>2. at2 = [i \in Real(s2) |-> at2[i]]
      BY DEF at2
    <2>3. QED
      BY <2>1, <2>2
  <1>9. ASSUME NEW i \in Real(s2), NEW j \in Real(s2), i < j PROVE at2[i] < at2[j]
    <2>1. CASE j \in Real(stk)
      <3>1. i \in Real(stk)
        BY <1>2, <1>4, <1>6, <1>9, <2>1
      <3>2. QED
        BY <1>6, <1>9, <2>1, <3>1 DEF Matched
    <2>2. CASE j \notin Real(stk)
      <3>1. ~x.bare /\ j = m + 1
        BY <1>4, <2>2
      <3>2. i \in Real(stk)
        BY <1>2, <1>4, <1>9, <3>1
      <3>3. QED
        BY <1>1, <1>6, <1>7, <3>1, <3>2
    <2>3. QED
      BY <2>1, <2>2
  <1>10. ASSUME NEW k \in Undone(l2) PROVE \E i \in Real(s2) : at2[i] = k
    <2>1. CASE k \in Undone(l)
      BY <1>4, <1>6, <2>1 DEF Matched
    <2>2. CASE k \notin Undone(l)
      BY <1>5, <1>7, <2>2
    <2>3. QED
      BY <2>1, <2>2
  <1>11. Matched(at2, l2, s2)
    BY <1>8, <1>9, <1>10 DEF Matched
  <1>12. QED
    BY <1>6, <1>7, <1>11 DEF l2, s2, m, n

(* The oldest step goes.                                                   *)
LEMMA MatchedDropped ==
  ASSUME undostk \in Seq(Step), undostk # << >>, Len(undostk) = undolim,
         NEW l \in Seq(Entry), NEW at, Matched(at, l, undostk)
  PROVE  /\ Dropped(l) \in Seq(Entry) /\ Len(Dropped(l)) = Len(l)
         /\ \A i \in 1 .. Len(l) :
              /\ Dropped(l)[i].fx = l[i].fx
              /\ \/ Dropped(l)[i].step = l[i].step
                 \/ 1 \in Real(undostk) /\ i = at[1] /\ ~Dropped(l)[i].step
         /\ \A i \in Real(Tail(undostk)) : i + 1 \in Real(undostk)
         /\ Matched([i \in Real(Tail(undostk)) |-> at[i + 1]], Dropped(l), Tail(undostk))
  <1> DEFINE t == Tail(undostk)
             at2 == [i \in Real(t) |-> at[i + 1]]
             l2 == Dropped(l)
  <1>1. /\ Len(l) \in Nat /\ Len(undostk) \in Nat /\ Len(undostk) > 0
        /\ t \in Seq(Step) /\ Len(t) = Len(undostk) - 1
        /\ \A i \in 1 .. Len(undostk) - 1 : t[i] = undostk[i + 1]
    BY EntriesTyped, LenProperties, EmptySeq, TailOfSeq
  <1> HIDE DEF t
  <1>2. \A i \in 1 .. Len(undostk) : undostk[i].bare \in BOOLEAN
    <2>1. \A i \in 1 .. Len(undostk) : undostk[i] \in Step
      BY ElementOfSeq
    <2>2. QED
      BY <2>1 DEF Step
  <1>3. \A i \in Real(t) : i \in Nat /\ i + 1 \in Real(undostk) /\ i + 1 > 1
    BY <1>1 DEF Real
  <1>4. \A i \in Real(undostk) : i = 1 \/ (i - 1 \in Real(t) /\ (i - 1) + 1 = i)
    BY <1>1 DEF Real
  <1>5. CASE undostk[1].bare
    <2>1. l2 = l
      BY <1>5 DEF Dropped
    <2>2. 1 \notin Real(undostk)
      BY <1>5 DEF Real
    <2>3. at2 \in [Real(t) -> Undone(l)]
      BY <1>3 DEF Matched
    <2>4. ASSUME NEW i \in Real(t), NEW j \in Real(t), i < j PROVE at2[i] < at2[j]
      <3>1. i + 1 < j + 1 /\ i + 1 \in Real(undostk) /\ j + 1 \in Real(undostk)
        BY <1>3, <2>4
      <3>2. QED
        BY <3>1 DEF Matched
    <2>5. ASSUME NEW k \in Undone(l) PROVE \E i \in Real(t) : at2[i] = k
      <3>1. PICK i \in Real(undostk) : at[i] = k
        BY DEF Matched
      <3>2. i - 1 \in Real(t) /\ (i - 1) + 1 = i
        BY <1>4, <2>2
      <3>3. at2[i - 1] = k
        BY <3>1, <3>2
      <3>4. QED
        BY <3>2, <3>3
    <2> HIDE DEF at2
    <2>6. Matched(at2, l2, t)
      BY <2>1, <2>3, <2>4, <2>5 DEF Matched
    <2>7. QED
      BY <1>3, <2>1, <2>6 DEF l2, at2, t
  <1>6. CASE ~undostk[1].bare
    <2> DEFINE q == First(l)
    <2>1. 1 \in Real(undostk)
      BY <1>1, <1>6 DEF Real
    <2>2. at[1] \in Undone(l) /\ at[1] \in 1 .. Len(l) /\ l[at[1]].step
      BY <2>1 DEF Matched, Undone
    <2>3. \A i \in Real(undostk) : at[1] <= at[i]
      <3>1. SUFFICES ASSUME NEW i \in Real(undostk) PROVE at[1] <= at[i]
        OBVIOUS
      <3>2. CASE i = 1
        BY <2>2, <3>2
      <3>3. CASE i # 1
        <4>1. 1 < i
          BY <1>1, <3>3 DEF Real
        <4>2. at[1] < at[i] /\ at[i] \in Undone(l)
          BY <2>1, <4>1 DEF Matched
        <4>3. QED
          BY <2>2, <4>2 DEF Undone
      <3>4. QED
        BY <3>2, <3>3
    <2>4. \A k \in Undone(l) : at[1] <= k
      BY <2>3 DEF Matched
    <2>5. q = at[1]
      <3>1. q \in 1 .. Len(l) + 1 /\ q <= at[1]
        BY <1>1, <2>2, FirstIs
      <3>2. q <= Len(l) /\ q \in Undone(l)
        <4>1. q <= Len(l)
          BY <1>1, <2>2, <3>1
        <4>2. l[q].step /\ q \in 1 .. Len(l)
          BY <1>1, <3>1, <4>1, FirstIs
        <4>3. QED
          BY <4>1, <4>2 DEF Undone
      <3>3. QED
        BY <2>2, <2>4, <3>1, <3>2
    <2> HIDE DEF q
    <2>6. l2 = [l EXCEPT ![q].step = FALSE]
      BY <1>6 DEF Dropped, q
    <2>7. /\ l2 \in Seq(Entry) /\ Len(l2) = Len(l)
          /\ \A i \in 1 .. Len(l) :
               l2[i].fx = l[i].fx /\ l2[i].step = (IF i = q THEN FALSE ELSE l[i].step)
      <3>1. [l[q] EXCEPT !.step = FALSE] \in Entry
        BY <2>2, <2>5, EntriesTyped DEF Entry
      <3>2. l2 = [l EXCEPT ![q] = [l[q] EXCEPT !.step = FALSE]]
        BY <2>6
      <3> HIDE DEF l2
      <3>3. l2 \in Seq(Entry) /\ Len(l2) = Len(l)
        BY <2>2, <2>5, <3>1, <3>2
      <3>4. ASSUME NEW i \in 1 .. Len(l)
            PROVE l2[i] = IF i = q THEN [l[q] EXCEPT !.step = FALSE] ELSE l[i]
        BY <2>2, <2>5, <3>1, <3>2
      <3>5. l[q] \in Entry
        BY <2>2, <2>5, EntriesTyped
      <3>6. [l[q] EXCEPT !.step = FALSE].fx = l[q].fx /\ [l[q] EXCEPT !.step = FALSE].step = FALSE
        BY <3>5 DEF Entry
      <3>7. QED
        BY <3>3, <3>4, <3>6
    <2> HIDE DEF l2
    <2>8. Undone(l2) = Undone(l) \ {q}
      BY <2>7 DEF Undone
    <2>9. ASSUME NEW i \in Real(t) PROVE at2[i] \in Undone(l2)
      <3>1. i + 1 \in Real(undostk) /\ 1 < i + 1
        BY <1>3
      <3>2. at[1] < at[i + 1] /\ at[i + 1] \in Undone(l)
        BY <2>1, <3>1 DEF Matched
      <3>3. QED
        BY <2>2, <2>5, <2>8, <3>2
    <2>10. ASSUME NEW i \in Real(t), NEW j \in Real(t), i < j PROVE at2[i] < at2[j]
      <3>1. i + 1 < j + 1 /\ i + 1 \in Real(undostk) /\ j + 1 \in Real(undostk)
        BY <1>3, <2>10
      <3>2. QED
        BY <3>1 DEF Matched
    <2>11. ASSUME NEW k \in Undone(l2) PROVE \E i \in Real(t) : at2[i] = k
      <3>1. k \in Undone(l) /\ k # at[1]
        BY <2>5, <2>8
      <3>2. PICK i \in Real(undostk) : at[i] = k
        BY <3>1 DEF Matched
      <3>3. i - 1 \in Real(t) /\ (i - 1) + 1 = i
        BY <1>4, <3>1, <3>2
      <3>4. at2[i - 1] = k
        BY <3>2, <3>3
      <3>5. QED
        BY <3>3, <3>4
    <2>12. at2 \in [Real(t) -> Undone(l2)]
      <3>1. at2 = [i \in Real(t) |-> at2[i]]
        OBVIOUS
      <3> HIDE DEF at2
      <3>2. QED
        BY <2>9, <3>1
    <2> HIDE DEF at2
    <2>13. Matched(at2, l2, t)
      BY <2>10, <2>11, <2>12 DEF Matched
    <2>14. \A i \in 1 .. Len(l) :
              /\ l2[i].fx = l[i].fx
              /\ \/ l2[i].step = l[i].step
                 \/ 1 \in Real(undostk) /\ i = at[1] /\ ~l2[i].step
      BY <2>1, <2>5, <2>7
    <2>15. QED
      BY <1>3, <2>7, <2>13, <2>14 DEF l2, at2, t
  <1>7. QED
    BY <1>1, <1>2, <1>5, <1>6

(* The last command that can be undone is taken out.                       *)
Without(l, u) == SubSeq(l, 1, u - 1) \o SubSeq(l, u + 1, Len(l))
LastOf(l) == CHOOSE i \in Undone(l) : \A j \in Undone(l) : j <= i
Front(stk) == SubSeq(stk, 1, Len(stk) - 1)

LEMMA Removed ==
  ASSUME NEW l \in Seq(Entry), NEW u \in 1 .. Len(l), NEW l2, l2 = Without(l, u)
  PROVE  /\ l2 \in Seq(Entry) /\ Len(l2) = Len(l) - 1
         /\ \A i \in 1 .. u - 1 : l2[i] = l[i]
         /\ \A i \in u .. Len(l) - 1 : l2[i] = l[i + 1]
  <1> DEFINE n == Len(l)
             a == SubSeq(l, 1, u - 1)
             b == SubSeq(l, u + 1, n)
  <1>0. n \in Nat /\ u \in 1 .. n
    BY EntriesTyped
  <1>1. /\ a \in Seq(Entry) /\ Len(a) = u - 1
        /\ \A i \in 1 .. u - 1 : a[i] = l[i]
    <2>1. 1 \in 1 .. Len(l) + 1 /\ u - 1 \in 0 .. Len(l) /\ 1 <= (u - 1) + 1
      BY <1>0
    <2>2. /\ a \in Seq(Entry) /\ Len(a) = (u - 1) - 1 + 1
          /\ \A i \in 1 .. (u - 1) - 1 + 1 : a[i] = l[1 + i - 1]
      BY <2>1, SubSeqOfLog
    <2>3. (u - 1) - 1 + 1 = u - 1
      BY <1>0
    <2>4. ASSUME NEW i \in 1 .. u - 1 PROVE a[i] = l[i]
      <3>1. 1 + i - 1 = i
        OBVIOUS
      <3>2. a[i] = l[1 + i - 1]
        BY <2>2, <2>3
      <3>3. QED
        BY <3>1, <3>2
    <2>5. QED
      BY <2>2, <2>3, <2>4
  <1>2. /\ b \in Seq(Entry) /\ Len(b) = n - u
        /\ \A i \in 1 .. n - u : b[i] = l[u + i]
    <2>1. u + 1 \in 1 .. Len(l) + 1 /\ n \in 0 .. Len(l) /\ u + 1 <= n + 1
      BY <1>0
    <2>2. /\ b \in Seq(Entry) /\ Len(b) = n - (u + 1) + 1
          /\ \A i \in 1 .. n - (u + 1) + 1 : b[i] = l[(u + 1) + i - 1]
      BY <2>1, SubSeqOfLog
    <2>3. n - (u + 1) + 1 = n - u
      BY <1>0
    <2>4. ASSUME NEW i \in 1 .. n - u PROVE b[i] = l[u + i]
      <3>1. (u + 1) + i - 1 = u + i
        OBVIOUS
      <3>2. b[i] = l[(u + 1) + i - 1]
        BY <2>2, <2>3
      <3>3. QED
        BY <3>1, <3>2
    <2>5. QED
      BY <2>2, <2>3, <2>4
  <1>3. l2 = a \o b
    BY DEF Without
  <1> HIDE DEF n, a, b
  <1>4. /\ l2 \in Seq(Entry) /\ Len(l2) = Len(a) + Len(b)
        /\ \A i \in 1 .. Len(a) + Len(b) :
             l2[i] = IF i <= Len(a) THEN a[i] ELSE b[i - Len(a)]
    <2>1. /\ a \o b \in Seq(Entry) /\ Len(a \o b) = Len(a) + Len(b)
          /\ \A i \in 1 .. Len(a) + Len(b) :
               (a \o b)[i] = IF i <= Len(a) THEN a[i] ELSE b[i - Len(a)]
      BY <1>1, <1>2, ConcatProperties
    <2>2. QED
      BY <1>3, <2>1
  <1>5. Len(l2) = n - 1
    BY <1>0, <1>1, <1>2, <1>4
  <1>6. ASSUME NEW i \in 1 .. u - 1 PROVE l2[i] = l[i]
    <2>1. i \in 1 .. Len(a) + Len(b) /\ i <= Len(a)
      BY <1>0, <1>1, <1>2
    <2>2. QED
      BY <1>1, <1>4, <2>1
  <1>7. ASSUME NEW i \in u .. n - 1 PROVE l2[i] = l[i + 1]
    <2>1. /\ i \in 1 .. Len(a) + Len(b) /\ ~(i <= Len(a)) /\ i - Len(a) \in 1 .. n - u
          /\ u + (i - Len(a)) = i + 1
      BY <1>0, <1>1, <1>2
    <2>2. l2[i] = b[i - Len(a)]
      BY <1>4, <2>1
    <2>3. b[i - Len(a)] = l[i + 1]
      BY <1>2, <2>1
    <2>4. QED
      BY <2>2, <2>3
  <1>8. QED
    BY <1>4, <1>5, <1>6, <1>7 DEF n

(* u is the command undone, of the last step of stk; l2, f and st2 are     *)
(* the log, the steps and the states without it.                           *)
Rewinds(s, l, stk, st, at, u, l2, f, st2, a2) ==
  /\ u = at[Len(stk)] /\ u \in 1 .. Len(l) /\ Len(stk) \in Real(stk)
  /\ Real(f) = Real(stk) \ {Len(stk)}
  /\ \A i \in Real(f) : f[i] = stk[i] /\ i < Len(stk) /\ at[i] < u /\ a2[i] = at[i]
  /\ \A k \in u + 1 .. Len(l) : ~l[k].step
  /\ l2 \in Seq(Entry) /\ Len(l2) = Len(l) - 1 /\ f \in Seq(Step)
  /\ \A i \in 1 .. u - 1 : l2[i] = l[i]
  /\ \A i \in u .. Len(l) - 1 : l2[i] = l[i + 1]
  /\ Matched(a2, l2, f)
  /\ Past(st2, s, l2) /\ \A i \in 0 .. u - 1 : st2[i] = st[i]

LEMMA Rewound ==
  ASSUME NEW s \in Pic, NEW l \in Seq(Entry), NEW stk \in Seq(Step), NEW st, NEW at,
         Past(st, s, l), Matched(at, l, stk), stk # << >>, ~stk[Len(stk)].bare,
         NEW u, u = LastOf(l), NEW l2, l2 = Without(l, u), NEW f, f = Front(stk)
  PROVE  \E st2, a2 : Rewinds(s, l, stk, st, at, u, l2, f, st2, a2)
  <1> DEFINE m == Len(stk)
             at2 == [i \in Real(f) |-> at[i]]
  <1>1. Len(l) \in Nat /\ m \in Nat /\ m > 0
    BY EntriesTyped, LenProperties, EmptySeq
  <1>a. ~stk[m].bare
    OBVIOUS
  <1>b. \A i \in Real(stk) : i \in 1 .. m
    BY DEF Real
  <1> HIDE DEF m
  <1>2. m \in Real(stk) /\ at[m] \in Undone(l)
    BY <1>1, <1>a DEF Real, Matched, m
  <1>3. \A i \in Real(stk) : i # m => i < m /\ at[i] < at[m]
    BY <1>1, <1>2, <1>b DEF Matched
  <1>4. at[m] \in Nat /\ \A k \in Undone(l) : k \in Nat /\ k <= at[m]
    <2>1. \A k \in Undone(l) : k \in Nat
      BY DEF Undone
    <2>2. ASSUME NEW k \in Undone(l) PROVE k <= at[m]
      <3>1. PICK i \in Real(stk) : at[i] = k
        BY DEF Matched
      <3>2. QED
        BY <1>2, <1>3, <2>1, <3>1
    <2>3. QED
      BY <1>2, <2>1, <2>2
  <1>5. u = at[m]
    <2>1. \E i \in Undone(l) : \A j \in Undone(l) : j <= i
      BY <1>2, <1>4
    <2>2. u \in Undone(l) /\ \A j \in Undone(l) : j <= u
      BY <2>1 DEF LastOf
    <2>3. QED
      BY <1>2, <1>4, <2>2
  <1>6. u \in 1 .. Len(l) /\ l[u].step
    BY <1>2, <1>5 DEF Undone
  <1>7. \A k \in u + 1 .. Len(l) : ~l[k].step
    <2>1. SUFFICES ASSUME NEW k \in u + 1 .. Len(l), l[k].step PROVE FALSE
      OBVIOUS
    <2>2. k \in Undone(l)
      BY <1>1, <1>6, <2>1 DEF Undone
    <2>3. QED
      BY <1>4, <1>5, <1>6, <2>1, <2>2
  <1>8. /\ l2 \in Seq(Entry) /\ Len(l2) = Len(l) - 1
        /\ \A i \in 1 .. u - 1 : l2[i] = l[i]
        /\ \A i \in u .. Len(l) - 1 : l2[i] = l[i + 1]
    <2>1. u \in 1 .. Len(l) /\ l2 = Without(l, u)
      BY <1>6
    <2>2. QED
      BY <2>1, Removed, Zenon
  <1>9. /\ f \in Seq(Step) /\ Len(f) = m - 1
        /\ \A i \in 1 .. m - 1 : f[i] = stk[i]
    BY FrontOfSeq DEF Front, m
  <1>10. Real(f) = Real(stk) \ {m}
    BY <1>1, <1>9 DEF Real, m
  <1>11. \A i \in Real(f) : f[i] = stk[i] /\ i < m /\ at[i] < u /\ at[i] \in Undone(l)
                            /\ at[i] \in 1 .. Len(l)
    <2>1. SUFFICES ASSUME NEW i \in Real(f)
                   PROVE f[i] = stk[i] /\ i < m /\ at[i] < u /\ at[i] \in Undone(l)
                         /\ at[i] \in 1 .. Len(l)
      OBVIOUS
    <2>2. i \in Real(stk) /\ i # m /\ i \in 1 .. m - 1
      BY <1>1, <1>9, <1>10 DEF Real, m
    <2>3. at[i] \in Undone(l)
      BY <2>2 DEF Matched
    <2>4. QED
      BY <1>3, <1>5, <1>9, <2>2, <2>3 DEF Undone
  <1>12. \A k \in Undone(l2) : k \in Undone(l) /\ k < u
    <2>1. SUFFICES ASSUME NEW k \in Undone(l2) PROVE k \in Undone(l) /\ k < u
      OBVIOUS
    <2>2. k \in 1 .. Len(l) - 1 /\ l2[k].step
      BY <1>8 DEF Undone
    <2>3. CASE k < u
      BY <1>1, <1>6, <1>8, <2>2, <2>3 DEF Undone
    <2>4. CASE k >= u
      <3>1. k \in u .. Len(l) - 1 /\ k + 1 \in u + 1 .. Len(l)
        BY <1>1, <1>6, <2>2, <2>4
      <3>2. QED
        BY <1>7, <1>8, <2>2, <3>1
    <2>5. QED
      BY <1>6, <2>2, <2>3, <2>4
  <1>13. Matched(at2, l2, f)
    <2>1. ASSUME NEW i \in Real(f) PROVE at2[i] = at[i] /\ at[i] \in Undone(l2)
      <3>1. at[i] \in 1 .. u - 1 /\ at[i] \in 1 .. Len(l) - 1 /\ l[at[i]].step
        BY <1>1, <1>6, <1>11 DEF Undone
      <3>2. QED
        BY <1>8, <3>1 DEF Undone
    <2>2. \A i, j \in Real(f) : i < j => at2[i] < at2[j]
      BY <1>10, <2>1 DEF Matched
    <2>3. ASSUME NEW k \in Undone(l2) PROVE \E i \in Real(f) : at2[i] = k
      <3>1. PICK i \in Real(stk) : at[i] = k
        BY <1>12 DEF Matched
      <3>2. i # m
        BY <1>5, <1>6, <1>12, <3>1
      <3>3. QED
        BY <1>10, <2>1, <3>1, <3>2
    <2>4. at2 \in [Real(f) -> Undone(l2)]
      BY <2>1
    <2> HIDE DEF at2
    <2>5. QED
      BY <2>2, <2>3, <2>4 DEF Matched
  <1>14. PICK st2 : Past(st2, s, l2)
    BY <1>8, PastExists
  <1>15. \A i \in 0 .. u - 1 : st2[i] = st[i]
    <2>1. /\ u - 1 \in Nat /\ u - 1 <= Len(l) /\ u - 1 <= Len(l2) /\ Len(l2) \in Nat
          /\ \A i \in 1 .. u - 1 : l2[i].fx = l[i].fx
      BY <1>1, <1>6, <1>8
    <2>2. QED
      BY <1>1, <1>14, <2>1, PastAgrees
  <1>16. \A i \in Real(f) : at2[i] = at[i]
    OBVIOUS
  <1> HIDE DEF at2
  <1>17. Rewinds(s, l, stk, st, at, u, l2, f, st2, at2)
    BY <1>2, <1>5, <1>6, <1>7, <1>8, <1>9, <1>10, <1>11, <1>13, <1>14, <1>15, <1>16
    DEF Rewinds, m
  <1>18. QED
    BY <1>17

-----------------------------------------------------------------------------
(* What the running command has done so far.                               *)

FxTyped ==
  /\ fx \in Effect
  /\ ~running => fx = Nothing
  /\ \A o \in Opt : fx.opts[o] # Keep => fx.opts[o] = opts[o]

LEMMA NothingDone ==
  /\ Nothing \in Effect /\ Nothing.env = << >>
  /\ \A o \in Opt : Nothing.opts[o] = Keep
  <1>1. Keep \in Int /\ << >> \in Seq(Plot)
    BY DEF Keep
  <1>2. QED
    BY <1>1 DEF Nothing, Effect

LEMMA DidTyped ==
  ASSUME fx \in Effect, \A o \in Opt : fx.opts[o] # Keep => fx.opts[o] = opts[o],
         PlotTyped', NEW done \in SUBSET Opt, NEW e, e = << >> \/ \E p \in Plot : e = <<p>>,
         Did(done, e), \A o \in Opt \ done : opts'[o] = opts[o]
  PROVE  /\ fx' \in Effect
         /\ \A o \in Opt : fx'.opts[o] = IF o \in done THEN opts'[o] ELSE fx.opts[o]
         /\ \A o \in Opt : fx'.opts[o] # Keep => fx'.opts[o] = opts'[o]
         /\ fx'.env = IF e = << >> THEN fx.env ELSE e
  <1>1. fx.opts \in [Opt -> Int] /\ fx.env \in Seq(Plot) /\ opts' \in [Opt -> Nat]
    BY DEF Effect, PlotTyped
  <1>2. e \in Seq(Plot)
    <2>1. << >> \in Seq(Plot) /\ \A p \in Plot : <<p>> \in Seq(Plot)
      OBVIOUS
    <2>2. QED
      BY <2>1
  <1>3. /\ fx'.opts = [x \in Opt |-> IF x \in done THEN opts'[x] ELSE fx.opts[x]]
        /\ fx'.env = IF e = << >> THEN fx.env ELSE e
        /\ fx' = [opts |-> fx'.opts, env |-> fx'.env]
    BY DEF Did
  <1>4. \A o \in Opt : fx'.opts[o] = IF o \in done THEN opts'[o] ELSE fx.opts[o]
    BY <1>3
  <1>5. fx'.opts \in [Opt -> Int]
    BY <1>1, <1>3
  <1>6. fx'.env \in Seq(Plot)
    BY <1>1, <1>2, <1>3
  <1>7. fx' \in Effect
    <2>1. [opts |-> fx'.opts, env |-> fx'.env] \in Effect
      BY <1>5, <1>6 DEF Effect
    <2>2. QED
      BY <1>3, <2>1
  <1>8. QED
    BY <1>3, <1>4, <1>7

(* Every command of the picture reports what it did.                       *)
LEMMA Reports ==
  ASSUME FileAssumption, SessionAssumption, SessInv, FxTyped, PlotTyped',
         \/ \E id \in Live : Display(id)
         \/ DisplayOwn \/ CleanOnly
         \/ \E norset \in BOOLEAN : Clear(norset)
         \/ \E o \in Opt, v \in Val : SetOption(o, v)
  PROVE  /\ running /\ running' /\ fx' \in Effect
         /\ \A o \in Opt : fx'.opts[o] # Keep => fx'.opts[o] = opts'[o]
         /\ \A o \in Opt : \/ fx'.opts[o] = fx.opts[o] /\ opts'[o] = opts[o]
                           \/ fx'.opts[o] = opts'[o] /\ opts'[o] # Keep
         /\ \/ fx'.env = fx.env /\ env' = env
            \/ \E p \in Plot : /\ fx'.env = <<p>> /\ p.on = env'.on
                               /\ p.on => p.own = env'.own
                               /\ p.gen <= datagen
         /\ UNCHANGED <<datagen, undostk, undobefore, marked, base, log, clash>>
  <1>0. /\ opts' \in [Opt -> Nat] /\ opts \in [Opt -> Nat] /\ datagen \in Nat /\ made \in Nat
        /\ \A o \in Opt : opts'[o] # Keep
    <2>1. opts' \in [Opt -> Nat] /\ opts \in [Opt -> Nat]
      BY DEF PlotTyped, SessInv
    <2>2. datagen \in Nat /\ made \in Nat
      BY DEF SessInv, FilesInv, FilesTypeOK
    <2>3. QED
      BY <2>1, <2>2 DEF Keep
  <1>f. /\ fx \in Effect /\ \A o \in Opt : fx.opts[o] # Keep => fx.opts[o] = opts[o]
    BY DEF FxTyped
  <1>1. CASE \E id \in Live : Display(id)
    <2>1. PICK id \in Live : Display(id)
      BY <1>1
    <2>2. id \in Nat
      BY LiveAreNumbers DEF SessInv, FilesInv
    <2> DEFINE p == [on |-> TRUE, own |-> id, gen |-> datagen]
    <2>3. p \in Plot /\ p.on = TRUE /\ p.own = id /\ p.gen = datagen /\ <<p>> # << >>
      BY <1>0, <2>2 DEF Plot
    <2> HIDE DEF p
    <2>4. Once \in SUBSET Opt /\ Did(Once, <<p>>) /\ \A o \in Opt \ Once : opts'[o] = opts[o]
      BY <2>1 DEF Display, SessionAssumption, p
    <2>5. /\ fx' \in Effect
          /\ \A o \in Opt : fx'.opts[o] = IF o \in Once THEN opts'[o] ELSE fx.opts[o]
          /\ \A o \in Opt : fx'.opts[o] # Keep => fx'.opts[o] = opts'[o]
          /\ fx'.env = IF <<p>> = << >> THEN fx.env ELSE <<p>>
      BY <1>f, <2>3, <2>4, DidTyped
    <2>6. /\ UNCHANGED <<datagen, undostk, undobefore, marked, base, log, clash>>
          /\ running /\ running' /\ env' = [on |-> TRUE, own |-> id]
      BY <2>1 DEF Display, Sub
    <2>7. p.on = env'.on /\ (p.on => p.own = env'.own) /\ p.gen <= datagen
      <3>1. p.gen <= datagen
        BY <1>0, <2>3
      <3>2. env'.on = TRUE /\ env'.own = p.own
        BY <2>3, <2>6
      <3>3. QED
        BY <2>3, <3>1, <3>2
    <2>8. QED
      BY <1>0, <2>3, <2>4, <2>5, <2>6, <2>7
  <1>2. CASE DisplayOwn
    <2> DEFINE p == [on |-> TRUE, own |-> made + 1, gen |-> datagen]
    <2>3. p \in Plot /\ p.on = TRUE /\ p.own = made + 1 /\ p.gen = datagen /\ <<p>> # << >>
      BY <1>0 DEF Plot
    <2> HIDE DEF p
    <2>4. Once \in SUBSET Opt /\ Did(Once, <<p>>) /\ \A o \in Opt \ Once : opts'[o] = opts[o]
      BY <1>2 DEF DisplayOwn, SessionAssumption, p
    <2>5. /\ fx' \in Effect
          /\ \A o \in Opt : fx'.opts[o] = IF o \in Once THEN opts'[o] ELSE fx.opts[o]
          /\ \A o \in Opt : fx'.opts[o] # Keep => fx'.opts[o] = opts'[o]
          /\ fx'.env = IF <<p>> = << >> THEN fx.env ELSE <<p>>
      BY <1>f, <2>3, <2>4, DidTyped
    <2>6. /\ UNCHANGED <<datagen, undostk, undobefore, marked, base, log, clash>>
          /\ running /\ running' /\ env' = [on |-> TRUE, own |-> made + 1]
      BY <1>2 DEF DisplayOwn, Sub
    <2>7. p.on = env'.on /\ (p.on => p.own = env'.own) /\ p.gen <= datagen
      <3>1. p.gen <= datagen
        BY <1>0, <2>3
      <3>2. env'.on = TRUE /\ env'.own = p.own
        BY <2>3, <2>6
      <3>3. QED
        BY <2>3, <3>1, <3>2
    <2>8. QED
      BY <1>0, <2>3, <2>4, <2>5, <2>6, <2>7
  <1>3. CASE CleanOnly \/ \E norset \in BOOLEAN : Clear(norset)
    <2>1. PICK reset \in BOOLEAN : Gacln(reset)
      BY <1>3 DEF CleanOnly, Clear
    <2> DEFINE done == IF reset THEN Opt ELSE {}
    <2>2. done \in SUBSET Opt /\ Did(done, <<NoPlot>>) /\ \A o \in Opt \ done : opts'[o] = opts[o]
      BY <2>1 DEF Gacln
    <2>3. NoPlot \in Plot /\ NoPlot.on = FALSE /\ NoPlot.gen = 0 /\ <<NoPlot>> # << >>
      BY DEF NoPlot, Plot
    <2> HIDE DEF done
    <2>5. /\ fx' \in Effect
          /\ \A o \in Opt : fx'.opts[o] = IF o \in done THEN opts'[o] ELSE fx.opts[o]
          /\ \A o \in Opt : fx'.opts[o] # Keep => fx'.opts[o] = opts'[o]
          /\ fx'.env = IF <<NoPlot>> = << >> THEN fx.env ELSE <<NoPlot>>
      BY <1>f, <2>2, <2>3, DidTyped
    <2>6. /\ UNCHANGED <<datagen, undostk, undobefore, marked, base, log, clash>>
          /\ running /\ running'
      <3>1. CASE CleanOnly
        BY <3>1 DEF CleanOnly, Sub, undovars
      <3>2. CASE \E norset \in BOOLEAN : Clear(norset)
        BY <3>2 DEF Clear, Sub
      <3>3. QED
        BY <1>3, <3>1, <3>2
    <2>7. env'.on = FALSE
      BY <2>1 DEF Gacln, SessInv, PlotTyped
    <2>8. NoPlot.on = env'.on /\ (NoPlot.on => NoPlot.own = env'.own) /\ NoPlot.gen <= datagen
      <3>1. NoPlot.gen <= datagen
        BY <1>0, <2>3
      <3>2. QED
        BY <2>3, <2>7, <3>1
    <2>9. QED
      BY <1>0, <2>2, <2>3, <2>5, <2>6, <2>8
  <1>4. CASE \E o \in Opt, v \in Val : SetOption(o, v)
    <2>1. PICK o1 \in Opt, v \in Val : SetOption(o1, v)
      BY <1>4
    <2>2. {o1} \in SUBSET Opt /\ Did({o1}, << >>) /\ \A o \in Opt \ {o1} : opts'[o] = opts[o]
      BY <1>0, <2>1 DEF SetOption
    <2>5. /\ fx' \in Effect
          /\ \A o \in Opt : fx'.opts[o] = IF o \in {o1} THEN opts'[o] ELSE fx.opts[o]
          /\ \A o \in Opt : fx'.opts[o] # Keep => fx'.opts[o] = opts'[o]
          /\ fx'.env = IF << >> = << >> THEN fx.env ELSE << >>
      BY <1>f, <2>2, DidTyped
    <2>6. /\ UNCHANGED <<datagen, undostk, undobefore, marked, base, log, clash>>
          /\ running /\ running' /\ env' = env
      BY <2>1 DEF SetOption, Sub, undovars
    <2>7. QED
      BY <1>0, <2>2, <2>5, <2>6
  <1>5. QED
    BY <1>1, <1>2, <1>3, <1>4

LEMMA FxStays ==
  ASSUME FileAssumption, SessionAssumption, SessInv, FxTyped, PlotTyped', [Next]_vars
  PROVE  FxTyped'
  <1>1. CASE \/ \E id \in Live : Display(id)
             \/ DisplayOwn \/ CleanOnly
             \/ \E norset \in BOOLEAN : Clear(norset)
             \/ \E o \in Opt, v \in Val : SetOption(o, v)
    BY <1>1, Reports DEF FxTyped
  <1>2. CASE KeepHouse \/ UNCHANGED vars
    <2>1. UNCHANGED <<fx, opts, running>>
      BY <1>2 DEF KeepHouse, Sub, histvars, vars, sessvars
    <2>2. QED
      BY <2>1 DEF FxTyped
  <1>3. CASE \/ BeginCommand \/ EndCommand
             \/ (\E n \in Limits : SetUndo(n)) \/ (\E all \in BOOLEAN : Reset(all))
    <2>1. fx' = Nothing
      BY <1>3 DEF BeginCommand, EndCommand, SetUndo, Reset, ForgetSteps
    <2>2. QED
      BY <2>1, NothingDone DEF FxTyped
  <1>4. CASE Undo
    <2>1. fx' = fx /\ ~running
      BY <1>4 DEF Undo
    <2>2. fx' = Nothing
      BY <2>1 DEF FxTyped
    <2>3. QED
      BY <2>2, NothingDone DEF FxTyped
  <1>5. QED
    BY <1>1, <1>2, <1>3, <1>4 DEF Next

-----------------------------------------------------------------------------
(* A command ends.                                                         *)

History(st, at) ==
  base \in Pic /\ log \in Seq(Entry) /\ Past(st, base, log) /\ Matched(at, log, undostk)

(* The log l2, its states and its steps are the old ones, less a first     *)
(* step that is dropped, and with the command that ends.                   *)
Enters(st, at, c, l2, st2, at2) ==
  /\ c \in {0, 1} /\ l2 \in Seq(Entry) /\ Len(l2) = Len(log) + 1
  /\ Past(st2, base, l2) /\ Matched(at2, l2, undostk')
  /\ \A i \in 0 .. Len(log) : st2[i] = st[i]
  /\ st2[Len(log) + 1] = Apply(fx, st[Len(log)])
  /\ \A k \in 1 .. Len(log) :
       /\ l2[k].fx = log[k].fx
       /\ \/ l2[k].step = log[k].step
          \/ ~l2[k].step /\ \A i \in Real(undostk') : k < at2[i]
  /\ l2[Len(log) + 1].fx = fx
  /\ \A i \in Real(undostk') :
       \/ i + c \in Real(undostk) /\ undostk'[i] = undostk[i + c] /\ at2[i] = at[i + c]
       \/ /\ i = Len(undostk) + 1 - c /\ at2[i] = Len(log) + 1
          /\ marked /\ undobefore # << >>
          /\ undostk'[i].before = undobefore[1] /\ undostk'[i].after = Saved
  /\ \A i \in Real(undostk) : i > c => i - c \in Real(undostk')
  /\ Clashes(undostk) \subseteq clash' \/ l2[Len(log) + 1].step
  /\ clash \subseteq clash'

LEMMA SameEffects ==
  ASSUME NEW s, NEW l \in Seq(Entry), NEW k \in Seq(Entry), Len(k) = Len(l),
         \A i \in 1 .. Len(l) : k[i].fx = l[i].fx, NEW st, Past(st, s, l)
  PROVE  Past(st, s, k)
  BY DEF Past

(* The stack k and the log l are the old ones with room for one more step. *)
Room(st, at, c, k, l, a) ==
  /\ c \in {0, 1} /\ k \in Seq(Step) /\ l \in Seq(Entry)
  /\ k = (IF Len(undostk) = undolim THEN Tail(undostk) ELSE undostk)
  /\ l = Dropped(log)
  /\ Len(l) = Len(log) /\ Past(st, base, l) /\ Matched(a, l, k)
  /\ Len(k) = Len(undostk) - c
  /\ \A i \in Real(k) : /\ i + c \in Real(undostk) /\ k[i] = undostk[i + c]
                        /\ a[i] = at[i + c]
  /\ \A i \in Real(undostk) : i > c => i - c \in Real(k)
  /\ \A i \in 1 .. Len(log) :
       /\ l[i].fx = log[i].fx
       /\ \/ l[i].step = log[i].step
          \/ ~l[i].step /\ \A j \in Real(k) : i < a[j]

LEMMA RoomMade ==
  ASSUME SessionAssumption, StackTyped, marked, NEW st, NEW at, History(st, at)
  PROVE  \E c, k, l, a : Room(st, at, c, k, l, a)
  <1>1. /\ undostk \in Seq(Step) /\ Len(undostk) \in Nat /\ undolim \in Nat /\ undolim > 0
        /\ log \in Seq(Entry) /\ Past(st, base, log) /\ Matched(at, log, undostk)
        /\ Len(log) \in Nat
    BY LimitIsNat, EntriesTyped DEF StackTyped, History
  <1>2. CASE Len(undostk) = undolim
    <2> DEFINE k == Tail(undostk)
               l == Dropped(log)
               a == [i \in Real(Tail(undostk)) |-> at[i + 1]]
    <2>1. undostk # << >>
      BY <1>1, <1>2, EmptySeq
    <2>2. /\ k \in Seq(Step) /\ Len(k) = Len(undostk) - 1
          /\ \A i \in 1 .. Len(undostk) - 1 : k[i] = undostk[i + 1]
      BY <1>1, <2>1, TailOfSeq
    <2>3. /\ l \in Seq(Entry) /\ Len(l) = Len(log)
          /\ \A i \in 1 .. Len(log) :
               /\ l[i].fx = log[i].fx
               /\ \/ l[i].step = log[i].step
                  \/ 1 \in Real(undostk) /\ i = at[1] /\ ~l[i].step
          /\ \A i \in Real(k) : i + 1 \in Real(undostk)
          /\ Matched(a, l, k)
      BY <1>1, <1>2, <2>1, MatchedDropped
    <2>4. \A i \in Real(k) : i \in 1 .. Len(k) /\ a[i] = at[i + 1]
      BY DEF Real
    <2> HIDE DEF k, l, a
    <2>5. \A i \in Real(k) : k[i] = undostk[i + 1]
      BY <2>2, <2>4
    <2>6. ASSUME 1 \in Real(undostk), NEW j \in Real(k) PROVE at[1] < a[j]
      <3>1. j + 1 \in Real(undostk) /\ 1 < j + 1
        BY <1>1, <2>2, <2>3, <2>4
      <3>2. at[1] < at[j + 1]
        BY <1>1, <2>6, <3>1 DEF Matched
      <3>3. QED
        BY <2>4, <3>2
    <2>7. Past(st, base, l)
      BY <1>1, <2>3, SameEffects
    <2>8. \A i \in 1 .. Len(log) :
            /\ l[i].fx = log[i].fx
            /\ \/ l[i].step = log[i].step
               \/ ~l[i].step /\ \A j \in Real(k) : i < a[j]
      BY <2>3, <2>6
    <2>9. k = (IF Len(undostk) = undolim THEN Tail(undostk) ELSE undostk)
      BY <1>2 DEF k
    <2>10. l = Dropped(log)
      BY DEF l
    <2>11. 1 \in {0, 1}
      OBVIOUS
    <2>12. \A i \in Real(k) : /\ i + 1 \in Real(undostk) /\ k[i] = undostk[i + 1]
                              /\ a[i] = at[i + 1]
      BY <2>3, <2>4, <2>5
    <2>13. Len(l) = Len(log) /\ Matched(a, l, k) /\ l \in Seq(Entry) /\ k \in Seq(Step)
           /\ Len(k) = Len(undostk) - 1
      BY <2>2, <2>3
    <2>r. \A i \in Real(undostk) : i > 1 => i - 1 \in Real(k)
      BY <1>1, <2>2 DEF Real
    <2>14. Room(st, at, 1, k, l, a)
      BY <2>7, <2>8, <2>9, <2>10, <2>11, <2>12, <2>13, <2>r DEF Room
    <2>15. QED
      BY <2>14
  <1>3. CASE Len(undostk) # undolim
    <2>1. log = Dropped(log) /\ undostk = (IF Len(undostk) = undolim THEN Tail(undostk) ELSE undostk)
      BY <1>3 DEF Dropped
    <2>2. \A i \in Real(undostk) : i + 0 = i /\ i - 0 = i
      BY DEF Real
    <2>3. Len(undostk) = Len(undostk) - 0
      BY <1>1
    <2>4. 0 \in {0, 1}
      OBVIOUS
    <2>5. Room(st, at, 0, undostk, log, at)
      BY <1>1, <2>1, <2>2, <2>3, <2>4 DEF Room
    <2>6. QED
      BY <2>5
  <1>4. QED
    BY <1>2, <1>3

LEMMA Entered ==
  ASSUME SessionAssumption, SessInv, fx \in Effect, NEW st, NEW at, History(st, at),
         EndCommand
  PROVE  \/ fx = Nothing /\ undostk' = undostk /\ Settle(log) /\ clash \subseteq clash'
         \/ \E c, l2, st2, at2 : Enters(st, at, c, l2, st2, at2) /\ Settle(l2)
  <1>1. /\ undostk \in Seq(Step) /\ Len(undostk) \in Nat /\ log \in Seq(Entry)
        /\ Len(log) \in Nat /\ base \in Pic /\ Past(st, base, log)
        /\ Matched(at, log, undostk)
    BY LenProperties, EntriesTyped DEF SessInv, StackTyped, History
  <1>2. CASE marked /\ drew
    <2>1. PICK s \in NewSteps : KeepStep(s)
      BY <1>2 DEF EndCommand
    <2>2. s \in Step
      BY NewStepsTyped DEF SessInv, FilesInv
    <2> DEFINE e == [step |-> ~s.bare, fx |-> fx]
    <2>3. e \in Entry /\ e.step = ~s.bare /\ e.fx = fx
      BY DEF Entry
    <2>r. PICK c, k, l, a : Room(st, at, c, k, l, a)
      <3>1. SessionAssumption /\ StackTyped /\ marked /\ History(st, at)
        BY <1>2 DEF SessInv
      <3>2. QED
        BY <3>1, RoomMade
    <2>4. k = (IF Len(undostk) = undolim THEN Tail(undostk) ELSE undostk) /\ l = Dropped(log)
      BY <2>r DEF Room
    <2>c. c \in {0, 1} /\ k \in Seq(Step) /\ l \in Seq(Entry) /\ Len(l) = Len(log)
      BY <2>r DEF Room
    <2>d. /\ Matched(a, l, k) /\ Past(st, base, l) /\ Len(k) = Len(undostk) - c
          /\ \A i \in Real(k) : /\ i + c \in Real(undostk) /\ k[i] = undostk[i + c]
                                /\ a[i] = at[i + c]
      BY <2>r DEF Room
    <2>e. \A i \in 1 .. Len(log) :
             /\ l[i].fx = log[i].fx
             /\ \/ l[i].step = log[i].step
                \/ ~l[i].step /\ \A j \in Real(k) : i < a[j]
      BY <2>r DEF Room
    <2> DEFINE l2 == Append(l, e)
    <2>5. undostk' = Append(k, s) /\ Settle(l2)
      BY <2>1, <2>4 DEF KeepStep
    <2>6. clash' = IF s.bare THEN clash \cup Clashes(undostk) ELSE clash
      BY <2>1 DEF KeepStep
    <2> HIDE DEF e
    <2>7. PICK st2 : /\ Past(st2, base, l2)
                     /\ \A i \in 0 .. Len(l) : st2[i] = st[i]
                     /\ st2[Len(l) + 1] = Apply(e.fx, st[Len(l)])
      <3>1. base \in Pic /\ l \in Seq(Entry) /\ e \in Entry /\ Past(st, base, l)
        BY <1>1, <2>3, <2>c, <2>d
      <3>2. \E z : /\ Past(z, base, Append(l, e))
                   /\ \A i \in 0 .. Len(l) : z[i] = st[i]
                   /\ z[Len(l) + 1] = Apply(e.fx, st[Len(l)])
        BY <3>1, PastAppended
      <3>3. QED
        BY <3>2
    <2>8. PICK at2 : /\ Matched(at2, l2, undostk')
                     /\ \A i \in Real(k) : at2[i] = a[i]
                     /\ ~s.bare => at2[Len(k) + 1] = Len(l) + 1
      <3>2. \E z : /\ Matched(z, Append(l, e), Append(k, s))
                   /\ \A i \in Real(k) : z[i] = a[i]
                   /\ ~s.bare => z[Len(k) + 1] = Len(l) + 1
        <4>1. /\ l \in Seq(Entry) /\ e \in Entry /\ k \in Seq(Step) /\ s \in Step
              /\ e.step = ~s.bare /\ Matched(a, l, k)
          BY <2>2, <2>3, <2>c, <2>d
        <4>2. QED
          BY <4>1, MatchedBoth
      <3> HIDE DEF l2
      <3>3. l2 = Append(l, e) /\ undostk' = Append(k, s)
        BY <2>5 DEF l2
      <3>4. QED
        BY <3>2, <3>3
    <2>9. /\ l2 \in Seq(Entry) /\ Len(l2) = Len(l) + 1
          /\ \A i \in 1 .. Len(l) : l2[i] = l[i]
          /\ l2[Len(l) + 1] = e
      BY <2>3, <2>c, AppendToSeq
    <2>10. /\ Len(undostk') = Len(k) + 1 /\ Len(k) \in Nat
           /\ \A i \in 1 .. Len(k) : undostk'[i] = k[i]
           /\ undostk'[Len(k) + 1] = s
      BY <2>2, <2>c, <2>5, AppendToSeq, LenProperties
    <2> HIDE DEF l2
    <2>11. \A i \in Real(undostk') : i \in Real(k) \/ (i = Len(k) + 1 /\ ~s.bare)
      BY <2>10 DEF Real
    <2>12. \A i \in Real(k) : i \in Real(undostk') /\ undostk'[i] = k[i] /\ i <= Len(k)
      BY <2>10 DEF Real
    <2>13. ASSUME NEW i \in Real(undostk')
           PROVE  \/ i + c \in Real(undostk) /\ undostk'[i] = undostk[i + c] /\ at2[i] = at[i + c]
                  \/ /\ i = Len(undostk) + 1 - c /\ at2[i] = Len(log) + 1
                     /\ marked /\ undobefore # << >>
                     /\ undostk'[i].before = undobefore[1] /\ undostk'[i].after = Saved
      <3>1. CASE i \in Real(k)
        BY <2>c, <2>d, <2>8, <2>12, <3>1
      <3>2. CASE i = Len(k) + 1 /\ ~s.bare
        <4>1. i = Len(undostk) + 1 - c
          BY <1>1, <2>c, <2>d, <3>2
        <4>2. at2[i] = Len(log) + 1
          BY <2>c, <2>d, <2>8, <3>2
        <4>3. undobefore # << >> /\ s = NewStep(undobefore[1])
          BY <3>2 DEF NewSteps, BareStep
        <4>4. s.before = undobefore[1] /\ s.after = Saved
          BY <4>3 DEF NewStep
        <4>5. QED
          BY <1>2, <2>10, <3>2, <4>1, <4>2, <4>3, <4>4
      <3>3. QED
        BY <2>11, <3>1, <3>2
    <2>14. ASSUME NEW i \in 1 .. Len(log), ~l[i].step, \A j \in Real(k) : i < a[j]
           PROVE  \A j \in Real(undostk') : i < at2[j]
      <3>1. SUFFICES ASSUME NEW j \in Real(undostk') PROVE i < at2[j]
        OBVIOUS
      <3>2. CASE j \in Real(k)
        BY <2>8, <2>14, <3>2
      <3>3. CASE j = Len(k) + 1 /\ ~s.bare
        <4>1. at2[j] = Len(log) + 1
          BY <2>c, <2>d, <2>8, <3>3
        <4>2. QED
          BY <1>1, <4>1
      <3>4. QED
        BY <2>11, <3>2, <3>3
    <2>15. \A i \in 1 .. Len(log) :
             /\ l2[i].fx = log[i].fx
             /\ \/ l2[i].step = log[i].step
                \/ ~l2[i].step /\ \A j \in Real(undostk') : i < at2[j]
      <3>1. SUFFICES ASSUME NEW i \in 1 .. Len(log)
                     PROVE  /\ l2[i].fx = log[i].fx
                            /\ \/ l2[i].step = log[i].step
                               \/ ~l2[i].step /\ \A j \in Real(undostk') : i < at2[j]
        OBVIOUS
      <3>2. l2[i] = l[i]
        BY <2>c, <2>9
      <3>3. QED
        BY <2>e, <2>14, <3>2
    <2>16. l2[Len(log) + 1].fx = fx /\ l2[Len(log) + 1].step = ~s.bare
      BY <2>3, <2>c, <2>d, <2>9
    <2>17. Clashes(undostk) \subseteq clash' \/ l2[Len(log) + 1].step
      BY <2>6, <2>16
    <2>18. clash \subseteq clash'
      BY <2>6
    <2>q. \A i \in Real(undostk) : i > c => i - c \in Real(undostk')
      <3>1. \A i \in Real(undostk) : i > c => i - c \in Real(k)
        BY <2>r DEF Room
      <3>2. QED
        BY <2>12, <3>1
    <2>19. /\ \A i \in 0 .. Len(log) : st2[i] = st[i]
           /\ st2[Len(log) + 1] = Apply(fx, st[Len(log)])
           /\ Len(l2) = Len(log) + 1
      BY <2>3, <2>c, <2>d, <2>7, <2>9
    <2>20. Enters(st, at, c, l2, st2, at2)
      BY <2>c, <2>7, <2>8, <2>9, <2>13, <2>15, <2>16, <2>17, <2>18, <2>19, <2>q DEF Enters
    <2>21. QED
      BY <2>5, <2>20
  <1>3. CASE ~(marked /\ drew) /\ fx = Nothing
    BY <1>3 DEF EndCommand, KeepNothing
  <1>4. CASE ~(marked /\ drew) /\ fx # Nothing
    <2> DEFINE e == [step |-> FALSE, fx |-> fx]
               l2 == Append(log, e)
    <2>1. e \in Entry /\ e.step = FALSE /\ e.fx = fx
      BY DEF Entry
    <2>2. Settle(l2) /\ clash' = clash \cup Clashes(undostk) /\ undostk' = undostk
      BY <1>4 DEF EndCommand, KeepNothing
    <2> HIDE DEF e
    <2>3. PICK st2 : /\ Past(st2, base, l2)
                     /\ \A i \in 0 .. Len(log) : st2[i] = st[i]
                     /\ st2[Len(log) + 1] = Apply(e.fx, st[Len(log)])
      BY <1>1, <2>1, PastAppended
    <2>4. Matched(at, l2, undostk')
      BY <1>1, <2>1, <2>2, MatchedAppended
    <2>5. /\ l2 \in Seq(Entry) /\ Len(l2) = Len(log) + 1
          /\ \A i \in 1 .. Len(log) : l2[i] = log[i]
          /\ l2[Len(log) + 1] = e
      BY <1>1, <2>1, AppendToSeq
    <2> HIDE DEF l2
    <2>6. \A i \in Real(undostk') : i + 0 = i /\ i - 0 = i /\ i \in Real(undostk)
      BY <2>2 DEF Real
    <2>7. 0 \in {0, 1}
      OBVIOUS
    <2>8. Enters(st, at, 0, l2, st2, at)
      BY <2>1, <2>2, <2>3, <2>4, <2>5, <2>6, <2>7 DEF Enters
    <2>9. QED
      BY <2>2, <2>8
  <1>5. QED
    BY <1>2, <1>3, <1>4

-----------------------------------------------------------------------------
(* The options.                                                            *)

(* Where no setting clashed, a step's snapshots are the states of the      *)
(* history around its command, and what later commands that stay set to    *)
(* the value the step left, the step had left alone.                       *)
OptionsTold(st, at, l, stk, C) ==
  \A o \in Opt \ C : \A i \in Real(stk) :
    /\ stk[i].before.opts[o] = st[at[i] - 1].opts[o]
    /\ stk[i].after.opts[o] = st[at[i]].opts[o]
    /\ \A k \in 1 .. Len(l) :
         /\ k > at[i] /\ ~l[k].step /\ l[k].fx.opts[o] # Keep
         /\ l[k].fx.opts[o] = stk[i].after.opts[o]
         => l[k].fx.opts[o] = stk[i].before.opts[o]

OptionsNow(st) ==
  /\ \A o \in Opt \ clash : opts[o] = Apply(fx, st[Len(log)]).opts[o]
  /\ running /\ marked /\ undobefore # << >> =>
       \A o \in Opt \ clash : undobefore[1].opts[o] = st[Len(log)].opts[o]

OptionsInv ==
  \E st, at : /\ History(st, at) /\ OptionsTold(st, at, log, undostk, clash)
              /\ OptionsNow(st)

LEMMA OptionsSettle ==
  ASSUME base \in Pic, NEW l \in Seq(Entry), NEW stk \in Seq(Step), NEW C, NEW st, NEW at,
         Past(st, base, l), Matched(at, l, stk), Settle(l), OptionsTold(st, at, l, stk, C)
  PROVE  \E st2, at2 :
           /\ base' \in Pic /\ log' \in Seq(Entry)
           /\ Past(st2, base', log') /\ Matched(at2, log', stk)
           /\ OptionsTold(st2, at2, log', stk, C)
           /\ st2[Len(log')] = st[Len(l)]
  <1>0. Len(l) \in Nat
    BY EntriesTyped
  <1>a. PICK d, st2, at2 : Shifted(d, l, stk, st, at, st2, at2)
    BY Settled
  <1>1. /\ d \in 0 .. Len(l)
        /\ base' \in Pic /\ log' \in Seq(Entry) /\ Len(log') = Len(l) - d
        /\ \A i \in 1 .. Len(l) - d : log'[i] = l[i + d]
        /\ Past(st2, base', log') /\ Matched(at2, log', stk)
        /\ \A i \in 0 .. Len(l) - d : st2[i] = st[i + d]
        /\ \A i \in Real(stk) : at[i] > d /\ at2[i] = at[i] - d
    BY <1>a DEF Shifted
  <1>2. d \in Nat /\ d <= Len(l)
    BY <1>0, <1>1
  <1>3. st2[Len(log')] = st[Len(l)]
    <2>1. Len(l) - d \in 0 .. Len(l) - d /\ (Len(l) - d) + d = Len(l)
      BY <1>0, <1>2
    <2>2. QED
      BY <1>1, <2>1
  <1>4. ASSUME NEW o \in Opt \ C, NEW i \in Real(stk)
        PROVE  /\ stk[i].before.opts[o] = st2[at2[i] - 1].opts[o]
               /\ stk[i].after.opts[o] = st2[at2[i]].opts[o]
               /\ \A k \in 1 .. Len(log') :
                    /\ k > at2[i] /\ ~log'[k].step /\ log'[k].fx.opts[o] # Keep
                    /\ log'[k].fx.opts[o] = stk[i].after.opts[o]
                    => log'[k].fx.opts[o] = stk[i].before.opts[o]
    <2>1. /\ at[i] \in 1 .. Len(l) /\ at[i] > d /\ at2[i] = at[i] - d
      BY <1>1 DEF Matched, Undone
    <2>2. /\ at2[i] - 1 \in 0 .. Len(l) - d /\ (at2[i] - 1) + d = at[i] - 1
          /\ at2[i] \in 0 .. Len(l) - d /\ at2[i] + d = at[i]
      BY <1>0, <1>2, <2>1
    <2>3. st2[at2[i] - 1] = st[at[i] - 1] /\ st2[at2[i]] = st[at[i]]
      BY <1>1, <2>2
    <2>4. ASSUME NEW k \in 1 .. Len(log'), k > at2[i], ~log'[k].step,
                 log'[k].fx.opts[o] # Keep, log'[k].fx.opts[o] = stk[i].after.opts[o]
          PROVE  log'[k].fx.opts[o] = stk[i].before.opts[o]
      <3>1. k \in 1 .. Len(l) - d
        BY <1>1
      <3>2. k + d \in 1 .. Len(l) /\ k + d > at[i] /\ log'[k] = l[k + d]
        BY <1>0, <1>1, <1>2, <2>1, <2>4, <3>1
      <3>3. QED
        BY <2>4, <3>2 DEF OptionsTold
    <2>5. QED
      BY <2>3, <2>4 DEF OptionsTold
  <1>5. OptionsTold(st2, at2, log', stk, C)
    BY <1>4 DEF OptionsTold
  <1>6. QED
    BY <1>1, <1>3, <1>5

LEMMA OptionsEnter ==
  ASSUME SessInv, FxTyped, NEW st, NEW at, History(st, at), OptionsNow(st), running,
         OptionsTold(st, at, log, undostk, clash),
         NEW c, NEW l2, NEW st2, NEW at2, Enters(st, at, c, l2, st2, at2)
  PROVE  OptionsTold(st2, at2, l2, undostk', clash')
  <1> DEFINE n == Len(log)
  <1>0. n \in Nat /\ Len(l2) = n + 1
    BY EntriesTyped DEF History, Enters
  <1> HIDE DEF n
  <1>1. SUFFICES ASSUME NEW o \in Opt \ clash', NEW i \in Real(undostk')
        PROVE  /\ undostk'[i].before.opts[o] = st2[at2[i] - 1].opts[o]
               /\ undostk'[i].after.opts[o] = st2[at2[i]].opts[o]
               /\ \A k \in 1 .. Len(l2) :
                    /\ k > at2[i] /\ ~l2[k].step /\ l2[k].fx.opts[o] # Keep
                    /\ l2[k].fx.opts[o] = undostk'[i].after.opts[o]
                    => l2[k].fx.opts[o] = undostk'[i].before.opts[o]
    BY DEF OptionsTold
  <1>2. o \in Opt \ clash
    BY DEF Enters
  <1>3. at2[i] \in 1 .. n + 1
    BY <1>0 DEF Enters, Matched, Undone
  <1>4. opts[o] = Apply(fx, st[n]).opts[o]
    BY <1>2 DEF OptionsNow, n
  <1>s. /\ \A m \in 0 .. n : st2[m] = st[m]
        /\ st2[n + 1] = Apply(fx, st[n])
        /\ \A k \in 1 .. n : l2[k].fx = log[k].fx
        /\ l2[n + 1].fx = fx
    BY DEF Enters, n
  <1>5. CASE i + c \in Real(undostk) /\ undostk'[i] = undostk[i + c] /\ at2[i] = at[i + c]
    <2>1. at[i + c] \in 1 .. n
      BY <1>5 DEF History, Matched, Undone, n
    <2>2. /\ undostk[i + c].before.opts[o] = st[at[i + c] - 1].opts[o]
          /\ undostk[i + c].after.opts[o] = st[at[i + c]].opts[o]
          /\ \A k \in 1 .. n :
               /\ k > at[i + c] /\ ~log[k].step /\ log[k].fx.opts[o] # Keep
               /\ log[k].fx.opts[o] = undostk[i + c].after.opts[o]
               => log[k].fx.opts[o] = undostk[i + c].before.opts[o]
      BY <1>2, <1>5 DEF OptionsTold, n
    <2>3. at2[i] - 1 \in 0 .. n /\ at2[i] \in 0 .. n
      BY <1>0, <1>5, <2>1
    <2>4. ASSUME NEW k \in 1 .. Len(l2), k > at2[i], ~l2[k].step, l2[k].fx.opts[o] # Keep,
                 l2[k].fx.opts[o] = undostk'[i].after.opts[o]
          PROVE  l2[k].fx.opts[o] = undostk'[i].before.opts[o]
      <3>1. CASE k \in 1 .. n
        <4>1. ~(k < at2[i])
          BY <1>3, <2>4
        <4>2. l2[k].step = log[k].step
          BY <3>1, <4>1 DEF Enters, n
        <4>3. l2[k].fx = log[k].fx
          BY <1>s, <3>1
        <4>4. QED
          BY <1>5, <2>2, <2>4, <3>1, <4>2, <4>3
      <3>2. CASE k = n + 1
        <4>1. l2[k].fx = fx /\ Clashes(undostk) \subseteq clash'
          BY <1>s, <2>4, <3>2 DEF Enters, n
        <4>2. fx.opts[o] # Keep /\ fx.opts[o] = opts[o]
          BY <2>4, <4>1 DEF FxTyped
        <4>3. ~(undostk[i + c].after.opts[o] = opts[o] /\ undostk[i + c].before.opts[o] # opts[o])
          BY <1>5, <4>1, <4>2 DEF Clashes, Real
        <4>4. QED
          BY <1>5, <2>4, <4>1, <4>2, <4>3
      <3>3. QED
        BY <1>0, <3>1, <3>2
    <2>5. QED
      BY <1>5, <1>s, <2>2, <2>3, <2>4
  <1>6. CASE /\ at2[i] = n + 1 /\ marked /\ undobefore # << >>
             /\ undostk'[i].before = undobefore[1] /\ undostk'[i].after = Saved
    <2>1. undobefore[1].opts[o] = st[n].opts[o]
      BY <1>2, <1>6 DEF OptionsNow, n
    <2>2. Saved.opts[o] = opts[o]
      BY DEF Saved
    <2>3. at2[i] - 1 = n /\ n \in 0 .. n /\ \A k \in 1 .. Len(l2) : ~(k > at2[i])
      BY <1>0, <1>6
    <2>4. QED
      BY <1>4, <1>6, <1>s, <2>1, <2>2, <2>3
  <1>7. QED
    BY <1>5, <1>6 DEF Enters, n

LEMMA OptionsEnd ==
  ASSUME SessionAssumption, SessInv, SessInv', FxTyped, OptionsInv, EndCommand
  PROVE  OptionsInv'
  <1>1. PICK st, at : /\ History(st, at) /\ OptionsTold(st, at, log, undostk, clash)
                      /\ OptionsNow(st)
    BY DEF OptionsInv
  <1>2. /\ running /\ ~running' /\ fx' = Nothing /\ opts' = opts
        /\ undostk' \in Seq(Step) /\ undostk \in Seq(Step)
    BY DEF EndCommand, SessInv, StackTyped
  <1>3. clash \subseteq clash'
    BY DEF EndCommand, KeepStep, KeepNothing
  <1>4. \E l, st2, at2 :
          /\ l \in Seq(Entry) /\ Past(st2, base, l) /\ Matched(at2, l, undostk') /\ Settle(l)
          /\ OptionsTold(st2, at2, l, undostk', clash')
          /\ st2[Len(l)] = Apply(fx, st[Len(log)])
    <2>0. fx \in Effect
      BY DEF FxTyped
    <2>1. CASE fx = Nothing /\ undostk' = undostk /\ Settle(log)
      <3>1. OptionsTold(st, at, log, undostk', clash')
        BY <1>1, <1>3, <2>1 DEF OptionsTold
      <3>2. st[Len(log)] \in Pic
        <4>1. Len(log) \in 0 .. Len(log)
          BY <1>1, EntriesTyped DEF History
        <4>2. QED
          BY <1>1, <4>1 DEF History, Past
      <3>3. Apply(fx, st[Len(log)]) = st[Len(log)]
        <4>1. \A f \in Effect, s \in Pic : f.env = << >> /\ (\A o \in Opt : f.opts[o] = Keep)
                                           => Apply(f, s) = s
          BY DEF Apply, Pic, Effect
        <4>2. QED
          BY <2>0, <2>1, <3>2, <4>1, NothingDone
      <3>4. QED
        BY <1>1, <2>1, <3>1, <3>3 DEF History
    <2>2. ASSUME NEW c, NEW l2, NEW st2, NEW at2, Enters(st, at, c, l2, st2, at2), Settle(l2)
          PROVE  \E l, st3, at3 :
                   /\ l \in Seq(Entry) /\ Past(st3, base, l) /\ Matched(at3, l, undostk')
                   /\ Settle(l) /\ OptionsTold(st3, at3, l, undostk', clash')
                   /\ st3[Len(l)] = Apply(fx, st[Len(log)])
      <3>1. OptionsTold(st2, at2, l2, undostk', clash')
        BY <1>1, <1>2, <2>2, OptionsEnter
      <3>2. st2[Len(l2)] = Apply(fx, st[Len(log)])
        BY <2>2 DEF Enters
      <3>3. QED
        BY <2>2, <3>1, <3>2 DEF Enters
    <2>3. QED
      BY <1>1, <2>0, <2>1, <2>2, Entered
  <1>5. PICK l, st2, at2 :
          /\ l \in Seq(Entry) /\ Past(st2, base, l) /\ Matched(at2, l, undostk') /\ Settle(l)
          /\ OptionsTold(st2, at2, l, undostk', clash')
          /\ st2[Len(l)] = Apply(fx, st[Len(log)])
    BY <1>4
  <1>6. PICK st3, at3 :
           /\ base' \in Pic /\ log' \in Seq(Entry)
           /\ Past(st3, base', log') /\ Matched(at3, log', undostk')
           /\ OptionsTold(st3, at3, log', undostk', clash')
           /\ st3[Len(log')] = st2[Len(l)]
    <2>1. base \in Pic
      BY <1>1 DEF History
    <2>2. QED
      BY <1>2, <1>5, <2>1, OptionsSettle
  <1>7. History(st3, at3)'
    BY <1>6 DEF History
  <1>8. OptionsNow(st3)'
    <2>1. st3[Len(log')] \in Pic
      <3>1. Len(log') \in 0 .. Len(log')
        BY <1>6, EntriesTyped
      <3>2. QED
        BY <1>6, <3>1 DEF Past
    <2>2. \A o \in Opt : Apply(fx', st3[Len(log')]).opts[o] = st3[Len(log')].opts[o]
      BY <1>2, <2>1, NothingDone, AppliedIsPic
    <2>3. \A o \in Opt \ clash' : opts'[o] = Apply(fx, st[Len(log)]).opts[o]
      BY <1>1, <1>2, <1>3 DEF OptionsNow
    <2>4. QED
      BY <1>2, <1>5, <1>6, <2>2, <2>3 DEF OptionsNow
  <1>9. QED
    BY <1>6, <1>7, <1>8 DEF OptionsInv

(* Without the command u that is undone, an option is after the later      *)
(* commands as it was, unless it had the value a that u gave it: then it   *)
(* is what it was before u.                                                *)
Unclashed(l, st, u, o) ==
  \A k \in u + 1 .. Len(l) :
    l[k].fx.opts[o] # Keep /\ l[k].fx.opts[o] = st[u].opts[o]
      => l[k].fx.opts[o] = st[u - 1].opts[o]

LEMMA OptionRewound ==
  ASSUME NEW s, NEW l \in Seq(Entry), NEW stk, NEW st, NEW at, NEW u, NEW l2, NEW f, NEW st2,
         NEW a2, Past(st, s, l), Rewinds(s, l, stk, st, at, u, l2, f, st2, a2),
         NEW o \in Opt, Unclashed(l, st, u, o)
  PROVE  st2[Len(l) - 1].opts[o] = IF st[Len(l)].opts[o] = st[u].opts[o]
                                   THEN st[u - 1].opts[o] ELSE st[Len(l)].opts[o]
  <1> DEFINE a == st[u].opts[o]
             b == st[u - 1].opts[o]
             back(v) == IF v = a THEN b ELSE v
             S == {j \in Nat : u + j <= Len(l) =>
                                st2[(u + j) - 1].opts[o] = back(st[u + j].opts[o])}
  <1>0. Len(l) \in Nat
    BY EntriesTyped
  <1>r. /\ u \in 1 .. Len(l) /\ l2 \in Seq(Entry) /\ Len(l2) = Len(l) - 1
        /\ Past(st2, s, l2) /\ st2[u - 1] = st[u - 1]
        /\ \A i \in u .. Len(l) - 1 : l2[i] = l[i + 1]
    <2>1. u \in 1 .. Len(l)
      BY DEF Rewinds
    <2>2. u - 1 \in 0 .. u - 1
      BY <1>0, <2>1
    <2>3. QED
      BY <2>2 DEF Rewinds
  <1>1. 0 \in S
    <2>1. u + 0 = u
      BY <1>0, <1>r
    <2>2. QED
      BY <1>r, <2>1
  <1>2. ASSUME NEW j \in Nat, j \in S PROVE j + 1 \in S
    <2> DEFINE k == u + j
    <2>0. u + (j + 1) = k + 1 /\ (k + 1) - 1 = k
      BY <1>0, <1>r
    <2>1. SUFFICES ASSUME k + 1 <= Len(l) PROVE st2[k].opts[o] = back(st[k + 1].opts[o])
      BY <2>0
    <2>2. st2[k - 1].opts[o] = back(st[k].opts[o])
      BY <1>0, <1>r, <1>2, <2>1
    <2>3. /\ k \in u .. Len(l) - 1 /\ k \in 1 .. Len(l2) /\ k + 1 \in 1 .. Len(l)
          /\ k + 1 \in u + 1 .. Len(l) /\ (k + 1) - 1 = k
          /\ k - 1 \in 0 .. Len(l2) /\ k \in 0 .. Len(l)
      BY <1>0, <1>r, <2>1
    <2> HIDE DEF k
    <2> DEFINE g == l[k + 1].fx
    <2>4. g \in Effect /\ st[k] \in Pic /\ st2[k - 1] \in Pic
      BY <1>r, <2>3, EntriesTyped DEF Past
    <2>5. st[k + 1] = Apply(g, st[k]) /\ st2[k] = Apply(g, st2[k - 1])
      BY <1>r, <2>3 DEF Past
    <2> HIDE DEF g
    <2>6. /\ st[k + 1].opts[o] = IF g.opts[o] = Keep THEN st[k].opts[o] ELSE g.opts[o]
          /\ st2[k].opts[o] = IF g.opts[o] = Keep THEN st2[k - 1].opts[o] ELSE g.opts[o]
      BY <2>4, <2>5, AppliedIsPic
    <2>7. g.opts[o] # Keep /\ g.opts[o] = a => g.opts[o] = b
      BY <2>3 DEF g, Unclashed
    <2>8. QED
      BY <2>2, <2>6, <2>7
  <1> HIDE DEF S
  <1>3. Nat \subseteq S
    BY <1>1, <1>2, NatInSet
  <1>4. Len(l) - u \in S /\ u + (Len(l) - u) = Len(l)
    BY <1>0, <1>r, <1>3
  <1>5. QED
    BY <1>4 DEF S

LEMMA OptionsUndo ==
  ASSUME SessionAssumption, SessInv, FxTyped, OptionsInv, Undo
  PROVE  OptionsInv'
  <1>1. PICK st, at : /\ History(st, at) /\ OptionsTold(st, at, log, undostk, clash)
                      /\ OptionsNow(st)
    BY DEF OptionsInv
  <1> DEFINE n == Len(log)
             m == Len(undostk)
             f == Front(undostk)
  <1>2. /\ ~running /\ ~running' /\ fx' = fx /\ fx = Nothing /\ clash' = clash
        /\ undostk' = f /\ undostk \in Seq(Step) /\ undostk # << >>
        /\ m \in Nat /\ m > 0 /\ base \in Pic /\ log \in Seq(Entry) /\ n \in Nat
        /\ Past(st, base, log) /\ Matched(at, log, undostk)
    BY <1>1, EntriesTyped, LenProperties, EmptySeq
    DEF Undo, FxTyped, SessInv, StackTyped, History, Front
  <1>3. f \in Seq(Step) /\ Len(f) = m - 1 /\ \A i \in 1 .. m - 1 : f[i] = undostk[i]
    BY <1>2, FrontOfSeq DEF Front
  <1>4. st[n] \in Pic /\ \A o \in Opt \ clash : opts[o] = st[n].opts[o]
    <2>1. n \in 0 .. n
      BY <1>2
    <2>2. st[n] \in Pic
      BY <1>2, <2>1 DEF Past
    <2>3. \A o \in Opt : Apply(fx, st[n]).opts[o] = st[n].opts[o]
      BY <1>2, <2>2, NothingDone, AppliedIsPic
    <2>4. QED
      BY <1>1, <2>2, <2>3 DEF OptionsNow
  <1>5. CASE undostk[m].bare
    <2>1. UNCHANGED <<opts, base, log>>
      BY <1>5 DEF Undo
    <2> HIDE DEF f, m
    <2>2. Real(f) = Real(undostk) /\ \A i \in Real(f) : f[i] = undostk[i]
      BY <1>2, <1>3, <1>5 DEF Real, m
    <2> HIDE DEF n
    <2>3. History(st, at)'
      BY <1>2, <2>1, <2>2 DEF History, Matched
    <2>4. OptionsTold(st, at, log', undostk', clash')
      BY <1>1, <1>2, <2>1, <2>2 DEF OptionsTold
    <2>5. OptionsNow(st)'
      BY <1>1, <1>2, <2>1 DEF OptionsNow
    <2>6. QED
      BY <2>3, <2>4, <2>5 DEF OptionsInv
  <1>6. CASE ~undostk[m].bare
    <2> DEFINE u == LastOf(log)
               l2 == Without(log, u)
    <2>1. Settle(l2)
      BY <1>6 DEF Undo, LastOf, Without
    <2>2. \A o \in Opt : opts'[o] = OptionBack(o, undostk[m].before, undostk[m].after)
      BY <1>6 DEF Undo
    <2>r. PICK st2, a2 : Rewinds(base, log, undostk, st, at, u, l2, f, st2, a2)
      <3> HIDE DEF u, l2, f
      <3>1. u = LastOf(log) /\ l2 = Without(log, u) /\ f = Front(undostk)
        BY DEF u, l2, f
      <3>2. ~undostk[Len(undostk)].bare
        BY <1>6
      <3>3. QED
        BY <1>2, <3>1, <3>2, Rewound
    <2> HIDE DEF u, l2, f
    <2>3. /\ u = at[m] /\ u \in 1 .. n /\ m \in Real(undostk)
          /\ Real(f) = Real(undostk) \ {m}
          /\ \A i \in Real(f) : f[i] = undostk[i] /\ i < m /\ at[i] < u
          /\ \A k \in u + 1 .. n : ~log[k].step
          /\ l2 \in Seq(Entry) /\ Len(l2) = n - 1 /\ f \in Seq(Step)
          /\ \A i \in 1 .. u - 1 : l2[i] = log[i]
          /\ \A i \in u .. n - 1 : l2[i] = log[i + 1]
      BY <2>r DEF Rewinds
    <2>4. Past(st2, base, l2) /\ \A i \in 0 .. u - 1 : st2[i] = st[i]
      BY <2>r DEF Rewinds
    <2>5. \A i \in Real(f) : a2[i] = at[i]
      BY <2>r DEF Rewinds
    <2>6. Matched(a2, l2, f)
      BY <2>r DEF Rewinds
    <2> HIDE DEF m
    <2>7. OptionsTold(st2, a2, l2, f, clash)
      <3>1. SUFFICES ASSUME NEW o \in Opt \ clash, NEW i \in Real(f)
            PROVE  /\ f[i].before.opts[o] = st2[at[i] - 1].opts[o]
                   /\ f[i].after.opts[o] = st2[at[i]].opts[o]
                   /\ \A k \in 1 .. Len(l2) :
                        /\ k > at[i] /\ ~l2[k].step /\ l2[k].fx.opts[o] # Keep
                        /\ l2[k].fx.opts[o] = f[i].after.opts[o]
                        => l2[k].fx.opts[o] = f[i].before.opts[o]
        BY <2>5 DEF OptionsTold
      <3>2. i \in Real(undostk) /\ at[i] < u /\ f[i] = undostk[i] /\ at[i] \in 1 .. n
        BY <1>2, <2>3 DEF Matched, Undone
      <3>3. at[i] - 1 \in 0 .. u - 1 /\ at[i] \in 0 .. u - 1
        BY <1>2, <2>3, <3>2
      <3>4. /\ f[i].before.opts[o] = st[at[i] - 1].opts[o]
            /\ f[i].after.opts[o] = st[at[i]].opts[o]
            /\ \A k \in 1 .. n :
                 /\ k > at[i] /\ ~log[k].step /\ log[k].fx.opts[o] # Keep
                 /\ log[k].fx.opts[o] = f[i].after.opts[o]
                 => log[k].fx.opts[o] = f[i].before.opts[o]
        BY <1>1, <3>2 DEF OptionsTold
      <3>5. ASSUME NEW k \in 1 .. n - 1, k > at[i], ~l2[k].step, l2[k].fx.opts[o] # Keep,
                   l2[k].fx.opts[o] = f[i].after.opts[o]
            PROVE  l2[k].fx.opts[o] = f[i].before.opts[o]
        <4>1. CASE k < u
          <5>1. k \in 1 .. u - 1 /\ k \in 1 .. n
            BY <1>2, <2>3, <4>1
          <5>2. QED
            BY <2>3, <3>4, <3>5, <5>1
        <4>2. CASE k >= u
          <5>1. k \in u .. n - 1 /\ k + 1 \in 1 .. n /\ k + 1 > at[i]
            BY <1>2, <2>3, <3>2, <3>5, <4>2
          <5>2. QED
            BY <2>3, <3>4, <3>5, <5>1
        <4>3. QED
          BY <1>2, <2>3, <4>1, <4>2
      <3>6. QED
        BY <2>3, <2>4, <3>3, <3>4, <3>5
    <2>8. ASSUME NEW o \in Opt \ clash PROVE st2[n - 1].opts[o] = opts'[o]
      <3>1. /\ undostk[m].before.opts[o] = st[u - 1].opts[o]
            /\ undostk[m].after.opts[o] = st[u].opts[o]
            /\ \A k \in 1 .. n :
                 /\ k > u /\ ~log[k].step /\ log[k].fx.opts[o] # Keep
                 /\ log[k].fx.opts[o] = undostk[m].after.opts[o]
                 => log[k].fx.opts[o] = undostk[m].before.opts[o]
        BY <1>1, <2>3 DEF OptionsTold
      <3>2. \A k \in u + 1 .. n : k \in 1 .. n /\ k > u
        BY <1>2, <2>3
      <3>3. \A k \in u + 1 .. n :
              log[k].fx.opts[o] # Keep /\ log[k].fx.opts[o] = st[u].opts[o]
                => log[k].fx.opts[o] = st[u - 1].opts[o]
        BY <2>3, <3>1, <3>2
      <3>4. Unclashed(log, st, u, o) /\ o \in Opt
        BY <3>3 DEF Unclashed
      <3>5. st2[n - 1].opts[o] = IF st[n].opts[o] = st[u].opts[o]
                                 THEN st[u - 1].opts[o] ELSE st[n].opts[o]
        BY <1>2, <2>r, <3>4, OptionRewound
      <3>6. opts'[o] = IF opts[o] = st[u].opts[o] THEN st[u - 1].opts[o] ELSE opts[o]
        BY <2>2, <3>1 DEF OptionBack
      <3>7. QED
        BY <1>4, <3>5, <3>6
    <2>9. PICK st3, at3 :
             /\ base' \in Pic /\ log' \in Seq(Entry)
             /\ Past(st3, base', log') /\ Matched(at3, log', f)
             /\ OptionsTold(st3, at3, log', f, clash)
             /\ st3[Len(log')] = st2[Len(l2)]
      <3>1. /\ base \in Pic /\ l2 \in Seq(Entry) /\ f \in Seq(Step) /\ Past(st2, base, l2)
            /\ Matched(a2, l2, f) /\ Settle(l2) /\ OptionsTold(st2, a2, l2, f, clash)
        BY <1>2, <2>1, <2>3, <2>4, <2>6, <2>7 DEF l2
      <3>2. QED
        BY <3>1, OptionsSettle
    <2>10. History(st3, at3)'
      BY <1>2, <2>9 DEF History
    <2>11. OptionsNow(st3)'
      <3>1. st3[Len(log')] \in Pic
        <4>1. Len(log') \in 0 .. Len(log')
          BY <2>9, EntriesTyped
        <4>2. QED
          BY <2>9, <4>1 DEF Past
      <3>2. \A o \in Opt : Apply(fx', st3[Len(log')]).opts[o] = st3[Len(log')].opts[o]
        BY <1>2, <3>1, NothingDone, AppliedIsPic
      <3>3. QED
        BY <1>2, <2>3, <2>8, <2>9, <3>2 DEF OptionsNow
    <2>12. QED
      BY <1>2, <2>9, <2>10, <2>11 DEF OptionsInv
  <1>7. QED
    BY <1>5, <1>6

LEMMA HistoryBegins ==
  ASSUME NEW b \in Pic, NEW l, NEW stk, l = << >>, stk = << >>
  PROVE  \E st, at : /\ l \in Seq(Entry) /\ Past(st, b, l) /\ Matched(at, l, stk)
                     /\ st[Len(l)] = b /\ Real(stk) = {}
  <1> DEFINE st == [i \in 0 .. 0 |-> b]
             at == [i \in {} |-> 0]
  <1>1. l \in Seq(Entry) /\ Len(l) = 0 /\ Len(stk) = 0
    BY EmptySeq
  <1>2. Past(st, b, l)
    BY <1>1 DEF Past
  <1>3. Real(stk) = {} /\ Undone(l) = {}
    BY <1>1 DEF Real, Undone
  <1>4. Matched(at, l, stk)
    BY <1>3 DEF Matched
  <1>5. st[Len(l)] = b
    BY <1>1
  <1> HIDE DEF st, at
  <1>6. QED
    BY <1>1, <1>2, <1>3, <1>4, <1>5

(* The state the history ends in. *)
LEMMA LastState ==
  ASSUME FxTyped, NEW st, NEW at, History(st, at)
  PROVE  /\ Len(log) \in Nat /\ st[Len(log)] \in Pic /\ fx \in Effect
         /\ Apply(fx, st[Len(log)]) \in Pic
         /\ Shorter = Apply(fx, st[Len(log)])
         /\ \A o \in Opt : Apply(fx, st[Len(log)]).opts[o] =
                             IF fx.opts[o] = Keep THEN st[Len(log)].opts[o] ELSE fx.opts[o]
         /\ Apply(fx, st[Len(log)]).env =
                             IF fx.env = << >> THEN st[Len(log)].env ELSE fx.env[1]
  <1>1. Len(log) \in Nat /\ fx \in Effect /\ base \in Pic /\ log \in Seq(Entry)
        /\ Past(st, base, log)
    BY EntriesTyped DEF History, FxTyped
  <1>2. Len(log) \in 0 .. Len(log)
    BY <1>1
  <1>3. st[Len(log)] \in Pic
    BY <1>1, <1>2 DEF Past
  <1>4. AfterLog(base, log) = st[Len(log)]
    BY <1>1, AfterLogIs
  <1>5. QED
    BY <1>1, <1>3, <1>4, AppliedIsPic DEF Shorter

LEMMA OptionsBegin ==
  ASSUME FxTyped, OptionsInv, BeginCommand
  PROVE  OptionsInv'
  <1>1. PICK st, at : /\ History(st, at) /\ OptionsTold(st, at, log, undostk, clash)
                      /\ OptionsNow(st)
    BY DEF OptionsInv
  <1>2. /\ fx = Nothing /\ fx' = Nothing
        /\ UNCHANGED <<opts, undostk, base, log, clash>>
        /\ undobefore' \in {<<Saved>>, << >>}
    BY DEF BeginCommand, TakeBefore, FxTyped
  <1>3. History(st, at)' /\ OptionsTold(st, at, log', undostk', clash')
    BY <1>1, <1>2 DEF History
  <1>4. \A o \in Opt \ clash : opts[o] = st[Len(log)].opts[o]
    BY <1>1, <1>2, LastState, NothingDone DEF OptionsNow
  <1>5. undobefore' # << >> => undobefore'[1].opts = opts
    BY <1>2 DEF Saved
  <1>6. OptionsNow(st)'
    BY <1>1, <1>2, <1>4, <1>5 DEF OptionsNow
  <1>7. QED
    BY <1>3, <1>6 DEF OptionsInv

LEMMA OptionsWork ==
  ASSUME FileAssumption, SessionAssumption, SessInv, FxTyped, PlotTyped', FxTyped', OptionsInv,
         \/ \E id \in Live : Display(id)
         \/ DisplayOwn \/ CleanOnly
         \/ \E norset \in BOOLEAN : Clear(norset)
         \/ \E o \in Opt, v \in Val : SetOption(o, v)
  PROVE  OptionsInv'
  <1>1. PICK st, at : /\ History(st, at) /\ OptionsTold(st, at, log, undostk, clash)
                      /\ OptionsNow(st)
    BY DEF OptionsInv
  <1>2. /\ running /\ running' /\ fx' \in Effect
        /\ \A o \in Opt : \/ fx'.opts[o] = fx.opts[o] /\ opts'[o] = opts[o]
                          \/ fx'.opts[o] = opts'[o] /\ opts'[o] # Keep
        /\ UNCHANGED <<datagen, undostk, undobefore, marked, base, log, clash>>
    BY Reports
  <1>3. History(st, at)' /\ OptionsTold(st, at, log', undostk', clash')
    BY <1>1, <1>2 DEF History
  <1>4. st[Len(log)] \in Pic
        /\ \A o \in Opt : Apply(fx, st[Len(log)]).opts[o] =
                            IF fx.opts[o] = Keep THEN st[Len(log)].opts[o] ELSE fx.opts[o]
    BY <1>1, LastState
  <1>5. \A o \in Opt : Apply(fx', st[Len(log)]).opts[o] =
                         IF fx'.opts[o] = Keep THEN st[Len(log)].opts[o] ELSE fx'.opts[o]
    BY <1>2, <1>4, AppliedIsPic
  <1>6. \A o \in Opt \ clash : opts'[o] = Apply(fx', st[Len(log)]).opts[o]
    BY <1>1, <1>2, <1>4, <1>5 DEF OptionsNow
  <1>7. OptionsNow(st)'
    BY <1>1, <1>2, <1>6 DEF OptionsNow
  <1>8. QED
    BY <1>3, <1>7 DEF OptionsInv

LEMMA OptionsForget ==
  ASSUME FxTyped, OptionsInv,
         (\E n \in Limits : SetUndo(n)) \/ (\E all \in BOOLEAN : Reset(all))
  PROVE  OptionsInv'
  <1>1. PICK st, at : /\ History(st, at) /\ OptionsTold(st, at, log, undostk, clash)
                      /\ OptionsNow(st)
    BY DEF OptionsInv
  <1>2. undostk' = << >> /\ log' = << >> /\ fx' = Nothing /\ marked' = FALSE
    BY DEF SetUndo, Reset, ForgetSteps
  <1>3. base' \in Pic /\ \A o \in Opt \ clash' : opts'[o] = base'.opts[o]
    <2>1. CASE \E n \in Limits : SetUndo(n)
      <3>1. base' = Shorter /\ clash' = clash /\ opts' = opts
        BY <2>1 DEF SetUndo
      <3>2. QED
        BY <1>1, <3>1, LastState DEF OptionsNow
    <2>2. CASE \E all \in BOOLEAN : Reset(all)
      <3>1. base' = [opts |-> Defaults, env |-> NoPlot] /\ opts' = Defaults
        BY <2>2 DEF Reset
      <3>2. Defaults \in [Opt -> Int] /\ NoPlot \in Plot
        BY DEF Defaults, NoPlot, Plot
      <3>3. QED
        BY <3>1, <3>2 DEF Pic
    <2>3. QED
      BY <2>1, <2>2
  <1>4. PICK st2, at2 : /\ log' \in Seq(Entry) /\ Past(st2, base', log')
                        /\ Matched(at2, log', undostk')
                        /\ st2[Len(log')] = base' /\ Real(undostk') = {}
    BY <1>2, <1>3, HistoryBegins
  <1>5. History(st2, at2)' /\ OptionsTold(st2, at2, log', undostk', clash')
    BY <1>3, <1>4 DEF History, OptionsTold
  <1>6. \A o \in Opt : Apply(fx', st2[Len(log')]).opts[o] = base'.opts[o]
    BY <1>2, <1>3, <1>4, NothingDone, AppliedIsPic
  <1>7. OptionsNow(st2)'
    BY <1>2, <1>3, <1>6 DEF OptionsNow
  <1>8. QED
    BY <1>5, <1>7 DEF OptionsInv

LEMMA OptionsStay ==
  ASSUME FileAssumption, SessionAssumption, SessInv, SessInv', FxTyped, FxTyped', OptionsInv,
         [Next]_vars
  PROVE  OptionsInv'
  <1>1. CASE \/ \E id \in Live : Display(id)
             \/ DisplayOwn \/ CleanOnly
             \/ \E norset \in BOOLEAN : Clear(norset)
             \/ \E o \in Opt, v \in Val : SetOption(o, v)
    <2>1. PlotTyped'
      BY DEF SessInv
    <2>2. QED
      BY <1>1, <2>1, OptionsWork
  <1>2. CASE KeepHouse \/ UNCHANGED vars
    <2>1. UNCHANGED <<opts, undostk, undobefore, marked, running, base, log, fx, clash>>
      BY <1>2 DEF KeepHouse, Sub, undovars, histvars, vars, sessvars
    <2>2. QED
      BY <2>1 DEF OptionsInv, History, OptionsNow
  <1>3. CASE (\E n \in Limits : SetUndo(n)) \/ (\E all \in BOOLEAN : Reset(all))
    BY <1>3, OptionsForget
  <1>4. CASE BeginCommand
    BY <1>4, OptionsBegin
  <1>5. CASE EndCommand
    BY <1>5, OptionsEnd
  <1>6. CASE Undo
    BY <1>6, OptionsUndo
  <1>7. QED
    BY <1>1, <1>2, <1>3, <1>4, <1>5, <1>6 DEF Next

LEMMA FxAlways == Spec => []FxTyped
  <1>1. Init => FxTyped
    BY NothingDone DEF Init, FxTyped
  <1>2. SessInv /\ SessInv' /\ FxTyped /\ [Next]_vars => FxTyped'
    BY FileAssumption, SessionAssumption, FxStays DEF SessInv
  <1>3. QED
    BY <1>1, <1>2, SessAlways, PTL DEF Spec

LEMMA OptionsBeginTold ==
  ASSUME Init PROVE OptionsInv
  <1>1. /\ base \in Pic /\ log = << >> /\ undostk = << >> /\ fx = Nothing /\ ~running
        /\ opts = base.opts
    <2>1. base = [opts |-> Defaults, env |-> NoPlot]
      BY DEF Init
    <2>2. Defaults \in [Opt -> Int] /\ NoPlot \in Plot
      BY DEF Defaults, NoPlot, Plot
    <2>3. QED
      BY <2>1, <2>2 DEF Init, Pic
  <1>2. PICK st, at : /\ log \in Seq(Entry) /\ Past(st, base, log) /\ Matched(at, log, undostk)
                      /\ st[Len(log)] = base /\ Real(undostk) = {}
    BY <1>1, HistoryBegins
  <1>3. History(st, at) /\ OptionsTold(st, at, log, undostk, clash)
    BY <1>1, <1>2 DEF History, OptionsTold
  <1>4. OptionsNow(st)
    BY <1>1, <1>2, NothingDone, AppliedIsPic DEF OptionsNow
  <1>5. QED
    BY <1>3, <1>4 DEF OptionsInv

(* However commands, settings and undos follow one another, and whichever  *)
(* steps the limit drops or memory leaves bare, undo gives every option    *)
(* the value the commands that are left give it, as long as no setting was *)
(* put to the very value a kept step left it at: OptionsAsShorter, what    *)
(* gaundorest does with the snapshots of a step.                           *)
THEOREM UndoneOptionsAreShorter == Spec => []OptionsAsShorter
  <1>1. Init => OptionsInv
    BY OptionsBeginTold
  <1>2. SessInv /\ SessInv' /\ FxTyped /\ FxTyped' /\ OptionsInv /\ [Next]_vars => OptionsInv'
    BY FileAssumption, SessionAssumption, OptionsStay
  <1>3. FxTyped /\ OptionsInv => OptionsAsShorter
    <2>1. SUFFICES ASSUME FxTyped, OptionsInv PROVE OptionsAsShorter
      OBVIOUS
    <2>2. PICK st, at : History(st, at) /\ OptionsNow(st)
      BY <2>1 DEF OptionsInv
    <2>3. Shorter = Apply(fx, st[Len(log)])
      BY <2>1, <2>2, LastState
    <2>4. QED
      BY <2>2, <2>3 DEF OptionsNow, OptionsAsShorter
  <1>4. QED
    BY <1>1, <1>2, <1>3, SessAlways, FxAlways, PTL DEF Spec

-----------------------------------------------------------------------------
(* The scaling environment.                                                *)

(* The environment E is the one the history has, S, or off because         *)
(* coordinates were freed, before datagen was G, since S was made.         *)
Agrees(E, S, G) ==
  /\ IF E.on THEN S.on /\ S.own = E.own ELSE S.on => S.gen < G
  /\ S.gen <= G

(* How the environment E that was there after the first p commands of l,   *)
(* when datagen was G, stands to the steps J kept by then: it is off, and  *)
(* coordinates were freed since each of them began;                        *)
Lost(E, G, J, stk) == ~E.on /\ \A j \in J : stk[j].before.datagen < G

(* or a command after the last of them set it, to what none left it at;    *)
Since(E, J, p, at, l, stk) ==
  /\ \E k \in 1 .. p : l[k].fx.env # << >> /\ \A j \in J : at[j] < k
  /\ \A j \in J : E # stk[j].after.env

(* or it is as the last of them left it, and not set since.                *)
AsLeft(E, J, p, at, l, stk) ==
  \A j \in J : (\A i \in J : i <= j) =>
    /\ E = stk[j].after.env
    /\ \A k \in 1 .. p : k > at[j] => l[k].fx.env = << >>

Stands(E, G, J, p, st, at, l, stk) ==
  /\ Agrees(E, st[p].env, G)
  /\ \A j \in J : stk[j].before.datagen <= G
  /\ Lost(E, G, J, stk) \/ Since(E, J, p, at, l, stk) \/ AsLeft(E, J, p, at, l, stk)

Earlier(stk, m) == {j \in Real(stk) : j < m}

ScalingTold(st, at, l, stk) ==
  \A m \in Real(stk) :
    Stands(stk[m].before.env, stk[m].before.datagen, Earlier(stk, m), at[m] - 1,
           st, at, l, stk)

StandsNow(E, G, st, at) == Stands(E, G, Real(undostk), Len(log), st, at, log, undostk)

ScalingNow(st, at) ==
  /\ Agrees(env, Apply(fx, st[Len(log)]).env, datagen)
  /\ fx.env = << >> => StandsNow(env, datagen, st, at)
  /\ running /\ marked /\ undobefore # << >> =>
       StandsNow(undobefore[1].env, undobefore[1].datagen, st, at)

ScalingInv ==
  \E st, at : /\ History(st, at)
              /\ "env" \notin clash => /\ ScalingTold(st, at, log, undostk)
                                       /\ ScalingNow(st, at)

LEMMA StepsDated ==
  ASSUME NEW stk \in Seq(Step)
  PROVE  \A i \in Real(stk) : i \in Nat /\ i >= 1 /\ stk[i].before.datagen \in Nat
  <1>1. \A i \in 1 .. Len(stk) : stk[i] \in Step
    BY ElementOfSeq
  <1>2. \A x \in Step : x.before.datagen \in Nat
    BY DEF Step, Snap
  <1>3. Len(stk) \in Nat
    BY LenProperties
  <1>4. QED
    BY <1>1, <1>2, <1>3 DEF Real

LEMMA PlotsDated ==
  ASSUME NEW s, NEW l \in Seq(Entry), NEW st, Past(st, s, l)
  PROVE  \A p \in 0 .. Len(l) : st[p].env \in Plot /\ st[p].env.gen \in Nat
  BY DEF Past, Pic, Plot

(* Releases do no harm.                                                    *)
LEMMA StandsOn ==
  ASSUME NEW E, NEW G \in Nat, NEW G2 \in Nat, G <= G2, NEW J, NEW p, NEW st, NEW at, NEW l,
         NEW stk, st[p].env.gen \in Nat, \A j \in J : stk[j].before.datagen \in Nat,
         Stands(E, G, J, p, st, at, l, stk)
  PROVE  Stands(E, G2, J, p, st, at, l, stk)
  <1>1. Agrees(E, st[p].env, G2)
    <2>1. Agrees(E, st[p].env, G)
      BY DEF Stands
    <2>2. st[p].env.gen <= G2 /\ (st[p].env.gen < G => st[p].env.gen < G2)
      BY <2>1 DEF Agrees
    <2>3. QED
      BY <2>1, <2>2 DEF Agrees
  <1>2. \A j \in J : stk[j].before.datagen <= G2
    BY DEF Stands
  <1>3. Lost(E, G, J, stk) => Lost(E, G2, J, stk)
    BY DEF Lost
  <1>4. QED
    BY <1>1, <1>2, <1>3 DEF Stands

(* Nor does another log or stack that is the same so far, less a first     *)
(* step that is dropped.                                                   *)
Carried(J, p, st, at, l, stk, J2, st2, at2, l2, stk2, c) ==
  /\ c \in {0, 1}
  /\ st2[p] = st[p] /\ \A k \in 1 .. p : l2[k].fx = l[k].fx
  /\ J \subseteq Nat /\ J2 \subseteq Nat
  /\ \A j \in J2 : j + c \in J /\ stk2[j] = stk[j + c] /\ at2[j] = at[j + c]
  /\ \A i \in J : i > c => i - c \in J2

LEMMA StandsMoved ==
  ASSUME NEW E, NEW G, NEW J, NEW p \in Nat, NEW st, NEW at, NEW l, NEW stk,
         NEW J2, NEW st2, NEW at2, NEW l2, NEW stk2, NEW c,
         Stands(E, G, J, p, st, at, l, stk),
         Carried(J, p, st, at, l, stk, J2, st2, at2, l2, stk2, c)
  PROVE  Stands(E, G, J2, p, st2, at2, l2, stk2)
  <1>0. /\ c \in {0, 1}
        /\ st2[p] = st[p] /\ \A k \in 1 .. p : l2[k].fx = l[k].fx
        /\ J \subseteq Nat /\ J2 \subseteq Nat
        /\ \A j \in J2 : j + c \in J /\ stk2[j] = stk[j + c] /\ at2[j] = at[j + c]
        /\ \A i \in J : i > c => i - c \in J2
    BY DEF Carried
  <1>1. Agrees(E, st2[p].env, G) /\ \A j \in J2 : stk2[j].before.datagen <= G
    BY <1>0 DEF Stands
  <1>2. CASE Lost(E, G, J, stk)
    <2>1. Lost(E, G, J2, stk2)
      BY <1>0, <1>2 DEF Lost
    <2>2. QED
      BY <1>1, <2>1 DEF Stands
  <1>3. CASE Since(E, J, p, at, l, stk)
    <2>1. PICK k \in 1 .. p : l[k].fx.env # << >> /\ \A j \in J : at[j] < k
      BY <1>3 DEF Since
    <2>2. l2[k].fx.env # << >> /\ \A j \in J2 : at2[j] < k
      BY <1>0, <2>1
    <2>3. \A j \in J2 : E # stk2[j].after.env
      BY <1>0, <1>3 DEF Since
    <2>4. QED
      BY <1>1, <2>2, <2>3 DEF Stands, Since
  <1>4. CASE AsLeft(E, J, p, at, l, stk)
    <2>1. ASSUME NEW j \in J2, \A i \in J2 : i <= j
          PROVE  E = stk2[j].after.env /\ \A k \in 1 .. p : k > at2[j] => l2[k].fx.env = << >>
      <3>1. \A i \in J : i <= j + c
        <4>1. SUFFICES ASSUME NEW i \in J PROVE i <= j + c
          OBVIOUS
        <4>2. i \in Nat /\ j \in Nat /\ c \in Nat
          <5>1. c = 0 \/ c = 1
            BY <1>0
          <5>2. i \in Nat /\ j \in Nat
            BY <1>0
          <5>3. QED
            BY <5>1, <5>2
        <4>3. CASE i > c
          <5>1. i - c <= j
            BY <1>0, <2>1, <4>3
          <5>2. QED
            BY <4>2, <5>1
        <4>4. CASE ~(i > c)
          BY <4>2, <4>4
        <4>5. QED
          BY <4>3, <4>4
      <3>2. j + c \in J /\ stk2[j] = stk[j + c] /\ at2[j] = at[j + c]
        BY <1>0
      <3>3. E = stk[j + c].after.env /\ \A k \in 1 .. p : k > at[j + c] => l[k].fx.env = << >>
        BY <1>4, <3>1, <3>2 DEF AsLeft
      <3>4. QED
        BY <1>0, <3>2, <3>3
    <2>2. AsLeft(E, J2, p, at2, l2, stk2)
      BY <2>1 DEF AsLeft
    <2>3. QED
      BY <1>1, <2>2 DEF Stands
  <1>5. QED
    BY <1>2, <1>3, <1>4 DEF Stands

(* The log loses the commands before the first that can be undone.         *)
LEMMA StandsShifted ==
  ASSUME NEW E, NEW G, NEW J, NEW p, NEW d, NEW l \in Seq(Entry), NEW stk, NEW st, NEW at,
         NEW st2, NEW at2, Shifted(d, l, stk, st, at, st2, at2), Matched(at, l, stk),
         J \subseteq Real(stk), p \in d .. Len(l), Stands(E, G, J, p, st, at, l, stk)
  PROVE  Stands(E, G, J, p - d, st2, at2, log', stk)
  <1>0. /\ Len(l) \in Nat /\ d \in Nat /\ d <= Len(l) /\ p \in Nat /\ d <= p /\ p <= Len(l)
        /\ p - d \in 0 .. Len(l) - d /\ (p - d) + d = p
    BY EntriesTyped DEF Shifted
  <1>1. /\ \A i \in 1 .. Len(l) - d : log'[i] = l[i + d]
        /\ st2[p - d] = st[p]
        /\ \A j \in J : at[j] \in Nat /\ at[j] > d /\ at2[j] = at[j] - d
    <2>1. \A j \in Real(stk) : at[j] \in Nat
      BY <1>0 DEF Matched, Undone
    <2>2. st2[p - d] = st[(p - d) + d]
      BY <1>0 DEF Shifted
    <2>3. QED
      BY <1>0, <2>1, <2>2 DEF Shifted
  <1>2. Agrees(E, st2[p - d].env, G) /\ \A j \in J : stk[j].before.datagen <= G
    BY <1>1 DEF Stands
  <1>3. CASE Lost(E, G, J, stk)
    BY <1>2, <1>3 DEF Stands
  <1>4. CASE J = {}
    BY <1>2, <1>4 DEF Stands, AsLeft
  <1>5. CASE Since(E, J, p, at, l, stk) /\ J # {}
    <2>1. PICK k \in 1 .. p : l[k].fx.env # << >> /\ \A j \in J : at[j] < k
      BY <1>5 DEF Since
    <2>2. k > d
      BY <1>0, <1>1, <1>5, <2>1
    <2>3. k - d \in 1 .. p - d /\ k - d \in 1 .. Len(l) - d /\ (k - d) + d = k
      BY <1>0, <2>2
    <2>4. log'[k - d].fx.env # << >>
      BY <1>1, <2>1, <2>3
    <2>5. \A j \in J : at2[j] < k - d
      BY <1>0, <1>1, <2>1
    <2>6. QED
      BY <1>2, <1>5, <2>3, <2>4, <2>5 DEF Stands, Since
  <1>6. CASE AsLeft(E, J, p, at, l, stk)
    <2>1. ASSUME NEW j \in J, \A i \in J : i <= j
          PROVE  /\ E = stk[j].after.env
                 /\ \A k \in 1 .. p - d : k > at2[j] => log'[k].fx.env = << >>
      <3>1. E = stk[j].after.env /\ \A k \in 1 .. p : k > at[j] => l[k].fx.env = << >>
        BY <1>6, <2>1 DEF AsLeft
      <3>2. ASSUME NEW k \in 1 .. p - d, k > at2[j] PROVE log'[k].fx.env = << >>
        <4>1. k + d \in 1 .. p /\ k + d > at[j] /\ k \in 1 .. Len(l) - d
          BY <1>0, <1>1, <3>2
        <4>2. QED
          BY <1>1, <3>1, <4>1
      <3>3. QED
        BY <3>1, <3>2
    <2>2. AsLeft(E, J, p - d, at2, log', stk)
      BY <2>1 DEF AsLeft
    <2>3. QED
      BY <1>2, <2>2 DEF Stands
  <1>7. QED
    BY <1>3, <1>4, <1>5, <1>6 DEF Stands

LEMMA ScalingSettle ==
  ASSUME base \in Pic, NEW l \in Seq(Entry), NEW stk \in Seq(Step), NEW st, NEW at,
         Past(st, base, l), Matched(at, l, stk), Settle(l), NEW clashed, NEW E, NEW G,
         clashed \/ /\ ScalingTold(st, at, l, stk)
                    /\ Stands(E, G, Real(stk), Len(l), st, at, l, stk)
  PROVE  \E st2, at2 :
           /\ base' \in Pic /\ log' \in Seq(Entry)
           /\ Past(st2, base', log') /\ Matched(at2, log', stk)
           /\ clashed \/ /\ ScalingTold(st2, at2, log', stk)
                         /\ Stands(E, G, Real(stk), Len(log'), st2, at2, log', stk)
  <1>0. Len(l) \in Nat
    BY EntriesTyped
  <1>a. PICK d, st2, at2 : Shifted(d, l, stk, st, at, st2, at2)
    BY Settled
  <1>1. /\ d \in 0 .. Len(l)
        /\ base' \in Pic /\ log' \in Seq(Entry) /\ Len(log') = Len(l) - d
        /\ Past(st2, base', log') /\ Matched(at2, log', stk)
        /\ \A i \in Real(stk) : at[i] > d /\ at2[i] = at[i] - d
    BY <1>a DEF Shifted
  <1>2. ASSUME ScalingTold(st, at, l, stk), NEW m \in Real(stk)
        PROVE  Stands(stk[m].before.env, stk[m].before.datagen, Earlier(stk, m), at2[m] - 1,
                      st2, at2, log', stk)
    <2>1. Stands(stk[m].before.env, stk[m].before.datagen, Earlier(stk, m), at[m] - 1,
                 st, at, l, stk)
      BY <1>2 DEF ScalingTold
    <2>2. at[m] \in 1 .. Len(l)
      BY DEF Matched, Undone
    <2>3. at[m] - 1 \in d .. Len(l) /\ (at[m] - 1) - d = at2[m] - 1
      BY <1>0, <1>1, <2>2
    <2>4. Earlier(stk, m) \subseteq Real(stk)
      BY DEF Earlier
    <2>5. Stands(stk[m].before.env, stk[m].before.datagen, Earlier(stk, m), (at[m] - 1) - d,
                 st2, at2, log', stk)
      BY <1>a, <2>1, <2>3, <2>4, StandsShifted
    <2>6. QED
      BY <2>3, <2>5
  <1>3. ASSUME Stands(E, G, Real(stk), Len(l), st, at, l, stk)
        PROVE  Stands(E, G, Real(stk), Len(log'), st2, at2, log', stk)
    <2>1. Len(l) \in d .. Len(l)
      BY <1>0, <1>1
    <2>2. QED
      BY <1>a, <1>1, <1>3, <2>1, StandsShifted
  <1>4. ScalingTold(st, at, l, stk) => ScalingTold(st2, at2, log', stk)
    BY <1>2 DEF ScalingTold
  <1>5. QED
    BY <1>1, <1>3, <1>4

(* What stood for the steps J of the old stack stands for those of them    *)
(* that the new one still has.                                             *)
LEMMA StandsEntered ==
  ASSUME undostk \in Seq(Step), undostk' \in Seq(Step), NEW st, NEW at, NEW c, NEW l2, NEW st2,
         NEW at2, Enters(st, at, c, l2, st2, at2), NEW E, NEW G, NEW p \in 0 .. Len(log),
         NEW J, J \subseteq Real(undostk), NEW J2, J2 \subseteq Real(undostk'),
         \A j \in J2 : j + c \in J /\ undostk'[j] = undostk[j + c] /\ at2[j] = at[j + c],
         \A i \in J : i > c => i - c \in J2,
         Stands(E, G, J, p, st, at, log, undostk)
  PROVE  Stands(E, G, J2, p, st2, at2, l2, undostk')
  <1>1. c \in {0, 1} /\ st2[p] = st[p] /\ (\A k \in 1 .. p : l2[k].fx = log[k].fx) /\ p \in Nat
    <2>1. p \in Nat /\ \A k \in 1 .. p : k \in 1 .. Len(log)
      OBVIOUS
    <2>2. QED
      BY <2>1 DEF Enters
  <1>2. J \subseteq Nat /\ J2 \subseteq Nat
    BY StepsDated
  <1>3. Carried(J, p, st, at, log, undostk, J2, st2, at2, l2, undostk', c)
    BY <1>1, <1>2 DEF Carried
  <1>4. QED
    BY <1>1, <1>3, StandsMoved

LEMMA ScalingEnter ==
  ASSUME SessInv, SessInv', KeptInv, FxTyped, NEW st, NEW at, History(st, at), running,
         datagen \in Nat,
         NEW c, NEW l2, NEW st2, NEW at2, Enters(st, at, c, l2, st2, at2),
         "env" \notin clash', ScalingTold(st, at, log, undostk), ScalingNow(st, at)
  PROVE  /\ ScalingTold(st2, at2, l2, undostk')
         /\ Stands(env, datagen, Real(undostk'), Len(l2), st2, at2, l2, undostk')
  <1> DEFINE n == Len(log)
             m == Len(undostk)
             New(i) == /\ i = m + 1 - c /\ at2[i] = n + 1 /\ marked /\ undobefore # << >>
                       /\ undostk'[i].before = undobefore[1] /\ undostk'[i].after = Saved
             Old(i) == i + c \in Real(undostk) /\ undostk'[i] = undostk[i + c]
                       /\ at2[i] = at[i + c]
  <1>1. undostk \in Seq(Step) /\ undostk' \in Seq(Step) /\ n \in Nat /\ m \in Nat
        /\ Past(st, base, log) /\ Matched(at, log, undostk) /\ log \in Seq(Entry)
    BY EntriesTyped, LenProperties DEF SessInv, StackTyped, History
  <1>2. /\ c \in {0, 1} /\ l2 \in Seq(Entry) /\ Len(l2) = n + 1
        /\ Matched(at2, l2, undostk')
        /\ \A i \in 0 .. n : st2[i] = st[i]
        /\ st2[n + 1] = Apply(fx, st[n]) /\ l2[n + 1].fx = fx
        /\ \A i \in Real(undostk') : Old(i) \/ New(i)
        /\ \A i \in Real(undostk) : i > c => i - c \in Real(undostk')
        /\ Clashes(undostk) \subseteq clash' \/ l2[n + 1].step
    BY DEF Enters
  <1>3. /\ \A k \in 1 .. n : l2[k].fx = log[k].fx
        /\ c \in Nat
    BY <1>2 DEF Enters
  <1> HIDE DEF n, m
  <1>4. /\ \A i \in Real(undostk) : i \in 1 .. m
        /\ \A i \in Real(undostk') : i \in Nat /\ i >= 1 /\ at2[i] \in 1 .. n + 1
    BY <1>1, <1>2, StepsDated DEF Real, Matched, Undone, m
  <1>5. \A i \in Real(undostk) : at[i] \in 1 .. n
    BY <1>1 DEF Matched, Undone, n
  <1>6. ASSUME NEW i \in Real(undostk'), Old(i)
        PROVE  Stands(undostk'[i].before.env, undostk'[i].before.datagen,
                      Earlier(undostk', i), at2[i] - 1, st2, at2, l2, undostk')
    <2> DEFINE J == Earlier(undostk, i + c)
               J2 == Earlier(undostk', i)
               p == at2[i] - 1
    <2>1. Stands(undostk'[i].before.env, undostk'[i].before.datagen, J, p, st, at, log, undostk)
      BY <1>6 DEF ScalingTold
    <2>2. p \in 0 .. n
      BY <1>1, <1>5, <1>6
    <2>3. J \subseteq Real(undostk) /\ J2 \subseteq Real(undostk')
      BY DEF Earlier
    <2>4. ASSUME NEW j \in J2 PROVE j + c \in J /\ Old(j)
      <3>1. j \in Real(undostk') /\ j < i
        BY DEF Earlier
      <3>2. Old(j)
        <4>1. i + c <= m /\ i \in Nat /\ j \in Nat
          BY <1>4, <1>6, <3>1
        <4>2. ~New(j)
          BY <1>1, <1>3, <3>1, <4>1
        <4>3. QED
          BY <1>2, <3>1, <4>2
      <3>3. j + c < i + c
        BY <1>3, <1>4, <3>1
      <3>4. QED
        BY <3>2, <3>3 DEF Earlier
    <2>5. ASSUME NEW j \in J, j > c PROVE j - c \in J2
      <3>1. j \in Real(undostk) /\ j < i + c /\ j \in Nat
        BY <1>4 DEF Earlier
      <3>2. j - c \in Real(undostk')
        BY <1>2, <2>5, <3>1
      <3>i. i \in Nat
        BY <1>4
      <3>4. j - c < i
        BY <1>3, <3>1, <3>i
      <3>3. QED
        BY <3>2, <3>4 DEF Earlier
    <2> HIDE DEF J, J2, p
    <2>6. p \in 0 .. Len(log)
      BY <2>2 DEF n
    <2>7. Stands(undostk'[i].before.env, undostk'[i].before.datagen, J2, p,
                 st2, at2, l2, undostk')
      BY <1>1, <2>1, <2>3, <2>4, <2>5, <2>6, StandsEntered
    <2>8. QED
      BY <2>7 DEF J2, p
  <1>7. ASSUME NEW E, NEW G, StandsNow(E, G, st, at), NEW J2,
               J2 \subseteq Real(undostk'), \A j \in J2 : Old(j),
               \A j \in Real(undostk') : Old(j) => j \in J2
        PROVE  Stands(E, G, J2, n, st2, at2, l2, undostk')
    <2>1. Stands(E, G, Real(undostk), n, st, at, log, undostk)
      BY <1>7 DEF StandsNow, n
    <2>2. ASSUME NEW i \in Real(undostk), i > c PROVE i - c \in J2
      <3>1. i - c \in Real(undostk') /\ i \in 1 .. m
        BY <1>2, <1>4, <2>2
      <3>2. ~New(i - c)
        BY <1>1, <1>3, <3>1
      <3>3. QED
        BY <1>2, <1>7, <3>1, <3>2
    <2>3. n \in 0 .. Len(log)
      BY <1>1 DEF n
    <2>4. QED
      BY <1>1, <1>7, <2>1, <2>2, <2>3, StandsEntered
  <1>8. ASSUME NEW i \in Real(undostk'), New(i)
        PROVE  Stands(undostk'[i].before.env, undostk'[i].before.datagen,
                      Earlier(undostk', i), at2[i] - 1, st2, at2, l2, undostk')
    <2>1. StandsNow(undobefore[1].env, undobefore[1].datagen, st, at)
      BY <1>8 DEF ScalingNow
    <2>2. ASSUME NEW j \in Earlier(undostk', i) PROVE Old(j)
      <3>1. j \in Real(undostk') /\ j < i
        BY DEF Earlier
      <3>2. ~New(j)
        BY <1>1, <1>3, <1>4, <1>8, <3>1
      <3>3. QED
        BY <1>2, <3>1, <3>2
    <2>3. ASSUME NEW j \in Real(undostk'), Old(j) PROVE j \in Earlier(undostk', i)
      <3>1. j + c <= m /\ j \in Nat /\ i = m + 1 - c
        <4>1. j + c \in 1 .. m /\ j \in Nat
          BY <1>4, <2>3
        <4>2. QED
          BY <1>1, <1>3, <1>8, <4>1
      <3>2. j < i
        BY <1>1, <1>3, <3>1
      <3>3. QED
        BY <3>2 DEF Earlier
    <2>4. Earlier(undostk', i) \subseteq Real(undostk')
      BY DEF Earlier
    <2>5. Stands(undobefore[1].env, undobefore[1].datagen, Earlier(undostk', i), n,
                 st2, at2, l2, undostk')
      BY <1>7, <2>1, <2>2, <2>3, <2>4
    <2>6. at2[i] - 1 = n
      BY <1>1, <1>8
    <2>7. QED
      BY <1>8, <2>5, <2>6
  <1>9. ScalingTold(st2, at2, l2, undostk')
    BY <1>2, <1>6, <1>8 DEF ScalingTold
  <1>10. Agrees(env, st2[n + 1].env, datagen)
    BY <1>2 DEF ScalingNow, n
  <1>11. CASE \E i \in Real(undostk') : New(i)
    <2>1. PICK i \in Real(undostk') : New(i)
      BY <1>11
    <2>2. \A j \in Real(undostk') : j <= i
      <3>1. SUFFICES ASSUME NEW j \in Real(undostk') PROVE j <= i
        OBVIOUS
      <3>2. CASE New(j)
        BY <1>4, <2>1, <3>2
      <3>3. CASE Old(j)
        <4>1. j + c \in 1 .. m /\ j \in Nat
          BY <1>4, <3>3
        <4>2. QED
          BY <1>1, <1>3, <2>1, <4>1
      <3>4. QED
        BY <1>2, <3>2, <3>3
    <2>3. AsLeft(env, Real(undostk'), n + 1, at2, l2, undostk')
      <3>1. SUFFICES ASSUME NEW j \in Real(undostk'), \A x \in Real(undostk') : x <= j
                     PROVE  /\ env = undostk'[j].after.env
                            /\ \A k \in 1 .. n + 1 : k > at2[j] => l2[k].fx.env = << >>
        BY DEF AsLeft
      <3>2. j = i
        BY <1>4, <2>2, <3>1
      <3>3. env = undostk'[j].after.env
        BY <2>1, <3>2 DEF Saved
      <3>4. \A k \in 1 .. n + 1 : ~(k > at2[j])
        BY <1>1, <2>1, <3>2
      <3>5. QED
        BY <3>3, <3>4
    <2>4. ASSUME NEW j \in Real(undostk') PROVE undostk'[j].before.datagen <= datagen
      <3>1. CASE New(j)
        <4>1. 1 \in 1 .. Len(undobefore)
          BY <3>1, EmptySeq, LenProperties DEF SessInv, StackTyped
        <4>2. Fits(undobefore[1], datagen, Live)
          BY <4>1 DEF KeptInv
        <4>3. QED
          BY <3>1, <4>2 DEF Fits
      <3>2. CASE Old(j)
        <4>1. j + c \in 1 .. Len(undostk)
          BY <3>2 DEF Real
        <4>2. Fits(undostk[j + c].before, datagen, Live)
          BY <4>1 DEF KeptInv
        <4>3. QED
          BY <3>2, <4>2 DEF Fits
      <3>3. QED
        BY <1>2, <3>1, <3>2
    <2>5. QED
      BY <1>2, <1>9, <1>10, <2>3, <2>4 DEF Stands
  <1>12. CASE \A i \in Real(undostk') : ~New(i)
    <2>1. \A i \in Real(undostk') : Old(i)
      BY <1>2, <1>12
    <2>2. ASSUME NEW j \in Real(undostk') PROVE undostk'[j].before.datagen <= datagen
      <3>1. j + c \in 1 .. Len(undostk)
        BY <2>1 DEF Real
      <3>2. Fits(undostk[j + c].before, datagen, Live)
        BY <3>1 DEF KeptInv
      <3>3. QED
        BY <2>1, <3>2 DEF Fits
    <2>3. \A j \in Real(undostk') : at2[j] \in 1 .. n
      BY <1>5, <2>1
    <2>4. CASE fx.env = << >>
      <3>1. StandsNow(env, datagen, st, at)
        BY <2>4 DEF ScalingNow
      <3>2. Stands(env, datagen, Real(undostk'), n, st2, at2, l2, undostk')
        BY <1>7, <2>1, <3>1
      <3>3. l2[n + 1].fx.env = << >>
        BY <1>2, <2>4
      <3>4. \A k \in 1 .. n : k \in 1 .. n + 1
        BY <1>1
      <3>5. Since(env, Real(undostk'), n, at2, l2, undostk')
              => Since(env, Real(undostk'), n + 1, at2, l2, undostk')
        BY <3>4 DEF Since
      <3>6. \A k \in 1 .. n + 1 : k \in 1 .. n \/ k = n + 1
        BY <1>1
      <3>7. AsLeft(env, Real(undostk'), n, at2, l2, undostk')
              => AsLeft(env, Real(undostk'), n + 1, at2, l2, undostk')
        BY <3>3, <3>6 DEF AsLeft
      <3>8. QED
        BY <1>2, <1>9, <1>10, <2>2, <3>2, <3>5, <3>7 DEF Stands
    <2>5. CASE fx.env # << >>
      <3>1. ~l2[n + 1].step
        <4>1. SUFFICES ASSUME l2[n + 1].step PROVE FALSE
          OBVIOUS
        <4>2. n + 1 \in Undone(l2)
          BY <1>1, <1>2, <4>1 DEF Undone
        <4>3. PICK i \in Real(undostk') : at2[i] = n + 1
          BY <1>2, <4>2 DEF Matched
        <4>4. QED
          BY <1>1, <2>3, <4>3
      <3>2. "env" \notin Clashes(undostk)
        BY <1>2, <3>1
      <3>3. \A i \in Real(undostk) : undostk[i].after.env # env
        BY <2>5, <3>2 DEF Clashes, Real
      <3>4. \A j \in Real(undostk') : env # undostk'[j].after.env
        BY <2>1, <3>3
      <3>5. n + 1 \in 1 .. n + 1 /\ \A j \in Real(undostk') : at2[j] < n + 1
        BY <1>1, <2>3
      <3>6. l2[n + 1].fx.env # << >>
        BY <1>2, <2>5
      <3>7. Since(env, Real(undostk'), n + 1, at2, l2, undostk')
        BY <3>4, <3>5, <3>6 DEF Since
      <3>8. QED
        BY <1>2, <1>9, <1>10, <2>2, <3>7 DEF Stands
    <2>6. QED
      BY <2>4, <2>5
  <1>13. QED
    BY <1>11, <1>12

(* What stands after the last command of l stands once the log is settled. *)
LEMMA ScalingKept ==
  ASSUME base \in Pic, NEW l \in Seq(Entry), undostk' \in Seq(Step), NEW st, NEW at,
         Past(st, base, l), Matched(at, l, undostk'), Settle(l), ~running', fx' = Nothing,
         "env" \notin clash' =>
           /\ ScalingTold(st, at, l, undostk')
           /\ Stands(env', datagen', Real(undostk'), Len(l), st, at, l, undostk')
  PROVE  ScalingInv'
  <1> DEFINE clashed == "env" \in clash'
  <1>1. PICK st2, at2 :
           /\ base' \in Pic /\ log' \in Seq(Entry)
           /\ Past(st2, base', log') /\ Matched(at2, log', undostk')
           /\ clashed \/ /\ ScalingTold(st2, at2, log', undostk')
                         /\ Stands(env', datagen', Real(undostk'), Len(log'), st2, at2, log',
                                   undostk')
    <2>1. CASE clashed
      <3>1. TRUE \/ /\ ScalingTold(st, at, l, undostk')
                    /\ Stands(env', datagen', Real(undostk'), Len(l), st, at, l, undostk')
        OBVIOUS
      <3>2. QED
        BY <2>1, <3>1, ScalingSettle
    <2>2. CASE ~clashed
      <3>1. FALSE \/ /\ ScalingTold(st, at, l, undostk')
                     /\ Stands(env', datagen', Real(undostk'), Len(l), st, at, l, undostk')
        BY <2>2
      <3>2. QED
        BY <3>1, ScalingSettle
    <2>3. QED
      BY <2>1, <2>2
  <1>2. History(st2, at2)'
    BY <1>1 DEF History
  <1>3. Apply(fx', st2[Len(log')]).env = st2[Len(log')].env
    <2>1. Len(log') \in 0 .. Len(log')
      BY <1>1, EntriesTyped
    <2>2. st2[Len(log')] \in Pic
      BY <1>1, <2>1 DEF Past
    <2>3. QED
      BY <2>2, NothingDone, AppliedIsPic
  <1>4. ASSUME "env" \notin clash'
        PROVE  ScalingTold(st2, at2, log', undostk') /\ ScalingNow(st2, at2)'
    <2>1. /\ ScalingTold(st2, at2, log', undostk')
          /\ Stands(env', datagen', Real(undostk'), Len(log'), st2, at2, log', undostk')
      BY <1>1, <1>4
    <2>2. Agrees(env', Apply(fx', st2[Len(log')]).env, datagen')
      BY <1>3, <2>1 DEF Stands
    <2>3. StandsNow(env, datagen, st2, at2)'
      BY <2>1 DEF StandsNow
    <2>4. QED
      BY <2>1, <2>2, <2>3 DEF ScalingNow
  <1>5. QED
    BY <1>2, <1>4 DEF ScalingInv

LEMMA ScalingEnd ==
  ASSUME SessionAssumption, SessInv, SessInv', KeptInv, FxTyped, ScalingInv, EndCommand
  PROVE  ScalingInv'
  <1>1. PICK st, at : /\ History(st, at)
                      /\ "env" \notin clash => /\ ScalingTold(st, at, log, undostk)
                                               /\ ScalingNow(st, at)
    BY DEF ScalingInv
  <1>2. /\ running /\ ~running' /\ fx' = Nothing /\ UNCHANGED <<env, datagen>>
        /\ undostk' \in Seq(Step) /\ datagen \in Nat /\ base \in Pic /\ fx \in Effect
    <2>1. datagen \in Nat
      BY DEF SessInv, FilesInv, FilesTypeOK
    <2>2. running /\ ~running' /\ fx' = Nothing /\ UNCHANGED <<env, filevars>>
      BY DEF EndCommand
    <2>3. QED
      BY <1>1, <2>1, <2>2 DEF filevars, SessInv, StackTyped, History, FxTyped
  <1>3. clash \subseteq clash'
    BY DEF EndCommand, KeepStep, KeepNothing
  <1>4. CASE fx = Nothing /\ undostk' = undostk /\ Settle(log)
    <2>1. "env" \notin clash' =>
            /\ ScalingTold(st, at, log, undostk')
            /\ Stands(env', datagen', Real(undostk'), Len(log), st, at, log, undostk')
      BY <1>1, <1>2, <1>3, <1>4, NothingDone DEF ScalingNow, StandsNow
    <2>2. log \in Seq(Entry) /\ Past(st, base, log) /\ Matched(at, log, undostk')
      BY <1>1, <1>4 DEF History
    <2>3. QED
      BY <1>2, <1>4, <2>1, <2>2, ScalingKept
  <1>5. ASSUME NEW c, NEW l2, NEW st2, NEW at2, Enters(st, at, c, l2, st2, at2), Settle(l2)
        PROVE  ScalingInv'
    <2>1. ASSUME "env" \notin clash'
          PROVE  /\ ScalingTold(st2, at2, l2, undostk')
                 /\ Stands(env', datagen', Real(undostk'), Len(l2), st2, at2, l2, undostk')
      <3>1. /\ ScalingTold(st2, at2, l2, undostk')
            /\ Stands(env, datagen, Real(undostk'), Len(l2), st2, at2, l2, undostk')
        BY <1>1, <1>2, <1>3, <1>5, <2>1, ScalingEnter
      <3>2. QED
        BY <1>2, <3>1
    <2>2. l2 \in Seq(Entry) /\ Past(st2, base, l2) /\ Matched(at2, l2, undostk')
      BY <1>5 DEF Enters
    <2>3. QED
      BY <1>2, <1>5, <2>1, <2>2, ScalingKept
  <1>6. QED
    BY <1>1, <1>2, <1>4, <1>5, Entered

(* Without the command u that is undone, the environment is after the      *)
(* later commands as it was if one of them set it, else as before u.       *)
LEMMA EnvRewound ==
  ASSUME NEW s, NEW l \in Seq(Entry), NEW stk, NEW st, NEW at, NEW u, NEW l2, NEW f, NEW st2,
         NEW a2, Past(st, s, l), Rewinds(s, l, stk, st, at, u, l2, f, st2, a2)
  PROVE  \/ /\ \E k \in u + 1 .. Len(l) : l[k].fx.env # << >>
            /\ st2[Len(l) - 1].env = st[Len(l)].env
         \/ /\ \A k \in u + 1 .. Len(l) : l[k].fx.env = << >>
            /\ st[Len(l)].env = st[u].env
            /\ st2[Len(l) - 1].env = st[u - 1].env
  <1> DEFINE Set(n) == /\ \E k \in u + 1 .. n : l[k].fx.env # << >>
                       /\ st2[n - 1].env = st[n].env
             Not(n) == /\ \A k \in u + 1 .. n : l[k].fx.env = << >>
                       /\ st[n].env = st[u].env
                       /\ st2[n - 1].env = st[u - 1].env
             S == {j \in Nat : u + j <= Len(l) => Set(u + j) \/ Not(u + j)}
  <1>0. Len(l) \in Nat
    BY EntriesTyped
  <1>r. /\ u \in 1 .. Len(l) /\ l2 \in Seq(Entry) /\ Len(l2) = Len(l) - 1
        /\ Past(st2, s, l2) /\ st2[u - 1] = st[u - 1]
        /\ \A i \in u .. Len(l) - 1 : l2[i] = l[i + 1]
    <2>1. u \in 1 .. Len(l)
      BY DEF Rewinds
    <2>2. u - 1 \in 0 .. u - 1
      BY <1>0, <2>1
    <2>3. QED
      BY <2>2 DEF Rewinds
  <1>1. 0 \in S
    <2>1. u + 0 = u /\ \A k \in u + 1 .. u : FALSE
      BY <1>0, <1>r
    <2>2. Not(u)
      BY <1>r, <2>1
    <2> HIDE DEF Set, Not
    <2>3. QED
      BY <2>1, <2>2
  <1>2. ASSUME NEW j \in Nat, j \in S PROVE j + 1 \in S
    <2> DEFINE k == u + j
    <2>0. u + (j + 1) = k + 1 /\ (k + 1) - 1 = k
      BY <1>0, <1>r
    <2> HIDE DEF Set, Not
    <2>1. SUFFICES ASSUME k + 1 <= Len(l) PROVE Set(k + 1) \/ Not(k + 1)
      BY <2>0
    <2>2. Set(k) \/ Not(k)
      BY <1>0, <1>r, <1>2, <2>1
    <2>3. /\ k \in u .. Len(l) - 1 /\ k \in 1 .. Len(l2) /\ k + 1 \in 1 .. Len(l)
          /\ k + 1 \in u + 1 .. k + 1
          /\ k - 1 \in 0 .. Len(l2) /\ k \in 0 .. Len(l) /\ k \in Nat
          /\ \A i \in u + 1 .. k : i \in u + 1 .. k + 1
          /\ \A i \in u + 1 .. k + 1 : i \in u + 1 .. k \/ i = k + 1
      BY <1>0, <1>r, <2>1
    <2> HIDE DEF k
    <2> DEFINE g == l[k + 1].fx
    <2>4. g \in Effect /\ st[k] \in Pic /\ st2[k - 1] \in Pic
      BY <1>r, <2>3, EntriesTyped DEF Past
    <2>5. st[k + 1] = Apply(g, st[k]) /\ st2[k] = Apply(g, st2[k - 1])
      BY <1>r, <2>0, <2>3 DEF Past
    <2> HIDE DEF g
    <2>6. /\ st[k + 1].env = IF g.env = << >> THEN st[k].env ELSE g.env[1]
          /\ st2[k].env = IF g.env = << >> THEN st2[k - 1].env ELSE g.env[1]
      BY <2>4, <2>5, AppliedIsPic
    <2>7. CASE g.env # << >>
      <3>1. Set(k + 1)
        BY <2>0, <2>3, <2>6, <2>7 DEF Set, g
      <3>2. QED
        BY <3>1
    <2>8. CASE g.env = << >> /\ Set(k)
      <3>1. Set(k + 1)
        BY <2>0, <2>3, <2>6, <2>8 DEF Set
      <3>2. QED
        BY <3>1
    <2>9. CASE g.env = << >> /\ Not(k)
      <3>1. Not(k + 1)
        BY <2>0, <2>3, <2>6, <2>9 DEF Not, g
      <3>2. QED
        BY <3>1
    <2>10. QED
      BY <2>2, <2>7, <2>8, <2>9
  <1> HIDE DEF S
  <1>3. Nat \subseteq S
    BY <1>1, <1>2, NatInSet
  <1>4. Len(l) - u \in S /\ u + (Len(l) - u) = Len(l)
    BY <1>0, <1>r, <1>3
  <1> HIDE DEF Set, Not
  <1>5. Set(Len(l)) \/ Not(Len(l))
    BY <1>4 DEF S
  <1>6. QED
    BY <1>5 DEF Set, Not

(* What stood with the last step, and what had stood before its command,   *)
(* makes what stands once that command is undone (EnvBack).                *)
LEMMA StandsRewound ==
  ASSUME NEW s, NEW l \in Seq(Entry), NEW stk \in Seq(Step), NEW st, NEW at, NEW u, NEW l2,
         NEW f, NEW st2, NEW a2, Past(st, s, l), Rewinds(s, l, stk, st, at, u, l2, f, st2, a2),
         Matched(at, l, stk), NEW E, NEW G \in Nat, NEW D \in Nat, NEW B, NEW A, NEW off,
         D = stk[Len(stk)].before.datagen, B = stk[Len(stk)].before.env,
         A = stk[Len(stk)].after.env, ~off.on,
         Stands(E, G, Real(stk), Len(l), st, at, l, stk),
         Stands(B, D, Earlier(stk, Len(stk)), u - 1, st, at, l, stk)
  PROVE  Stands(IF E # A THEN E ELSE IF D = G THEN B ELSE off,
                G, Real(f), Len(l) - 1, st2, a2, l2, f)
  <1> DEFINE n == Len(l)
             m == Len(stk)
             E2 == IF E # A THEN E ELSE IF D = G THEN B ELSE off
  <1>0. n \in Nat /\ m \in Nat
    BY EntriesTyped, LenProperties
  <1>1. /\ u = at[m] /\ u \in 1 .. n /\ m \in Real(stk)
        /\ Real(f) = Real(stk) \ {m}
        /\ \A j \in Real(f) : f[j] = stk[j] /\ j < m /\ at[j] < u /\ a2[j] = at[j]
        /\ Len(l2) = n - 1
        /\ \A i \in 1 .. u - 1 : l2[i] = l[i]
        /\ \A i \in u .. n - 1 : l2[i] = l[i + 1]
    BY DEF Rewinds
  <1>2. \/ /\ \E k \in u + 1 .. n : l[k].fx.env # << >>
           /\ st2[n - 1].env = st[n].env
        \/ /\ \A k \in u + 1 .. n : l[k].fx.env = << >>
           /\ st[n].env = st[u].env
           /\ st2[n - 1].env = st[u - 1].env
    <2>1. /\ l \in Seq(Entry) /\ Past(st, s, l)
          /\ Rewinds(s, l, stk, st, at, u, l2, f, st2, a2)
      OBVIOUS
    <2>2. QED
      BY ONLY <2>1, EnvRewound
  <1>3. /\ st[n].env.gen \in Nat /\ st[u - 1].env.gen \in Nat
    <2>1. n \in 0 .. n /\ u - 1 \in 0 .. n
      BY <1>0, <1>1
    <2>2. QED
      BY <2>1, PlotsDated
  <1>d. /\ Stands(E, G, Real(stk), n, st, at, l, stk)
        /\ Stands(B, D, Earlier(stk, m), u - 1, st, at, l, stk)
        /\ D = stk[m].before.datagen /\ A = stk[m].after.env
    OBVIOUS
  <1> HIDE DEF n, m, E2
  <1>4. /\ \A j \in Real(stk) : j \in Nat /\ at[j] \in Nat /\ stk[j].before.datagen \in Nat
        /\ \A j \in Real(f) : j \in Real(stk) /\ j \in Earlier(stk, m)
        /\ Earlier(stk, m) \subseteq Real(f)
        /\ \A j \in Real(stk) : j <= m
    <2>1. \A j \in Real(stk) : j \in 1 .. m
      BY <1>0 DEF Real, m
    <2>2. \A j \in Real(stk) : j \in Nat /\ at[j] \in Nat /\ stk[j].before.datagen \in Nat
      BY <1>0, StepsDated DEF Matched, Undone, n
    <2>3. QED
      BY <1>0, <1>1, <2>1, <2>2 DEF Earlier
  <1>5. D <= G /\ \A j \in Real(f) : f[j].before.datagen \in Nat /\ f[j].before.datagen <= D
    BY <1>1, <1>4, <1>d DEF Stands
  <1>6. \A j \in Real(f) : f[j].before.datagen <= G
    BY <1>5
  <1>7. Agrees(E, st[n].env, G) /\ Agrees(B, st[u - 1].env, D)
    BY <1>d DEF Stands
  <1>8. ASSUME D < G, ~E2.on, \/ st2[n - 1].env = st[u - 1].env
                              \/ st2[n - 1].env = st[n].env /\ ~E.on
        PROVE  Stands(E2, G, Real(f), n - 1, st2, a2, l2, f)
    <2>1. Lost(E2, G, Real(f), f)
      BY <1>5, <1>8 DEF Lost
    <2>2. Agrees(E2, st2[n - 1].env, G)
      <3>1. CASE st2[n - 1].env = st[u - 1].env
        <4>1. st[u - 1].env.gen < G
          BY <1>3, <1>7, <1>8 DEF Agrees
        <4>2. QED
          BY <1>3, <1>8, <3>1, <4>1 DEF Agrees
      <3>2. CASE st2[n - 1].env = st[n].env /\ ~E.on
        BY <1>7, <1>8, <3>2 DEF Agrees
      <3>3. QED
        BY <1>8, <3>1, <3>2
    <2>3. QED
      BY <1>6, <2>1, <2>2 DEF Stands
  <1>9. CASE Lost(E, G, Real(stk), stk)
    <2>1. D < G /\ ~E.on
      BY <1>1, <1>9, <1>d DEF Lost
    <2>2. ~E2.on
      BY <2>1 DEF E2
    <2>3. Stands(E2, G, Real(f), n - 1, st2, a2, l2, f)
      BY <1>2, <1>8, <2>1, <2>2
    <2>4. QED
      BY <2>3 DEF E2, n
  <1>10. CASE Since(E, Real(stk), n, at, l, stk)
    <2>1. PICK k \in 1 .. n : l[k].fx.env # << >> /\ \A j \in Real(stk) : at[j] < k
      BY <1>10 DEF Since
    <2>2. E2 = E
      BY <1>1, <1>10, <1>d DEF Since, E2
    <2>3. u < k /\ k \in u + 1 .. n /\ k - 1 \in u .. n - 1 /\ k - 1 \in 1 .. n - 1
          /\ (k - 1) + 1 = k
      <3>1. u < k
        BY <1>1, <2>1
      <3>2. u \in 1 .. n /\ k \in 1 .. n
        BY <1>1
      <3>3. QED
        BY ONLY <1>0, <3>1, <3>2
    <2>4. st2[n - 1].env = st[n].env
      BY <1>2, <2>1, <2>3
    <2>5. l2[k - 1].fx.env # << >>
      BY <1>1, <2>1, <2>3
    <2>6. ASSUME NEW j \in Real(f) PROVE a2[j] < k - 1
      <3>1. a2[j] \in Nat /\ a2[j] < u
        BY <1>1, <1>4
      <3>2. u \in Nat /\ k - 1 \in Nat /\ u <= k - 1
        BY <1>0, <1>1, <2>3
      <3>3. QED
        BY ONLY <3>1, <3>2
    <2>7. \A j \in Real(f) : E2 # f[j].after.env
      BY <1>1, <1>4, <1>10, <2>2 DEF Since
    <2>8. Since(E2, Real(f), n - 1, a2, l2, f)
      BY <2>3, <2>5, <2>6, <2>7 DEF Since
    <2>9. Stands(E2, G, Real(f), n - 1, st2, a2, l2, f)
      BY <1>6, <1>7, <2>2, <2>4, <2>8 DEF Stands
    <2>10. QED
      BY <2>9 DEF E2, n
  <1>11. CASE AsLeft(E, Real(stk), n, at, l, stk)
    <2>1. E = A /\ \A k \in 1 .. n : k > u => l[k].fx.env = << >>
      BY <1>1, <1>4, <1>11, <1>d DEF AsLeft
    <2>2. \A k \in u + 1 .. n : k \in 1 .. n /\ k > u
      BY <1>0, <1>1
    <2>3. st2[n - 1].env = st[u - 1].env
      BY <1>2, <2>1, <2>2
    <2>4. CASE D # G
      <3>1. D < G /\ E2 = off
        BY <1>5, <2>1, <2>4 DEF E2
      <3>2. Stands(E2, G, Real(f), n - 1, st2, a2, l2, f)
        BY <1>8, <2>3, <3>1
      <3>3. QED
        BY <3>2 DEF E2, n
    <2>5. CASE D = G
      <3>1. E2 = B /\ Agrees(B, st2[n - 1].env, G)
        BY <1>7, <2>1, <2>3, <2>5 DEF E2
      <3>2. Real(f) = Earlier(stk, m)
        BY <1>4
      <3>3. CASE Lost(B, D, Earlier(stk, m), stk)
        <4>1. Lost(E2, G, Real(f), f)
          BY <1>1, <2>5, <3>1, <3>2, <3>3 DEF Lost
        <4>2. Stands(E2, G, Real(f), n - 1, st2, a2, l2, f)
          BY <1>6, <3>1, <4>1 DEF Stands
        <4>3. QED
          BY <4>2 DEF E2, n
      <3>4. CASE Since(B, Earlier(stk, m), u - 1, at, l, stk)
        <4>1. PICK k \in 1 .. u - 1 : /\ l[k].fx.env # << >>
                                      /\ \A j \in Earlier(stk, m) : at[j] < k
          BY <3>4 DEF Since
        <4>2. k \in 1 .. n - 1 /\ l2[k].fx.env # << >>
          BY <1>0, <1>1, <4>1
        <4>3. \A j \in Real(f) : a2[j] < k /\ E2 # f[j].after.env
          BY <1>1, <3>1, <3>2, <3>4, <4>1 DEF Since
        <4>4. Since(E2, Real(f), n - 1, a2, l2, f)
          BY <4>2, <4>3 DEF Since
        <4>5. Stands(E2, G, Real(f), n - 1, st2, a2, l2, f)
          BY <1>6, <3>1, <4>4 DEF Stands
        <4>6. QED
          BY <4>5 DEF E2, n
      <3>5. CASE AsLeft(B, Earlier(stk, m), u - 1, at, l, stk)
        <4>1. ASSUME NEW j \in Real(f), \A i \in Real(f) : i <= j
              PROVE  E2 = f[j].after.env /\ \A k \in 1 .. n - 1 : k > a2[j] => l2[k].fx.env = << >>
          <5>1. /\ B = stk[j].after.env
                /\ \A k \in 1 .. u - 1 : k > at[j] => l[k].fx.env = << >>
            BY <3>2, <3>5, <4>1 DEF AsLeft
          <5>2. ASSUME NEW k \in 1 .. n - 1, k > a2[j] PROVE l2[k].fx.env = << >>
            <6>1. CASE k < u
              <7>1. k \in 1 .. u - 1
                BY <1>0, <1>1, <6>1
              <7>2. QED
                BY <1>1, <5>1, <5>2, <7>1
            <6>2. CASE k >= u
              <7>1. k \in u .. n - 1 /\ k + 1 \in 1 .. n /\ k + 1 > u
                BY <1>0, <1>1, <6>2
              <7>2. QED
                BY <1>1, <2>1, <7>1
            <6>3. QED
              BY <1>0, <1>1, <6>1, <6>2
          <5>3. QED
            BY <1>1, <3>1, <5>1, <5>2
        <4>2. AsLeft(E2, Real(f), n - 1, a2, l2, f)
          BY <4>1 DEF AsLeft
        <4>3. Stands(E2, G, Real(f), n - 1, st2, a2, l2, f)
          BY <1>6, <3>1, <4>2 DEF Stands
        <4>4. QED
          BY <4>3 DEF E2, n
      <3>6. QED
        BY <1>d, <3>3, <3>4, <3>5 DEF Stands
    <2>6. QED
      BY <2>4, <2>5
  <1>12. QED
    BY <1>9, <1>10, <1>11, <1>d DEF Stands

LEMMA ToldRewound ==
  ASSUME NEW s, NEW l \in Seq(Entry), NEW stk \in Seq(Step), NEW st, NEW at, NEW u, NEW l2,
         NEW f, NEW st2, NEW a2, Rewinds(s, l, stk, st, at, u, l2, f, st2, a2),
         Matched(at, l, stk), ScalingTold(st, at, l, stk)
  PROVE  ScalingTold(st2, a2, l2, f)
  <1>0. Len(l) \in Nat
    BY EntriesTyped
  <1>1. /\ u \in 1 .. Len(l)
        /\ Real(f) = Real(stk) \ {Len(stk)}
        /\ \A j \in Real(f) : f[j] = stk[j] /\ j < Len(stk) /\ at[j] < u /\ a2[j] = at[j]
        /\ \A i \in 1 .. u - 1 : l2[i] = l[i]
        /\ \A i \in 0 .. u - 1 : st2[i] = st[i]
    BY DEF Rewinds
  <1>2. \A j \in Real(stk) : j \in Nat /\ at[j] \in 1 .. Len(l)
    BY StepsDated DEF Matched, Undone
  <1>3. Len(stk) \in Nat
    BY LenProperties
  <1>4. SUFFICES ASSUME NEW m \in Real(f)
                 PROVE  Stands(f[m].before.env, f[m].before.datagen, Earlier(f, m), a2[m] - 1,
                               st2, a2, l2, f)
    BY DEF ScalingTold
  <1> DEFINE J == Earlier(stk, m)
             J2 == Earlier(f, m)
             p == at[m] - 1
  <1>5. m \in Real(stk) /\ f[m] = stk[m] /\ a2[m] = at[m]
    BY <1>1
  <1>6. Stands(f[m].before.env, f[m].before.datagen, J, p, st, at, l, stk)
    BY <1>5 DEF ScalingTold
  <1>7. p \in Nat /\ p \in 0 .. u - 1 /\ \A k \in 1 .. p : k \in 1 .. u - 1
    BY <1>0, <1>1, <1>2, <1>5
  <1>8. J = J2 /\ J \subseteq Nat /\ \A j \in J : j \in Real(f)
    BY <1>1, <1>2, <1>3 DEF Earlier
  <1>9. \A j \in J : j + 0 = j /\ j - 0 = j
    BY <1>8
  <1> HIDE DEF J, J2, p
  <1>10. Carried(J, p, st, at, l, stk, J2, st2, a2, l2, f, 0)
    <2>1. 0 \in {0, 1}
      OBVIOUS
    <2>2. st2[p] = st[p] /\ \A k \in 1 .. p : l2[k].fx = l[k].fx
      BY <1>1, <1>7
    <2>3. \A j \in J2 : j + 0 \in J /\ f[j] = stk[j + 0] /\ a2[j] = at[j + 0]
      BY <1>1, <1>8, <1>9
    <2>4. \A i \in J : i > 0 => i - 0 \in J2
      BY <1>8, <1>9
    <2>5. QED
      BY <1>8, <2>1, <2>2, <2>3, <2>4 DEF Carried
  <1>11. Stands(f[m].before.env, f[m].before.datagen, J2, p, st2, a2, l2, f)
    BY <1>6, <1>7, <1>10, StandsMoved
  <1>12. QED
    BY <1>5, <1>11 DEF J2, p

LEMMA ScalingUndo ==
  ASSUME SessInv, SessInv', FxTyped, ScalingInv, Undo
  PROVE  ScalingInv'
  <1>1. PICK st, at : /\ History(st, at)
                      /\ "env" \notin clash => /\ ScalingTold(st, at, log, undostk)
                                               /\ ScalingNow(st, at)
    BY DEF ScalingInv
  <1> DEFINE n == Len(log)
             m == Len(undostk)
             f == Front(undostk)
             b == undostk[m].before
             a == undostk[m].after
             off == [env EXCEPT !.on = FALSE]
  <1>2. /\ ~running /\ ~running' /\ fx' = fx /\ fx = Nothing /\ clash' = clash
        /\ datagen' = datagen /\ undobefore' = undobefore /\ marked' = marked
        /\ undostk' = f /\ undostk \in Seq(Step) /\ undostk # << >> /\ f \in Seq(Step)
        /\ m \in Nat /\ m > 0 /\ base \in Pic /\ log \in Seq(Entry) /\ n \in Nat
        /\ Past(st, base, log) /\ Matched(at, log, undostk)
    BY <1>1, EntriesTyped, LenProperties, EmptySeq, FrontOfSeq
    DEF Undo, FxTyped, SessInv, StackTyped, History, Front
  <1>3. Len(f) = m - 1 /\ \A i \in 1 .. m - 1 : f[i] = undostk[i]
    BY <1>2, FrontOfSeq DEF Front
  <1>4. datagen \in Nat /\ ~off.on
    BY DEF SessInv, FilesInv, FilesTypeOK, PlotTyped
  <1>5. "env" \notin clash => StandsNow(env, datagen, st, at)
    BY <1>1, <1>2, NothingDone DEF ScalingNow
  <1>6. CASE undostk[m].bare
    <2>1. UNCHANGED <<env, base, log>>
      BY <1>6 DEF Undo
    <2> HIDE DEF f, m
    <2>2. Real(f) = Real(undostk) /\ \A i \in Real(f) : f[i] = undostk[i]
      BY <1>2, <1>3, <1>6 DEF Real, m
    <2> HIDE DEF n
    <2>3. History(st, at)'
      BY <1>2, <2>1, <2>2 DEF History, Matched
    <2>4. ASSUME NEW E, NEW G, NEW J, J \subseteq Real(f), NEW p
          PROVE  Stands(E, G, J, p, st, at, log, undostk) => Stands(E, G, J, p, st, at, log, f)
      <3>1. \A j \in J : f[j] = undostk[j]
        BY <2>2, <2>4
      <3>2. /\ Lost(E, G, J, undostk) => Lost(E, G, J, f)
            /\ Since(E, J, p, at, log, undostk) => Since(E, J, p, at, log, f)
            /\ AsLeft(E, J, p, at, log, undostk) => AsLeft(E, J, p, at, log, f)
        BY <3>1 DEF Lost, Since, AsLeft
      <3>3. (\A j \in J : undostk[j].before.datagen <= G) => \A j \in J : f[j].before.datagen <= G
        BY <3>1
      <3>4. QED
        BY <3>2, <3>3 DEF Stands
    <2>5. ASSUME "env" \notin clash
          PROVE  ScalingTold(st, at, log, f) /\ Stands(env, datagen, Real(f), n, st, at, log, f)
      <3>1. ASSUME NEW i \in Real(f)
            PROVE  Stands(f[i].before.env, f[i].before.datagen, Earlier(f, i), at[i] - 1,
                          st, at, log, f)
        <4>1. Earlier(f, i) = Earlier(undostk, i) /\ Earlier(f, i) \subseteq Real(f)
              /\ f[i] = undostk[i] /\ i \in Real(undostk)
          BY <2>2 DEF Earlier
        <4>2. Stands(f[i].before.env, f[i].before.datagen, Earlier(f, i), at[i] - 1,
                     st, at, log, undostk)
          BY <1>1, <2>5, <4>1 DEF ScalingTold
        <4>3. QED
          BY <2>4, <4>1, <4>2
      <3>2. Stands(env, datagen, Real(f), n, st, at, log, undostk)
        BY <1>5, <2>2, <2>5 DEF StandsNow, n
      <3>3. QED
        BY <2>4, <3>1, <3>2 DEF ScalingTold
    <2>6. "env" \notin clash => Agrees(env, Apply(fx, st[n]).env, datagen)
      BY <1>1 DEF ScalingNow, n
    <2>7. "env" \notin clash' => ScalingTold(st, at, log', undostk') /\ ScalingNow(st, at)'
      BY <1>2, <2>1, <2>5, <2>6 DEF ScalingNow, StandsNow, n
    <2>8. QED
      BY <2>3, <2>7 DEF ScalingInv
  <1>7. CASE ~undostk[m].bare
    <2> DEFINE u == LastOf(log)
               l2 == Without(log, u)
    <2>1. Settle(l2)
      BY <1>7 DEF Undo, LastOf, Without
    <2>2. env' = IF env # a.env THEN env ELSE IF b.datagen = datagen THEN b.env ELSE off
      BY <1>7 DEF Undo, EnvBack
    <2>r. PICK st2, a2 : Rewinds(base, log, undostk, st, at, u, l2, f, st2, a2)
      <3> HIDE DEF u, l2, f
      <3>1. u = LastOf(log) /\ l2 = Without(log, u) /\ f = Front(undostk)
        BY DEF u, l2, f
      <3>2. ~undostk[Len(undostk)].bare
        BY <1>7
      <3>3. QED
        BY <1>2, <3>1, <3>2, Rewound
    <2> HIDE DEF u, l2, f
    <2>3. /\ l2 \in Seq(Entry) /\ Len(l2) = n - 1 /\ Past(st2, base, l2) /\ Matched(a2, l2, f)
          /\ u = at[m] /\ m \in Real(undostk)
      BY <2>r DEF Rewinds
    <2>4. ASSUME "env" \notin clash
          PROVE  ScalingTold(st2, a2, l2, f) /\ Stands(env', datagen, Real(f), n - 1, st2, a2, l2, f)
      <3>1. ScalingTold(st, at, log, undostk) /\ Stands(env, datagen, Real(undostk), n, st, at, log, undostk)
        BY <1>1, <1>5, <2>4 DEF StandsNow
      <3>2. Stands(b.env, b.datagen, Earlier(undostk, m), u - 1, st, at, log, undostk)
        BY <2>3, <3>1 DEF ScalingTold
      <3>3. b.datagen \in Nat
        BY <1>2, <2>3, StepsDated
      <3>4. ScalingTold(st2, a2, l2, f)
        BY <1>2, <2>r, <3>1, ToldRewound
      <3>5. PICK D, B, A, o : D = b.datagen /\ B = b.env /\ A = a.env /\ o = off
        OBVIOUS
      <3>6. /\ D \in Nat /\ D = undostk[Len(undostk)].before.datagen
            /\ B = undostk[Len(undostk)].before.env /\ A = undostk[Len(undostk)].after.env
            /\ ~o.on
            /\ Stands(B, D, Earlier(undostk, Len(undostk)), u - 1, st, at, log, undostk)
            /\ Stands(env, datagen, Real(undostk), Len(log), st, at, log, undostk)
        BY <1>4, <3>1, <3>2, <3>3, <3>5
      <3>7. Stands(IF env # A THEN env ELSE IF D = datagen THEN B ELSE o,
                   datagen, Real(f), Len(log) - 1, st2, a2, l2, f)
        <4>1. /\ log \in Seq(Entry) /\ undostk \in Seq(Step) /\ datagen \in Nat
              /\ Past(st, base, log) /\ Matched(at, log, undostk)
              /\ Rewinds(base, log, undostk, st, at, u, l2, f, st2, a2)
          BY <1>2, <1>4, <2>r
        <4> HIDE DEF f
        <4>2. QED
          BY ONLY <3>6, <4>1, StandsRewound
      <3>8. env' = IF env # A THEN env ELSE IF D = datagen THEN B ELSE o
        BY <2>2, <3>5
      <3>9. QED
        BY <3>4, <3>7, <3>8
    <2>5. "env" \notin clash' =>
            /\ ScalingTold(st2, a2, l2, undostk')
            /\ Stands(env', datagen', Real(undostk'), Len(l2), st2, a2, l2, undostk')
      BY <1>2, <2>3, <2>4
    <2>6. /\ undostk' \in Seq(Step) /\ fx' = Nothing /\ Matched(a2, l2, undostk')
          /\ l2 \in Seq(Entry) /\ Past(st2, base, l2) /\ Settle(l2) /\ base \in Pic /\ ~running'
      BY <1>2, <2>1, <2>3 DEF l2
    <2>7. QED
      BY <2>5, <2>6, ScalingKept
  <1>8. QED
    BY <1>6, <1>7

LEMMA ScalingBegin ==
  ASSUME FxTyped, ScalingInv, BeginCommand
  PROVE  ScalingInv'
  <1>1. PICK st, at : /\ History(st, at)
                      /\ "env" \notin clash => /\ ScalingTold(st, at, log, undostk)
                                               /\ ScalingNow(st, at)
    BY DEF ScalingInv
  <1>2. /\ fx = Nothing /\ fx' = Nothing
        /\ UNCHANGED <<env, datagen, undostk, base, log, clash>>
        /\ undobefore' \in {<<Saved>>, << >>}
    BY DEF BeginCommand, TakeBefore, FxTyped, filevars
  <1>3. History(st, at)'
    BY <1>1, <1>2 DEF History
  <1>4. "env" \notin clash => StandsNow(env, datagen, st, at)
    BY <1>1, <1>2, NothingDone DEF ScalingNow
  <1>5. undobefore' # << >> => undobefore'[1].env = env /\ undobefore'[1].datagen = datagen
    BY <1>2 DEF Saved
  <1>6. "env" \notin clash' => ScalingTold(st, at, log', undostk') /\ ScalingNow(st, at)'
    BY <1>1, <1>2, <1>4, <1>5 DEF ScalingNow, StandsNow
  <1>7. QED
    BY <1>3, <1>6 DEF ScalingInv

LEMMA ScalingWork ==
  ASSUME FileAssumption, SessionAssumption, SessInv, FxTyped, PlotTyped', ScalingInv,
         \/ \E id \in Live : Display(id)
         \/ DisplayOwn \/ CleanOnly
         \/ \E norset \in BOOLEAN : Clear(norset)
         \/ \E o \in Opt, v \in Val : SetOption(o, v)
  PROVE  ScalingInv'
  <1>1. PICK st, at : /\ History(st, at)
                      /\ "env" \notin clash => /\ ScalingTold(st, at, log, undostk)
                                               /\ ScalingNow(st, at)
    BY DEF ScalingInv
  <1>2. /\ running /\ running' /\ fx' \in Effect
        /\ \/ fx'.env = fx.env /\ env' = env
           \/ \E p \in Plot : /\ fx'.env = <<p>> /\ p.on = env'.on
                              /\ p.on => p.own = env'.own
                              /\ p.gen <= datagen
        /\ UNCHANGED <<datagen, undostk, undobefore, marked, base, log, clash>>
    BY Reports
  <1>3. History(st, at)' /\ st[Len(log)] \in Pic
    BY <1>1, <1>2, LastState DEF History
  <1>4. /\ Apply(fx, st[Len(log)]).env = IF fx.env = << >> THEN st[Len(log)].env ELSE fx.env[1]
        /\ Apply(fx', st[Len(log)]).env = IF fx'.env = << >> THEN st[Len(log)].env ELSE fx'.env[1]
    BY <1>1, <1>2, <1>3, LastState, AppliedIsPic
  <1>5. ASSUME "env" \notin clash'
        PROVE  ScalingTold(st, at, log', undostk') /\ ScalingNow(st, at)'
    <2>1. ScalingTold(st, at, log, undostk) /\ ScalingNow(st, at)
      BY <1>1, <1>2, <1>5
    <2>2. CASE fx'.env = fx.env /\ env' = env
      BY <1>2, <1>4, <2>1, <2>2 DEF ScalingNow, StandsNow
    <2>3. ASSUME NEW p \in Plot, fx'.env = <<p>>, p.on = env'.on, p.on => p.own = env'.own,
                 p.gen <= datagen
          PROVE  ScalingTold(st, at, log', undostk') /\ ScalingNow(st, at)'
      <3>1. fx'.env # << >> /\ Apply(fx', st[Len(log)]).env = p
        BY <1>4, <2>3
      <3>2. Agrees(env', p, datagen)
        BY <2>3 DEF Agrees
      <3>3. QED
        BY <1>2, <2>1, <3>1, <3>2 DEF ScalingNow, StandsNow
    <2>4. QED
      BY <1>2, <2>2, <2>3
  <1>6. QED
    BY <1>3, <1>5 DEF ScalingInv

LEMMA ScalingHouse ==
  ASSUME FileAssumption, SessInv, FxTyped, ScalingInv, [Next]_vars, KeepHouse \/ UNCHANGED vars
  PROVE  ScalingInv'
  <1>1. PICK st, at : /\ History(st, at)
                      /\ "env" \notin clash => /\ ScalingTold(st, at, log, undostk)
                                               /\ ScalingNow(st, at)
    BY DEF ScalingInv
  <1>2. UNCHANGED <<env, undostk, undobefore, marked, running, base, log, fx, clash>>
    BY DEF KeepHouse, Sub, undovars, histvars, vars, sessvars
  <1>3. datagen \in Nat /\ datagen' \in Nat /\ datagen <= datagen'
    BY ReleasesCounted DEF SessInv
  <1>4. History(st, at)'
    BY <1>1, <1>2 DEF History
  <1>5. st[Len(log)].env.gen \in Nat /\ Apply(fx, st[Len(log)]).env.gen \in Nat
    BY <1>1, LastState DEF Pic, Plot
  <1>6. ASSUME "env" \notin clash PROVE ScalingNow(st, at)'
    <2>1. ScalingNow(st, at)
      BY <1>1, <1>6
    <2>2. Agrees(env, Apply(fx, st[Len(log)]).env, datagen')
      BY <1>3, <1>5, <2>1 DEF ScalingNow, Agrees
    <2>3. fx.env = << >> => StandsNow(env, datagen', st, at)
      <3>1. \A j \in Real(undostk) : undostk[j].before.datagen \in Nat
        BY StepsDated DEF SessInv, StackTyped
      <3>2. fx.env = << >> =>
              Stands(env, datagen, Real(undostk), Len(log), st, at, log, undostk)
        BY <2>1 DEF ScalingNow, StandsNow
      <3>3. fx.env = << >> =>
              Stands(env, datagen', Real(undostk), Len(log), st, at, log, undostk)
        BY <1>3, <1>5, <3>1, <3>2, StandsOn
      <3>4. QED
        BY <3>3 DEF StandsNow
    <2>4. QED
      BY <1>2, <2>1, <2>2, <2>3 DEF ScalingNow, StandsNow
  <1>7. QED
    BY <1>1, <1>2, <1>4, <1>6 DEF ScalingInv

(* With no command before it, the state b is all there is.                 *)
LEMMA ScalingBegins ==
  ASSUME base' \in Pic, log' = << >>, undostk' = << >>, fx' = Nothing, ~running' \/ ~marked',
         "env" \notin clash' => Agrees(env', base'.env, datagen')
  PROVE  ScalingInv'
  <1>1. PICK st, at : /\ log' \in Seq(Entry) /\ Past(st, base', log')
                      /\ Matched(at, log', undostk')
                      /\ st[Len(log')] = base' /\ Real(undostk') = {}
    BY HistoryBegins
  <1>2. History(st, at)'
    BY <1>1 DEF History
  <1>3. Apply(fx', st[Len(log')]).env = base'.env
    BY <1>1, NothingDone, AppliedIsPic
  <1>4. ScalingTold(st, at, log', undostk')
    BY <1>1 DEF ScalingTold
  <1>5. ASSUME "env" \notin clash' PROVE ScalingNow(st, at)'
    <2>1. AsLeft(env', Real(undostk'), Len(log'), at, log', undostk')
      BY <1>1 DEF AsLeft
    <2>2. \A j \in Real(undostk') : undostk'[j].before.datagen <= datagen'
      BY <1>1
    <2>3. Stands(env', datagen', Real(undostk'), Len(log'), st, at, log', undostk')
      BY <1>1, <1>5, <2>1, <2>2 DEF Stands
    <2>4. StandsNow(env, datagen, st, at)'
      BY <2>3 DEF StandsNow
    <2>5. QED
      BY <1>3, <1>5, <2>4 DEF ScalingNow
  <1>6. QED
    BY <1>2, <1>4, <1>5 DEF ScalingInv

LEMMA ScalingForget ==
  ASSUME SessInv, SessInv', FxTyped, ScalingInv,
         (\E n \in Limits : SetUndo(n)) \/ (\E all \in BOOLEAN : Reset(all))
  PROVE  ScalingInv'
  <1>1. PICK st, at : /\ History(st, at)
                      /\ "env" \notin clash => ScalingNow(st, at)
    BY DEF ScalingInv
  <1>2. undostk' = << >> /\ log' = << >> /\ fx' = Nothing /\ marked' = FALSE
    BY DEF SetUndo, Reset, ForgetSteps
  <1>3. base' \in Pic /\ ("env" \notin clash' => Agrees(env', base'.env, datagen'))
    <2>1. CASE \E n \in Limits : SetUndo(n)
      <3>1. base' = Shorter /\ UNCHANGED <<clash, env, datagen>>
        BY <2>1 DEF SetUndo
      <3>2. QED
        BY <1>1, <3>1, LastState DEF ScalingNow
    <2>2. CASE \E all \in BOOLEAN : Reset(all)
      <3>1. base' = [opts |-> Defaults, env |-> NoPlot] /\ env' = [env EXCEPT !.on = FALSE]
        BY <2>2 DEF Reset
      <3>2. Defaults \in [Opt -> Int] /\ NoPlot \in Plot
        BY DEF Defaults, NoPlot, Plot
      <3>3. ~env'.on /\ ~NoPlot.on /\ NoPlot.gen = 0 /\ datagen' \in Nat
        BY <3>1 DEF NoPlot, SessInv, PlotTyped, FilesInv, FilesTypeOK
      <3>4. Agrees(env', NoPlot, datagen')
        BY <3>3 DEF Agrees
      <3>5. QED
        BY <3>1, <3>2, <3>4 DEF Pic
    <2>3. QED
      BY <2>1, <2>2
  <1>4. QED
    BY <1>2, <1>3, ScalingBegins

LEMMA ScalingStays ==
  ASSUME FileAssumption, SessionAssumption, SessInv, SessInv', KeptInv, FxTyped, ScalingInv,
         [Next]_vars
  PROVE  ScalingInv'
  <1>1. CASE \/ \E id \in Live : Display(id)
             \/ DisplayOwn \/ CleanOnly
             \/ \E norset \in BOOLEAN : Clear(norset)
             \/ \E o \in Opt, v \in Val : SetOption(o, v)
    <2>1. PlotTyped'
      BY DEF SessInv
    <2>2. QED
      BY <1>1, <2>1, ScalingWork
  <1>2. CASE KeepHouse \/ UNCHANGED vars
    BY <1>2, ScalingHouse
  <1>3. CASE (\E n \in Limits : SetUndo(n)) \/ (\E all \in BOOLEAN : Reset(all))
    BY <1>3, ScalingForget
  <1>4. CASE BeginCommand
    BY <1>4, ScalingBegin
  <1>5. CASE EndCommand
    BY <1>5, ScalingEnd
  <1>6. CASE Undo
    BY <1>6, ScalingUndo
  <1>7. QED
    BY <1>1, <1>2, <1>3, <1>4, <1>5, <1>6 DEF Next

LEMMA ScalingBeginTold ==
  ASSUME Init PROVE ScalingInv
  <1>1. /\ base \in Pic /\ log = << >> /\ undostk = << >> /\ fx = Nothing /\ ~running
        /\ env = NoEnv /\ base.env = NoPlot /\ datagen = 0
    <2>1. base = [opts |-> Defaults, env |-> NoPlot]
      BY DEF Init
    <2>2. Defaults \in [Opt -> Int] /\ NoPlot \in Plot
      BY DEF Defaults, NoPlot, Plot
    <2>3. QED
      BY <2>1, <2>2 DEF Init, FileInit, Pic
  <1>2. PICK st, at : /\ log \in Seq(Entry) /\ Past(st, base, log) /\ Matched(at, log, undostk)
                      /\ st[Len(log)] = base /\ Real(undostk) = {}
    BY <1>1, HistoryBegins
  <1>3. History(st, at) /\ ScalingTold(st, at, log, undostk)
    BY <1>1, <1>2 DEF History, ScalingTold
  <1>4. Agrees(env, base.env, datagen)
    BY <1>1 DEF Agrees, NoEnv, NoPlot
  <1>5. StandsNow(env, datagen, st, at)
    BY <1>2, <1>4 DEF StandsNow, Stands, AsLeft
  <1>6. Apply(fx, st[Len(log)]).env = base.env
    BY <1>1, <1>2, NothingDone, AppliedIsPic
  <1>7. ScalingNow(st, at)
    BY <1>1, <1>4, <1>5, <1>6 DEF ScalingNow
  <1>8. QED
    BY <1>3, <1>7 DEF ScalingInv

(* Undo leaves the scaling environment that the commands that are left     *)
(* leave, or none if coordinates were freed since that plot was made; and  *)
(* never none, or another, for no reason: ScalingAsShorter, what           *)
(* gaundorest makes of the snapshots of a step and of gadatagen.           *)
THEOREM UndoneScalingIsShorter == Spec => []ScalingAsShorter
  <1>1. Init => ScalingInv
    BY ScalingBeginTold
  <1>2. SessInv /\ SessInv' /\ KeptInv /\ FxTyped /\ ScalingInv /\ [Next]_vars => ScalingInv'
    BY FileAssumption, SessionAssumption, ScalingStays
  <1>3. FxTyped /\ ScalingInv => ScalingAsShorter
    <2>1. SUFFICES ASSUME FxTyped, ScalingInv, "env" \notin clash PROVE ScalingAsShorter
      BY DEF ScalingAsShorter
    <2>2. PICK st, at : History(st, at) /\ ScalingNow(st, at)
      BY <2>1 DEF ScalingInv
    <2>3. Shorter = Apply(fx, st[Len(log)])
      BY <2>1, <2>2, LastState
    <2>4. QED
      BY <2>2, <2>3 DEF ScalingNow, Agrees, ScalingAsShorter
  <1>4. QED
    BY <1>1, <1>2, <1>3, SessAlways, KeptAlways, FxAlways, PTL DEF Spec
=============================================================================
