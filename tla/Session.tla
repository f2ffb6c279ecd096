------------------------------- MODULE Session -------------------------------
(***************************************************************************)
(* What GrADS knows about the picture, and how undo brings it back: the    *)
(* scaling environment and the options of struct gacmn, the snapshots a    *)
(* step keeps of them (gaundosave, gaundokeep, gaundorest in gauser.c) and *)
(* gacmd's bookkeeping of levels, over the open files and defined          *)
(* variables of FileList.  The meta buffer itself is module MetaBuffer;    *)
(* here a step only remembers whether the page was blank before it.        *)
(*                                                                         *)
(* base, log, fx and clash are history variables: the commands since the   *)
(* oldest kept step and what each did, which is what "the shorter command  *)
(* sequence" of docs/UNDO.md is made of.                                   *)
(***************************************************************************)
EXTENDS FileList

CONSTANTS
  Opt,          \* options: each holds 0 by default
  Once,         \* those a display uses up; a clear resets them all
  Val,          \* values the user gives them
  Limits,       \* the undo limits set
  SnapMayFail,  \* gaundosave may run out of memory
  OwnGrids,     \* results may own their coordinates (coll2gr, s2g1d, stations)
  MaxCmd,       \* bound: commands issued
  MaxSub        \* bound: what they do, taken together

ASSUME SessionAssumption ==
  /\ Once \subseteq Opt
  /\ Val \subseteq Nat
  /\ Limits \subseteq Nat
  /\ {SnapMayFail, OwnGrids} \subseteq BOOLEAN
  /\ MaxCmd \in Nat /\ MaxSub \in Nat

VARIABLES
  opts,       \* the options
  env,        \* the scaling environment: on, and whose coordinates it uses
  undolim,    \* steps to keep
  undostk,    \* steps kept, oldest first
  undobefore, \* snapshot from before the running command, if taken
  marked,     \* a position is noted for the running command (undopend)
  drew,       \* the running command drew, or set a frame aside
  blank,      \* the page is blank
  wasblank,   \* and was when the running command began
  running,    \* inside gacmd at level one, other than for undo
  base,       \* history: options and scaling before the first of log
  log,        \* history: the commands since, and whether each can be undone
  fx,         \* history: what the running command has done so far
  clash,      \* history: see Clashes
  cmds, subs  \* counted against MaxCmd and MaxSub

histvars == <<base, log, fx, clash>>
undovars == <<undolim, undostk, undobefore, marked, drew, wasblank>>
sessvars == <<opts, env, undovars, blank, running, histvars>>
vars == <<filevars, sessvars, cmds, subs>>

Keep == -1                           \* an option a command left alone
Defaults == [o \in Opt |-> 0]
NoEnv == [on |-> FALSE, own |-> 0]

(* In the history an environment also has the datagen of its plot, and a   *)
(* command has an effect on each option and on the environment.            *)
NoPlot == [on |-> FALSE, own |-> 0, gen |-> 0]
Nothing == [opts |-> [o \in Opt |-> Keep], env |-> << >>]

Snap == [opts : [Opt -> Nat], env : [on : BOOLEAN, own : Nat],
         datagen : Nat, live : BOOLEAN]
Step == [bare : BOOLEAN, before : Snap, after : Snap, blank : BOOLEAN]

(* gaundosave.  live is history: the environment was in order.             *)
Saved == [opts |-> opts, env |-> env, datagen |-> datagen,
          live |-> env.on => env.own \in Live]

Init ==
  /\ FileInit
  /\ opts = Defaults /\ env = NoEnv
  /\ undolim = 0 /\ undostk = << >> /\ undobefore = << >>
  /\ marked = FALSE /\ drew = FALSE
  /\ blank = TRUE /\ wasblank = TRUE /\ running = FALSE
  /\ base = [opts |-> Defaults, env |-> NoPlot] /\ log = << >>
  /\ fx = Nothing /\ clash = {}
  /\ cmds = 0 /\ subs = 0

-----------------------------------------------------------------------------
(* The history.                                                            *)

(* The state s after a command with effect f, and after a sequence. *)
Apply(f, s) ==
  [opts |-> [o \in Opt |-> IF f.opts[o] = Keep THEN s.opts[o] ELSE f.opts[o]],
   env  |-> IF f.env = << >> THEN s.env ELSE f.env[1]]

AfterLog(s, l) ==
  LET st[i \in 0 .. Len(l)] == IF i = 0 THEN s ELSE Apply(l[i].fx, st[i - 1])
  IN  st[Len(l)]

(* What the shorter command sequence leaves. *)
Shorter == Apply(fx, AfterLog(base, log))

Undone(l) == {i \in 1 .. Len(l) : l[i].step}

(* The log from its first command that can be undone on; the rest is past. *)
First(l) == IF Undone(l) = {} THEN Len(l) + 1
            ELSE CHOOSE i \in Undone(l) : \A j \in Undone(l) : i <= j

Settle(l) ==
  /\ base' = AfterLog(base, SubSeq(l, 1, First(l) - 1))
  /\ log'  = SubSeq(l, First(l), Len(l))

Did(o, e) == fx' = [opts |-> [x \in Opt |-> IF x \in o THEN opts'[x] ELSE fx.opts[x]],
                    env  |-> IF e = << >> THEN fx.env ELSE e]

(* The parts a command that cannot be undone has put to what some kept     *)
(* step left them at: undo takes them for unchanged since that step.       *)
Clashes(stk) ==
  LET real == {i \in 1 .. Len(stk) : ~stk[i].bare}
  IN  {o \in Opt : fx.opts[o] # Keep /\ \E i \in real :
         stk[i].after.opts[o] = opts[o] /\ stk[i].before.opts[o] # opts[o]}
      \cup {p \in {"env"} : fx.env # << >> /\ \E i \in real :
         stk[i].after.env = env}

-----------------------------------------------------------------------------
(* gacmd at level one.                                                     *)

(* Memory may run out for the snapshot.                                    *)
TakeBefore ==
  undobefore' \in IF undolim > 0
                  THEN {<<Saved>>} \cup (IF SnapMayFail THEN {<< >>} ELSE {})
                  ELSE {<< >>}

BeginCommand ==
  /\ ~running /\ cmds < MaxCmd
  /\ running' = TRUE /\ cmds' = cmds + 1
  /\ marked' = (undolim > 0)
  /\ drew' = FALSE /\ wasblank' = blank
  /\ TakeBefore
  /\ fx' = Nothing
  /\ UNCHANGED <<filevars, opts, env, undolim, undostk, blank, base, log, clash,
                 subs>>

NewStep(b) == [bare |-> FALSE, before |-> b, after |-> Saved, blank |-> wasblank]
BareStep == [bare |-> TRUE, before |-> Saved, after |-> Saved, blank |-> wasblank]

NewSteps ==
  (IF undobefore = << >> THEN {} ELSE {NewStep(undobefore[1])})
  \cup (IF undobefore = << >> \/ SnapMayFail THEN {BareStep} ELSE {})

(* The log when the stack drops its oldest step: if that one is not bare,  *)
(* the first command that could be undone no longer can.                   *)
Dropped(l) ==
  IF Len(undostk) = undolim /\ ~undostk[1].bare
  THEN [l EXCEPT ![First(l)].step = FALSE] ELSE l

(* gaundokeep: a step for a command that drew; its effects can be undone   *)
(* unless memory ran out for the snapshots.                                *)
KeepStep(s) ==
  /\ undostk' = Append(IF Len(undostk) = undolim THEN Tail(undostk) ELSE undostk, s)
  /\ Settle(Append(Dropped(log), [step |-> ~s.bare, fx |-> fx]))
  /\ clash' = IF s.bare THEN clash \cup Clashes(undostk) ELSE clash

KeepNothing ==
  /\ Settle(IF fx = Nothing THEN log ELSE Append(log, [step |-> FALSE, fx |-> fx]))
  /\ clash' = clash \cup Clashes(undostk)
  /\ UNCHANGED undostk

EndCommand ==
  /\ running
  /\ running' = FALSE
  /\ IF marked /\ drew THEN \E s \in NewSteps : KeepStep(s) ELSE KeepNothing
  /\ undobefore' = << >> /\ marked' = FALSE /\ drew' = FALSE
  /\ wasblank' = TRUE
  /\ fx' = Nothing
  /\ UNCHANGED <<filevars, opts, env, undolim, blank, cmds, subs>>

Sub == running /\ subs < MaxSub /\ subs' = subs + 1 /\ UNCHANGED <<running, cmds>>

-----------------------------------------------------------------------------
(* What commands do to the picture and to what is known of it.             *)

(* A display scales to the coordinates of its result: those of a file or a *)
(* defined variable, or the result's own, which go when it is freed.       *)
Display(id) ==
  /\ Sub /\ pfid # 0
  /\ env' = [on |-> TRUE, own |-> id]
  /\ opts' = [o \in Opt |-> IF o \in Once THEN 0 ELSE opts[o]]
  /\ drew' = TRUE /\ blank' = FALSE
  /\ Did(Once, <<[on |-> TRUE, own |-> id, gen |-> datagen]>>)
  /\ refused' = FALSE
  /\ UNCHANGED <<files, pfid, dfnum, cal365, defs, datagen, vdim, asked, made,
                 undolim, undostk, undobefore, marked, wasblank, base, log, clash>>

DisplayOwn ==
  /\ Sub /\ pfid # 0 /\ OwnGrids /\ made < MaxObj
  /\ env' = [on |-> TRUE, own |-> made + 1]
  /\ made' = made + 1
  /\ opts' = [o \in Opt |-> IF o \in Once THEN 0 ELSE opts[o]]
  /\ drew' = TRUE /\ blank' = FALSE
  /\ Did(Once, <<[on |-> TRUE, own |-> made + 1, gen |-> datagen]>>)
  /\ refused' = FALSE
  /\ UNCHANGED <<files, pfid, dfnum, cal365, defs, datagen, vdim, asked,
                 undolim, undostk, undobefore, marked, wasblank, base, log, clash>>

(* gacln: the environment goes, its pointers stay where they were; with    *)
(* options it also resets those.                                           *)
Gacln(reset) ==
  /\ env' = [env EXCEPT !.on = FALSE]
  /\ opts' = IF reset THEN Defaults ELSE opts
  /\ Did(IF reset THEN Opt ELSE {}, <<NoPlot>>)

(* clear, clear graphics and clear norset; a clear of a blank page is no   *)
(* step of its own.                                                        *)
Clear(norset) ==
  /\ Sub
  /\ drew' = (drew \/ ~blank) /\ blank' = TRUE
  /\ Gacln(~norset)
  /\ refused' = FALSE
  /\ UNCHANGED <<files, pfid, dfnum, cal365, defs, datagen, vdim, asked, made,
                 undolim, undostk, undobefore, marked, wasblank, base, log, clash>>

(* clear events, outxwd, and swap outside double buffering.                *)
CleanOnly ==
  /\ Sub
  /\ Gacln(TRUE)
  /\ refused' = FALSE
  /\ UNCHANGED <<files, pfid, dfnum, cal365, defs, datagen, vdim, asked, made,
                 undovars, blank, base, log, clash>>

SetOption(o, v) ==
  /\ Sub
  /\ opts' = [opts EXCEPT ![o] = v]
  /\ Did({o}, << >>)
  /\ refused' = FALSE
  /\ UNCHANGED <<files, pfid, dfnum, cal365, defs, datagen, vdim, asked, made,
                 env, undovars, blank, base, log, clash>>

(* Commands that leave the picture's state alone.                          *)
KeepHouse ==
  /\ Sub
  /\ Housekeeping
  /\ UNCHANGED <<opts, env, undovars, blank, histvars>>

-----------------------------------------------------------------------------
(* What makes the steps go: set undo, reset and reinit.                    *)

ForgetSteps ==
  /\ undostk' = << >> /\ marked' = FALSE
  /\ log' = << >> /\ fx' = Nothing

SetUndo(n) ==
  /\ Sub
  /\ undolim' = n
  /\ ForgetSteps
  /\ base' = Shorter /\ UNCHANGED clash
  /\ refused' = FALSE
  /\ UNCHANGED <<files, pfid, dfnum, cal365, defs, datagen, vdim, asked, made,
                 opts, env, undobefore, drew, wasblank, blank>>

Reset(all) ==
  /\ Sub
  /\ IF all THEN ReinitFiles ELSE ResetFiles
  /\ ForgetSteps
  /\ env' = [env EXCEPT !.on = FALSE] /\ opts' = Defaults
  /\ base' = [opts |-> Defaults, env |-> NoPlot] /\ clash' = {}
  /\ blank' = TRUE
  /\ UNCHANGED <<undolim, undobefore, drew, wasblank>>

-----------------------------------------------------------------------------
(* gaundorest: put back what an undone step changed.                       *)

(* Mutant of OptionBack: whatever the user has set since is lost.          *)
OptionBackAlways(o, b, a) == b.opts[o]

(* A part comes back only if it is as the step left it.                    *)
OptionBack(o, b, a) == IF opts[o] = a.opts[o] THEN b.opts[o] ELSE opts[o]

(* Mutant of EnvBack: a change since the step is not looked for.           *)
EnvBackUnasked(b, a) == IF b.datagen = datagen THEN b.env ELSE [env EXCEPT !.on = FALSE]

(* Nor does the environment if coordinates may have been freed since.      *)
EnvBack(b, a) ==
  IF env # a.env THEN env
  ELSE IF b.datagen = datagen THEN b.env
  ELSE [env EXCEPT !.on = FALSE]

(* One rewind of the undo command, given at the prompt. *)
Undo ==
  /\ ~running /\ undostk # << >> /\ cmds < MaxCmd
  /\ cmds' = cmds + 1
  /\ LET s == undostk[Len(undostk)] IN
     /\ undostk' = SubSeq(undostk, 1, Len(undostk) - 1)
     /\ blank' = s.blank
     /\ IF s.bare THEN UNCHANGED <<opts, env, base, log>>
        ELSE LET u == CHOOSE i \in Undone(log) : \A j \in Undone(log) : j <= i IN
             /\ opts' = [o \in Opt |-> OptionBack(o, s.before, s.after)]
             /\ env' = EnvBack(s.before, s.after)
             /\ Settle(SubSeq(log, 1, u - 1) \o SubSeq(log, u + 1, Len(log)))
  /\ refused' = FALSE
  /\ UNCHANGED <<files, pfid, dfnum, cal365, defs, datagen, vdim, asked, made,
                 undolim, undobefore, marked, drew, wasblank, running, fx, clash,
                 subs>>

Next ==
  \/ BeginCommand
  \/ \E id \in Live : Display(id)
  \/ DisplayOwn
  \/ \E norset \in BOOLEAN : Clear(norset)
  \/ CleanOnly
  \/ \E o \in Opt, v \in Val : SetOption(o, v)
  \/ KeepHouse
  \/ \E n \in Limits : SetUndo(n)
  \/ \E all \in BOOLEAN : Reset(all)
  \/ EndCommand
  \/ Undo

Spec == Init /\ [][Next]_vars

-----------------------------------------------------------------------------
SessionTypeOK ==
  /\ opts \in [Opt -> Nat] /\ env \in [on : BOOLEAN, own : Nat]
  /\ undolim \in Limits \cup {0}
  /\ undostk \in Seq(Step) /\ Len(undostk) <= undolim
  /\ undobefore \in Seq(Snap) /\ Len(undobefore) <= 1
  /\ {marked, drew, blank, wasblank, running} \subseteq BOOLEAN
  /\ cmds \in 0 .. MaxCmd /\ subs \in 0 .. MaxSub

TypeOK == FilesTypeOK /\ SessionTypeOK

(* Undo leaves every option as the command sequence without the undone     *)
(* commands would have left it: what a display used up or a clear reset is *)
(* given back, and what was set since is kept (gaundorest; docs/UNDO.md),  *)
(* as long as no setting was put to the very value a kept step left.       *)
OptionsAsShorter == \A o \in Opt \ clash : opts[o] = Shorter.opts[o]

(* The same without that exception: "Either way, an option you have set    *)
(* since keeps your new value" (docs/UNDO.md).                             *)
OptionsSetStay == \A o \in Opt : opts[o] = Shorter.opts[o]

(* Undo leaves the scaling environment of the shorter command sequence, or *)
(* none when coordinates were freed since that plot was made: never that   *)
(* of a plot that is gone, and never none for no reason (gaundorest).      *)
ScalingAsShorter ==
  "env" \notin clash =>
    LET e == Shorter.env IN
    IF env.on THEN e.on /\ e.own = env.own ELSE e.on => e.gen < datagen

(* A scaling environment a step can still give back, of a plot whose       *)
(* coordinates were there when the step began, points into coordinates     *)
(* that are there now: datagen moves with every release (close, undefine,  *)
(* define, reset, reinit) of what a snapshot may point into.               *)
KeptScalingLive ==
  \A i \in 1 .. Len(undostk) :
    LET b == undostk[i].before IN
    ~undostk[i].bare /\ b.live /\ b.env.on /\ b.datagen = datagen
      => b.env.own \in Live

(* What docs/UNDO.md says of every plot: when its file has been closed or  *)
(* its variable released, undo does not bring back its scaling.            *)
UndoneScalingLive ==
  [][Len(undostk') < Len(undostk) /\ ~running' /\ ~running /\ env' # env /\ env'.on
       => env'.own \in Live]_vars
=============================================================================
