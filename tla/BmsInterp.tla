------------------------------ MODULE BmsInterp ------------------------------
(***************************************************************************)
(* The control flow of the script interpreter, start_bms() of              *)
(* src/src/bms.c.  A script is the array g_command[]; start_bms() is       *)
(* called once for the script and calls itself for every For and Do, for   *)
(* every If, Elif and Else, and (through CMD_Function_func) for every      *)
(* CallFunction.  There is no jump table: Break, Continue, a false ForTo   *)
(* and a branch that is not taken make the interpreter walk over the       *)
(* commands without executing them ("nop") until the frame they concern    *)
(* ends.  Who has to skip is told by flags that are locals of one frame    *)
(* and are reached by the others through pointers: those pointers are what *)
(* can go wrong, and they are modelled as indices of frames.               *)
(*                                                                         *)
(* Data is abstracted: the result of check_condition() and the success of  *)
(* a command are free choices, so every path of every script is explored.  *)
(***************************************************************************)
EXTENDS BmsOrderly

CONSTANT MaxDepth   \* frames the C stack can hold: nobody counts them

ASSUME MaxDepthAssumption == MaxDepth \in Nat /\ MaxDepth >= 1

VARIABLES
    frames,     \* the activations of start_bms(), outermost first
    label,      \* *invoked_label: the label being searched, shared by all frames
    st          \* "run", "unwind" (an error return), "done", "exit" (myexit)

vars == <<prog, frames, label, st>>

Kind == {"top", "loop", "taken", "skipped", "func"}  \* the call that made the frame

\* The locals of start_bms().  ifOf and loopOf are the frames that invoked_if
\* and invoked_break/invoked_continue point into.
Frame == [kind : Kind, start : Nat, cmd : Nat, nop : {-1, 0, 1},
          looped : BOOLEAN,                               \* invoked_label_loop
          ifDone : BOOLEAN, brk : BOOLEAN, cnt : BOOLEAN, \* this_if, this_break, this_continue
          ifOf : Nat, loopOf : Nat]

TypeOK ==
    /\ prog \in Seq(Command)
    /\ frames \in Seq(Frame)
    /\ label \in Names \cup {NoName}
    /\ st \in {"run", "unwind", "done", "exit"}

-----------------------------------------------------------------------------
(* Reading the stack *)

Depth == Len(frames)
Top   == frames[Depth]
Here  == TypeAt(Top.cmd)

\* Mutant: Continue does not make its frame skip.
Nop_continueIgnored(i) ==
    LET f == frames[i]
    IN  IF f.nop # 0 THEN f.nop
        ELSE IF frames[f.loopOf].brk \/ label # NoName THEN 1 ELSE 0

\* What nop is for frame i once the flags it can see have been read, at the
\* head of its next turn: a later test wins over an earlier one.
Nop(i) ==
    LET f     == frames[i]
        owner == frames[f.loopOf]
    IN  IF f.nop # 0 THEN f.nop
        ELSE IF owner.cnt THEN -1
        ELSE IF owner.brk \/ label # NoName THEN 1
        ELSE 0

Skipping(i) == Nop(i) # 0

\* The stack once the top frame has stored that value.
Settled == [frames EXCEPT ![Depth].nop = Nop(Depth)]

Advance(fs) == [fs EXCEPT ![Depth].cmd = @ + 1]
Restart(fs) == [fs EXCEPT ![Depth].cmd = Top.start]

\* Mutant: the callee is given this_break instead of invoked_break.
NewFrame_ownFlags(fs, kind, cmd, nop) ==
    [kind |-> kind, start |-> cmd, cmd |-> cmd, nop |-> nop,
     looped |-> FALSE, ifDone |-> FALSE, brk |-> FALSE, cnt |-> FALSE,
     ifOf |-> fs[Depth].ifOf, loopOf |-> IF kind = "loop" THEN Depth + 1 ELSE Depth]

\* A recursive call of start_bms(cmd, nop, kind = "loop", ...).
NewFrame(fs, kind, cmd, nop) ==
    LET parent == fs[Depth]
        owner  == fs[parent.loopOf]
        cycle  == kind = "loop"
    IN  [kind |-> kind, start |-> cmd, cmd |-> cmd, nop |-> nop,
         looped |-> FALSE, ifDone |-> FALSE,
         brk |-> cycle /\ owner.brk, cnt |-> cycle /\ owner.cnt,
         ifOf |-> parent.ifOf,
         loopOf |-> IF cycle THEN Depth + 1 ELSE parent.loopOf]

\* start_bms() calls itself without a test of the depth.  What ends a recursion is the C
\* stack, whose exhaustion kills the process: MaxDepth stands for its size.
Enter(fs, kind, cmd, nop) ==
    IF Depth = MaxDepth
    THEN frames' = <<>> /\ st' = "exit"
    ELSE frames' = Append(fs, NewFrame(fs, kind, cmd, nop)) /\ UNCHANGED st

Caller(fs) == SubSeq(fs, 1, Depth - 1)

\* BMS_QUIT_NO_ERROR: the frame returns the command it stands on, the caller
\* goes on behind it (behind the call for a function) and, if it had entered a
\* branch whose condition held, notes that the If chain is done.
Leave(fs) ==
    IF Depth = 1
    THEN frames' = <<>> /\ st' = "done"
    ELSE LET at    == IF Top.kind = "func" THEN fs[Depth - 1].cmd ELSE Top.cmd
             owner == fs[Depth - 1].ifOf
         IN  /\ frames' = [Caller(fs) EXCEPT
                              ![Depth - 1].cmd = at + 1,
                              ![owner].ifDone  = @ \/ Top.kind = "taken"]
             /\ UNCHANGED st

\* BMS_QUIT_ERROR: every frame returns -1 to its caller.
Fail == st' = "unwind" /\ UNCHANGED <<frames, label>>

Exit == st' = "exit" /\ frames' = <<>> /\ UNCHANGED label   \* myexit()

At(types) == st = "run" /\ Here \in types

-----------------------------------------------------------------------------
Init ==
    /\ prog \in Programs
    /\ frames = <<[kind |-> "top", start |-> 1, cmd |-> 1, nop |-> 0,
                   looped |-> FALSE, ifDone |-> FALSE, brk |-> FALSE,
                   cnt |-> FALSE, ifOf |-> 1, loopOf |-> 1]>>
    /\ label = NoName
    /\ st = "run"

(* Commands that only act when they are not skipped *)

Skip ==
    /\ At({"Stmt", "ForTo", "CleanExit", "CallFunction"} \cup Jump)
    /\ Skipping(Depth)
    /\ frames' = Advance(Settled)
    /\ UNCHANGED <<label, st>>

Execute ==
    /\ At({"Stmt"}) /\ ~Skipping(Depth)
    /\ \/ frames' = Advance(frames) /\ UNCHANGED <<label, st>>
       \/ Fail

CleanExit == At({"CleanExit"}) /\ ~Skipping(Depth) /\ Fail

ForTo ==
    /\ At({"ForTo"}) /\ ~Skipping(Depth)
    /\ \E holds \in BOOLEAN :
          frames' = Advance([frames EXCEPT ![Depth].nop = IF holds THEN 0 ELSE 1])
    /\ UNCHANGED <<label, st>>

\* Break and Continue raise the flag of the innermost loop's frame; with a
\* name they start the search of a label.
BreakOrContinue ==
    /\ At(Jump) /\ ~Skipping(Depth)
    /\ LET owner == Top.loopOf
       IN  frames' = Advance(IF Here = "Break"
                             THEN [frames EXCEPT ![owner].brk = TRUE]
                             ELSE [frames EXCEPT ![owner].cnt = TRUE])
    /\ label' = NameAt(Top.cmd)
    /\ UNCHANGED st

(* Loops *)

OpenLoopFrame ==
    /\ At(OpenLoop)
    /\ Enter(Settled, "loop", Top.cmd + 1, Nop(Depth))
    /\ UNCHANGED label

\* Mutant: invoked_label_loop is not tested.
ScanLoopAgain_always ==
    /\ At(CloseLoop) /\ label # NoName
    /\ frames' = Restart(Settled)
    /\ UNCHANGED <<label, st>>

\* BMS_END_OF_LOOP while a label is searched: the body is walked over once
\* more, then the loop is left.
ScanLoopAgain ==
    /\ At(CloseLoop) /\ label # NoName /\ ~Top.looped
    /\ frames' = Restart([Settled EXCEPT ![Depth].looped = TRUE])
    /\ UNCHANGED <<label, st>>

\* BMS_END_OF_LOOP: a pending Continue ends here, any other skip leaves.
LeaveLoop ==
    /\ At(CloseLoop)
    /\ \/ label # NoName /\ Top.looped
       \/ label = NoName /\ Skipping(Depth) /\ ~(Nop(Depth) = -1 /\ Top.kind = "loop")
    /\ Leave(Settled)
    /\ UNCHANGED label

\* Mutant: any skip ends at the end of a loop, not only that of Continue.
NextTurn_anySkip ==
    /\ At(CloseLoop) /\ label = NoName
    /\ ~Skipping(Depth) \/ Top.kind = "loop"
    /\ frames' = Restart([frames EXCEPT ![Depth].nop = 0,
                             ![Top.loopOf].cnt = IF Skipping(Depth) THEN FALSE ELSE @])
    /\ UNCHANGED <<label, st>>

\* Mutant: nop is not tested at the end of a loop.
NextTurn_noTest ==
    /\ At(CloseLoop) /\ label = NoName
    /\ frames' = Restart(Settled)
    /\ UNCHANGED <<label, st>>

\* The end of a loop that is not left: its body starts once more.
NextTurn ==
    /\ At(CloseLoop) /\ label = NoName
    /\ ~Skipping(Depth) \/ (Nop(Depth) = -1 /\ Top.kind = "loop")
    /\ LET fs == [frames EXCEPT ![Depth].nop = 0,
                     ![Top.loopOf].cnt = IF Skipping(Depth) THEN FALSE ELSE @]
       IN  \/ frames' = Restart(fs) /\ UNCHANGED st
           \/ Here = "While" /\ Leave(fs)           \* its condition is false
    /\ UNCHANGED label

(* If, Elif, Else: the condition is evaluated in skipped code, too *)

EnterBranch ==
    /\ At(Branch)
    /\ LET fs == IF Here = "If"
                 THEN [Settled EXCEPT ![Depth].ifOf = Depth, ![Depth].ifDone = FALSE]
                 ELSE Settled
           done == fs[fs[Depth].ifOf].ifDone
       IN  \/ ~done /\ Enter(fs, "taken", Top.cmd + 1, Nop(Depth))
           \/ (done \/ Here # "Else") /\ Enter(fs, "skipped", Top.cmd + 1, 1)
    /\ UNCHANGED label

\* Mutant: it is passed over in skipped code, as most commands are.
IfReturn_skipped ==
    /\ At({"If_Return"})
    /\ IF Skipping(Depth) THEN frames' = Advance(Settled) /\ UNCHANGED st ELSE Leave(Settled)
    /\ UNCHANGED label

IfReturn ==
    /\ At({"If_Return"})
    /\ Leave(Settled)
    /\ UNCHANGED label

EndIf ==
    /\ At({"EndIf"})
    /\ Leave([Settled EXCEPT ![Top.ifOf].ifDone = FALSE])
    /\ UNCHANGED label

(* Functions *)

\* The body of a function met by the flow is jumped over.
SkipFunction ==
    /\ At({"StartFunction"})
    /\ LET ends == {p \in DOMAIN prog : p > Top.cmd /\ TypeAt(p) \in {"StartFunction", "EndFunction"}}
       IN  \/ \E next \in ends :
                  /\ \A q \in ends : next <= q
                  /\ IF TypeAt(next) = "EndFunction"
                     THEN /\ frames' = [Settled EXCEPT ![Depth].cmd = next + 1]
                          /\ UNCHANGED <<label, st>>
                     ELSE Exit
           \/ ends = {} /\ Exit

\* Mutant: the body starts at the StartFunction itself.
CallFunction_atHeader ==
    /\ At({"CallFunction"}) /\ ~Skipping(Depth)
    /\ LET bodies == {p \in DOMAIN prog : TypeAt(p) = "StartFunction" /\ NameAt(p) = NameAt(Top.cmd)}
       IN  \/ /\ \E p \in bodies : (\A q \in bodies : p <= q) /\ Enter(frames, "func", p, 0)
              /\ UNCHANGED label
           \/ bodies = {} /\ Exit

\* Mutant: a function is called in skipped code, too.
CallFunction_skipped ==
    /\ At({"CallFunction"})
    /\ LET bodies == {p \in DOMAIN prog : TypeAt(p) = "StartFunction" /\ NameAt(p) = NameAt(Top.cmd)}
       IN  \/ /\ \E p \in bodies : Enter(Settled, "func", p + 1, 0)
              /\ UNCHANGED label
           \/ bodies = {} /\ Exit

\* The first function of that name in the script.
CallFunction ==
    /\ At({"CallFunction"}) /\ ~Skipping(Depth)
    /\ LET bodies == {p \in DOMAIN prog : TypeAt(p) = "StartFunction" /\ NameAt(p) = NameAt(Top.cmd)}
       IN  \/ /\ \E p \in bodies : (\A q \in bodies : p <= q) /\ Enter(frames, "func", p + 1, 0)
              /\ UNCHANGED label
           \/ bodies = {} /\ Exit

EndFunction ==
    /\ At({"EndFunction"})
    /\ Leave(Settled)
    /\ UNCHANGED label

(* Labels and the end of the script *)

\* Mutant: nop is not reset.
Label_keepsNop ==
    /\ At({"Label"})
    /\ frames' = Advance([Settled EXCEPT ![Top.loopOf].brk = FALSE, ![Top.loopOf].cnt = FALSE])
    /\ label' = NoName
    /\ UNCHANGED st

\* Mutant: *invoked_break is not reset.
Label_keepsBreak ==
    /\ At({"Label"})
    /\ IF label = NameAt(Top.cmd)
       THEN frames' = Advance([frames EXCEPT ![Depth].nop = 0]) /\ label' = NoName
       ELSE frames' = Advance(Settled) /\ UNCHANGED label
    /\ UNCHANGED st

\* The label that is searched ends every skip of the frame that meets it.
Label ==
    /\ At({"Label"})
    /\ IF label # NoName /\ label = NameAt(Top.cmd)
       THEN /\ frames' = Advance([frames EXCEPT
                            ![Top.loopOf].brk = FALSE, ![Top.loopOf].cnt = FALSE,
                            ![Depth].looped = FALSE, ![Depth].nop = 0])
            /\ label' = NoName
       ELSE frames' = Advance(Settled) /\ UNCHANGED label
    /\ UNCHANGED st

\* Mutant: the script is not walked over again for a label.
EndOfScript_once == At({"None"}) /\ Fail

\* The search of a label goes on from the start of the frame, once; a frame
\* without any command has nothing to go on with.
EndOfScript ==
    /\ At({"None"})
    /\ IF label = NoName \/ Top.looped THEN Fail
       ELSE IF TypeAt(Top.start) = "None" THEN Exit
       ELSE /\ frames' = Restart([frames EXCEPT ![Depth].looped = TRUE])
            /\ UNCHANGED <<label, st>>

Unwind ==
    /\ st = "unwind"
    /\ frames' = Caller(frames)
    /\ st' = IF Depth = 1 THEN "done" ELSE st
    /\ UNCHANGED label

Terminated == st \in {"done", "exit"} /\ UNCHANGED vars

Step ==
    \/ Skip \/ Execute \/ CleanExit \/ ForTo \/ BreakOrContinue
    \/ OpenLoopFrame \/ ScanLoopAgain \/ LeaveLoop \/ NextTurn
    \/ EnterBranch \/ IfReturn \/ EndIf
    \/ SkipFunction \/ CallFunction \/ EndFunction
    \/ Label \/ EndOfScript \/ Unwind

Next == (Step /\ UNCHANGED prog) \/ Terminated

Spec == Init /\ [][Next]_vars

\* start_bms() is one thread that never waits: it always makes its next step.
FairSpec == Spec /\ WF_vars(Next)

-----------------------------------------------------------------------------
(* Safety *)

\* A frame of that kind and start was opened by the command at position at.
OpenedBy(at, kind, start) ==
    \/ /\ kind = "func" /\ TypeAt(at) = "CallFunction"
       /\ TypeAt(start - 1) = "StartFunction" /\ NameAt(start - 1) = NameAt(at)
    \/ kind = "loop" /\ TypeAt(at) \in OpenLoop /\ start = at + 1
    \/ kind \in {"taken", "skipped"} /\ TypeAt(at) \in Branch /\ start = at + 1

\* The stack mirrors the blocks of the script: each frame was opened by the
\* command its caller still stands on and starts right behind it (at the body
\* for a function), and no frame ever returns in front of its start.
FramesMatchBlocks ==
    \A i \in 1 .. Depth :
        /\ frames[i].cmd >= frames[i].start
        /\ frames[i].kind = "top" <=> i = 1
        /\ i > 1 => OpenedBy(frames[i - 1].cmd, frames[i].kind, frames[i].start)

\* In the text, too: a frame stands in the block that it was made for and in those around
\* it, and in no other, however often a block has been restarted or skipped (bms.c:35-60).
\* So the C stack grows with the nesting of the text and with calls, never with time.
StackIsNesting ==
    LET close    == Matching(prog)
        Blocks(p) == Enclosing(prog, close, p)
    IN  st = "run" /\ Nested(prog, close) =>
            /\ Blocks(frames[1].cmd) = {}
            /\ \A i \in 2 .. Depth :
                  LET opener == frames[i].start - 1
                  IN  Blocks(frames[i].cmd) = Blocks(opener) \cup {opener}

\* A script whose Break and Continue have no NAME.
PlainJumps == \A p \in DOMAIN prog : TypeAt(p) \in Jump => NameAt(p) = NoName

\* Frame i may not execute anything any more, whatever follows.
Dead(i) == frames[i].nop = 1 \/ frames[frames[i].loopOf].brk

\* Once a Break has been executed, a ForTo was false or a branch was refused,
\* no command of that block is executed, at any depth below it, until the
\* block is left.
DeadBlocksStayDead ==
    PlainJumps => \A i \in DOMAIN frames : Dead(i) => Nop(Depth) # 0

(* The inductive invariant behind FramesMatchBlocks and DeadBlocksStayDead *)

Live == /\ st \in {"run", "unwind"} => Depth >= 1
        /\ st \in {"done", "exit"} => frames = <<>>

\* The pointers of a frame lead to frames that are still on the stack:
\* invoked_break and invoked_continue into the innermost loop frame, also
\* across the calls of functions, or into the outermost frame of all.
LinksOK ==
    \A i \in 1 .. Depth :
        /\ frames[i].ifOf \in 1 .. i /\ frames[i].loopOf \in 1 .. i
        /\ frames[i].kind = "loop" => frames[i].loopOf = i
        /\ \A j \in frames[i].loopOf .. i : frames[j].loopOf = frames[i].loopOf

StackInv == TypeOK /\ Live /\ LinksOK /\ FramesMatchBlocks

\* Only one of Break and Continue is pending in a loop, and a frame that skips
\* for a Continue is not under a Break.
OneFlag ==
    \A i \in 1 .. Depth :
        LET owner == frames[frames[i].loopOf]
        IN  ~(owner.brk /\ owner.cnt) /\ (frames[i].nop = -1 => ~owner.brk)

\* A frame that skips makes those above it skip: in the same loop whatever the
\* reason, in every frame if it is dead.
SkipsSpread ==
    \A i, j \in 1 .. Depth : i <= j =>
        /\ Dead(i) => Dead(j)
        /\ frames[i].loopOf = frames[j].loopOf /\ frames[i].nop # 0 => frames[j].nop # 0

SkipInv == PlainJumps => label = NoName /\ OneFlag /\ SkipsSpread

\* readme.md:1122, "the Continue instruction for skipping the remaining part
\* of the cycle": while a frame has a pending Continue, nothing below it is
\* executed.
ContinueSkipsRest ==
    st = "run" /\ label = NoName =>
        \A i \in DOMAIN frames : frames[i].cnt => Skipping(Depth)

\* readme.md:4625, "it works like goto in C": when no jump is under way any
\* more, the outermost level of the script is being executed again.
JumpLandsForGood ==
    st = "run" /\ label = NoName /\ ~frames[1].brk /\ ~frames[1].cnt => frames[1].nop = 0

\* The same line of the readme: a jump to a label the script has never ends
\* the script instead.
JumpFindsLabel ==
    st = "unwind" /\ label # NoName =>
        \A p \in DOMAIN prog : TypeAt(p) = "Label" => NameAt(p) # label

(* Liveness: what start_bms() does on its own, whatever the conditions yield *)

\* The search of a label ends: the loops it meets are walked over twice at most.
SearchEnds == label # NoName ~> label = NoName \/ st # "run"

\* A skip ends: the interpreter executes again or returns.
SkipEnds ==
    LET skips == st = "run" /\ Skipping(Depth)
    IN  skips ~> ~skips
=============================================================================
