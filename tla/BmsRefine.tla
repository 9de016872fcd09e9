------------------------------ MODULE BmsRefine ------------------------------
(***************************************************************************)
(* The interpreter that skips, BmsInterp, implements the machine that      *)
(* jumps, BmsStructured: while frames skip, the program counter already    *)
(* stands where the skip is going to end.                                  *)
(***************************************************************************)
EXTENDS BmsInterp

Skippers == {i \in DOMAIN frames : Skipping(i)}

\* The outermost frame that skips decides where execution goes on.
OutermostSkipper == First(Skippers)

\* Where a branch command at p leads once the branch entered or refused there is over.
BehindBranch(i) ==
    LET f == frames[i]
    IN  IF frames[f.ifOf].ifDone THEN ChainEnd(f.cmd) + 1 ELSE NextBranch(f.cmd)

Destination(i) ==
    LET f == frames[i]
    IN  CASE label # NoName                           -> LabelPos(label)
          [] label = NoName /\ f.kind = "skipped"     -> BehindBranch(i - 1)
          [] label = NoName /\ f.kind = "loop"        ->
                IF Nop(i) = -1 THEN Closer(f.start - 1) ELSE Closer(f.start - 1) + 1
          [] OTHER                                    -> End

PcBar ==
    IF st # "run" THEN End
    ELSE IF Skippers # {} THEN Destination(OutermostSkipper)
    ELSE IF Here \in {"Elif", "Else"} /\ frames[Top.ifOf].ifDone THEN ChainEnd(Top.cmd) + 1
    ELSE Top.cmd

\* The calls that are still going to return.
CallsBar ==
    LET last == IF Skippers # {} THEN OutermostSkipper ELSE Depth
        site(i) == frames[i - 1].cmd
        \* calls among the frames 2..i, outermost first
        sites[i \in 0 .. Depth] ==
            IF i < 2 THEN <<>>
            ELSE IF frames[i].kind = "func" THEN Append(sites[i - 1], site(i))
            ELSE sites[i - 1]
    IN  IF st # "run" THEN <<>> ELSE sites[last]

StBar == IF st = "unwind" THEN "done" ELSE st

Structured == INSTANCE BmsStructured WITH pc <- PcBar, calls <- CallsBar, st <- StBar

\* Every run of the interpreter is a run of the structured language: each
\* Break, Continue, false condition, branch and return lands where the text of
\* the script says, and nothing in between is executed.
ImplementsStructured == Structured!Spec
=============================================================================
