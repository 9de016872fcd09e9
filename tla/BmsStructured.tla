---------------------------- MODULE BmsStructured ----------------------------
(***************************************************************************)
(* What a script means: the structured language of the commands For, Do,   *)
(* If, Break, Continue and CallFunction, executed with a program counter   *)
(* and a stack of calls.  Blocks are found in the text of the script, and  *)
(* a command that leaves a block goes straight to its destination: nothing *)
(* is ever skipped command by command.  BmsInterp implements this machine. *)
(***************************************************************************)
EXTENDS BmsScript

VARIABLES pc, calls, st

vars == <<prog, pc, calls, st>>

-----------------------------------------------------------------------------
Init ==
    /\ prog \in Seq(Command)
    /\ pc = 1
    /\ calls = <<>>
    /\ st = "run"

At(types) == st = "run" /\ TypeAt(pc) \in types
Go(p)     == pc' = p /\ UNCHANGED <<calls, st>>
Stop      == st' = "done" /\ pc' = End /\ calls' = <<>>

Simple == At({"Stmt", "Label"} \cup OpenLoop) /\ Go(pc + 1)

\* A command may fail, which ends the script.
Fails == At({"Stmt", "CleanExit"}) /\ Stop

\* The process may die anywhere (the nesting exhausts the C stack).
Dies == st = "run" /\ st' = "exit" /\ pc' = End /\ calls' = <<>>

ForTo == /\ At({"ForTo"})
         /\ Go(pc + 1) \/ Go(Closer(Last(LoopsAround(pc))) + 1)

Next_ == At({"Next"}) /\ Go(Last(LoopsAround(pc)) + 1)

While == /\ At({"While"})
         /\ Go(pc + 1) \/ Go(Last(LoopsAround(pc)) + 1)

If == /\ At({"If", "Elif"})
      /\ Go(pc + 1) \/ Go(NextBranch(pc))

Else == At({"Else"}) /\ Go(pc + 1)

EndOfBranch == At({"If_Return", "EndIf"})
            /\ Go(IF TypeAt(pc) = "EndIf" THEN pc + 1 ELSE ChainEnd(pc) + 1)

\* The innermost loop may be that of a caller: the functions in between end.
BreakOrContinue ==
    /\ At({"Break", "Continue"}) /\ NameAt(pc) = NoName
    /\ LET site  == Append(calls, pc)
           depth == {k \in DOMAIN site : LoopsAround(site[k]) # {}}
       IN  IF depth = {} THEN pc' = End /\ calls' = <<>>
           ELSE LET loop == Last(LoopsAround(site[Last(depth)]))
                IN  /\ pc' = IF TypeAt(pc) = "Break" THEN Closer(loop) + 1 ELSE Closer(loop)
                    /\ calls' = SubSeq(calls, 1, Last(depth) - 1)
    /\ UNCHANGED st

\* Break NAME and Continue NAME: a goto.
Goto ==
    /\ At({"Break", "Continue"}) /\ NameAt(pc) # NoName
    /\ Go(LabelPos(NameAt(pc)))

SkipFunction == At({"StartFunction"}) /\ Go(EndOfBody(pc) + 1)

Call ==
    /\ At({"CallFunction"})
    /\ pc' = Body(NameAt(pc))
    /\ calls' = Append(calls, pc)
    /\ UNCHANGED st

Return ==
    /\ At({"EndFunction"})
    /\ calls # <<>>
    /\ pc' = calls[Len(calls)] + 1
    /\ calls' = SubSeq(calls, 1, Len(calls) - 1)
    /\ UNCHANGED st

EndOfScript == At({"None"}) /\ Stop

Next ==
    /\ UNCHANGED prog
    /\ \/ Simple \/ Fails \/ Dies \/ ForTo \/ Next_ \/ While \/ If \/ Else \/ EndOfBranch
       \/ BreakOrContinue \/ Goto \/ SkipFunction \/ Call \/ Return \/ EndOfScript

Spec == Init /\ [][Next]_vars
=============================================================================
