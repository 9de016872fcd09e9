--------------------------- MODULE BmsInterp_proofs ---------------------------
(***************************************************************************)
(* Proofs about the interpreter of BmsInterp, for every script and every   *)
(* depth of the C stack.  A step of start_bms() changes the stack of its   *)
(* activations in one of three ways, and each invariant is carried over    *)
(* each of them once: in place (InPlace), by a call (Enter, NewFrame) and  *)
(* by a return (Leave, Popped).  The actions are then sorted into these.   *)
(* The second half, from the blocks on, is about orderly scripts: FlowInv  *)
(* ties the stack to the text, and says where what is pending will end.    *)
(***************************************************************************)
EXTENDS BmsInterp, TLAPS, SequenceTheorems, WellFoundedInduction

-----------------------------------------------------------------------------
(* The stack as a function *)

\* The stacks of n frames.
Stacks(n) == [1 .. n -> Frame]

\* A function on 1 .. n into Frame is a sequence of n frames.
LEMMA StackIsSeq ==
  ASSUME NEW n \in Nat, NEW s \in Stacks(n)
  PROVE  s \in Seq(Frame) /\ Len(s) = n /\ DOMAIN s = 1 .. n
<1>1. s \in Seq(Frame)
  BY SeqDef DEF Stacks
<1>2. DOMAIN s = 1 .. n
  BY DEF Stacks
<1> QED BY <1>1, <1>2, LenProperties

\* The stack, seen as a function.
LEMMA StackType ==
  ASSUME TypeOK
  PROVE  Depth \in Nat /\ frames \in Stacks(Depth)
BY LenProperties DEF TypeOK, Depth, Stacks

\* Nop yields one of the three values of nop.
LEMMA NopType == ASSUME TypeOK, NEW i \in 1 .. Depth PROVE Nop(i) \in {-1, 0, 1}
BY StackType DEF Nop, Frame, Stacks

\* What a step may change in a stack of unchanged height.
InPlace(g) ==
  /\ g \in Stacks(Depth)
  /\ \A i \in 1 .. Depth : /\ g[i].kind = frames[i].kind
                           /\ g[i].start = frames[i].start
                           /\ g[i].loopOf = frames[i].loopOf
  /\ \A i \in 1 .. Depth - 1 : /\ g[i].cmd = frames[i].cmd
                               /\ g[i].nop = frames[i].nop
                               /\ g[i].ifOf = frames[i].ifOf
  /\ g[Depth].ifOf \in {frames[Depth].ifOf, Depth}
  /\ g[Depth].cmd >= g[Depth].start

\* A frame may be replaced by one with the same kind, start and loop.
LEMMA PutInPlace ==
  ASSUME TypeOK, Depth >= 1, NEW g, InPlace(g), NEW o \in 1 .. Depth, NEW f \in Frame,
         f.kind = g[o].kind, f.start = g[o].start, f.loopOf = g[o].loopOf,
         o < Depth => f.cmd = g[o].cmd /\ f.nop = g[o].nop /\ f.ifOf = g[o].ifOf,
         o = Depth => f.cmd >= f.start /\ f.ifOf \in {frames[Depth].ifOf, Depth}
  PROVE InPlace([g EXCEPT ![o] = f])
<1>1. Depth \in Nat /\ g \in Stacks(Depth)
  BY StackType DEF InPlace
<1>2. [g EXCEPT ![o] = f] \in Stacks(Depth)
  BY <1>1 DEF Stacks
<1>3. \A i \in 1 .. Depth : [g EXCEPT ![o] = f][i] = IF i = o THEN f ELSE g[i]
  BY <1>1 DEF Stacks
<1> QED BY <1>1, <1>2, <1>3 DEF InPlace

\* The stack itself is a stack changed in place.
LEMMA UnchangedInPlace ==
  ASSUME TypeOK, Depth >= 1, Top.cmd >= Top.start
  PROVE  InPlace(frames)
BY StackType DEF InPlace, Top

\* Setting a flag of any frame is a change in place.
LEMMA SetInPlace ==
  ASSUME TypeOK, Depth >= 1, NEW g, InPlace(g), NEW o \in 1 .. Depth, NEW b \in BOOLEAN
  PROVE /\ InPlace([g EXCEPT ![o].brk = b])
        /\ InPlace([g EXCEPT ![o].cnt = b])
        /\ InPlace([g EXCEPT ![o].ifDone = b])
        /\ InPlace([g EXCEPT ![o].looped = b])
<1>1. g[o] \in Frame
  BY DEF InPlace, Stacks
<1>2. o = Depth => g[o].cmd >= g[o].start /\ g[o].ifOf \in {frames[Depth].ifOf, Depth}
  BY DEF InPlace
<1>3. InPlace([g EXCEPT ![o] = [g[o] EXCEPT !.brk = b]])
  BY <1>1, <1>2, PutInPlace DEF Frame
<1>4. InPlace([g EXCEPT ![o] = [g[o] EXCEPT !.cnt = b]])
  BY <1>1, <1>2, PutInPlace DEF Frame
<1>5. InPlace([g EXCEPT ![o] = [g[o] EXCEPT !.ifDone = b]])
  BY <1>1, <1>2, PutInPlace DEF Frame
<1>6. InPlace([g EXCEPT ![o] = [g[o] EXCEPT !.looped = b]])
  BY <1>1, <1>2, PutInPlace DEF Frame
<1> QED BY <1>3, <1>4, <1>5, <1>6

\* So is moving the top frame to a command not in front of its start.
LEMMA SetCmdInPlace ==
  ASSUME TypeOK, Depth >= 1, NEW g, InPlace(g), NEW p \in Nat, p >= g[Depth].start
  PROVE  InPlace([g EXCEPT ![Depth].cmd = p])
<1>1. Depth \in Nat /\ Depth \in 1 .. Depth /\ g[Depth] \in Frame
  BY StackType DEF InPlace, Stacks
<1>2. g[Depth].ifOf \in {frames[Depth].ifOf, Depth}
  BY DEF InPlace
<1> DEFINE f == [g[Depth] EXCEPT !.cmd = p]
<1>3. /\ f \in Frame /\ f.cmd = p /\ f.ifOf = g[Depth].ifOf
      /\ f.kind = g[Depth].kind /\ f.start = g[Depth].start /\ f.loopOf = g[Depth].loopOf
  BY <1>1 DEF Frame
<1> HIDE DEF f
<1>4. InPlace([g EXCEPT ![Depth] = f])
  BY <1>1, <1>2, <1>3, PutInPlace
<1> QED BY <1>4 DEF f

\* So is setting nop, or making the frame the owner of an If chain, at the top.
LEMMA SetTopInPlace ==
  ASSUME TypeOK, Depth >= 1, NEW g, InPlace(g), NEW k \in {-1, 0, 1}
  PROVE  /\ InPlace([g EXCEPT ![Depth].nop = k])
         /\ InPlace([g EXCEPT ![Depth].ifOf = Depth])
<1>0. Depth \in Nat /\ Depth \in 1 .. Depth
  BY StackType
<1>1. g[Depth] \in Frame
  BY <1>0 DEF InPlace, Stacks
<1>2. g[Depth].cmd >= g[Depth].start /\ g[Depth].ifOf \in {frames[Depth].ifOf, Depth}
  BY DEF InPlace
<1>3. InPlace([g EXCEPT ![Depth] = [g[Depth] EXCEPT !.nop = k]])
  BY <1>0, <1>1, <1>2, PutInPlace DEF Frame
<1>4. InPlace([g EXCEPT ![Depth] = [g[Depth] EXCEPT !.ifOf = Depth]])
  BY <1>0, <1>1, <1>2, PutInPlace DEF Frame
<1> QED BY <1>3, <1>4

\* So is going on to the next command.
LEMMA AdvanceInPlace ==
  ASSUME TypeOK, Depth >= 1, NEW g, InPlace(g)
  PROVE  InPlace(Advance(g))
<1>1. g[Depth].cmd + 1 \in Nat /\ g[Depth].cmd + 1 >= g[Depth].start
  BY StackType DEF InPlace, Stacks, Frame
<1> QED BY <1>1, SetCmdInPlace DEF Advance

\* So is storing nop.
LEMMA SettledInPlace ==
  ASSUME TypeOK, Depth >= 1, Top.cmd >= Top.start
  PROVE  InPlace(Settled)
<1>1. Nop(Depth) \in {-1, 0, 1} /\ Top.cmd \in Nat
  BY StackType, NopType DEF Stacks, Frame, Top
<1> QED BY <1>1, UnchangedInPlace, SetTopInPlace DEF Settled, Top

-----------------------------------------------------------------------------
(* The stack mirrors the blocks *)

\* StackInv survives a change in place.
LEMMA InPlaceStack ==
  ASSUME StackInv, Depth >= 1, InPlace(frames'), prog' = prog,
         label' \in Names \cup {NoName}, st' \in {"run", "unwind"}
  PROVE  StackInv'
<1> DEFINE g == frames'
<1>1. Depth \in Nat /\ frames \in Stacks(Depth) /\ g \in Stacks(Depth)
  BY StackType DEF StackInv, InPlace
<1>2. g \in Seq(Frame) /\ Depth' = Depth
  BY <1>1, StackIsSeq DEF Depth
<1>3. TypeOK'
  BY <1>2 DEF StackInv, TypeOK, Depth
<1>4. Live'
  BY <1>2 DEF Live
<1>5. LinksOK'
  <2> SUFFICES ASSUME NEW i \in 1 .. Depth
               PROVE  /\ g[i].ifOf \in 1 .. i /\ g[i].loopOf \in 1 .. i
                      /\ g[i].kind = "loop" => g[i].loopOf = i
                      /\ \A j \in g[i].loopOf .. i : g[j].loopOf = g[i].loopOf
    BY <1>2 DEF LinksOK
  <2>1. g[i].kind = frames[i].kind /\ g[i].loopOf = frames[i].loopOf
    BY DEF InPlace
  <2>2. g[i].ifOf = frames[i].ifOf \/ g[i].ifOf = i
    BY <1>1 DEF InPlace
  <2>3. /\ frames[i].ifOf \in 1 .. i /\ frames[i].loopOf \in 1 .. i
        /\ frames[i].kind = "loop" => frames[i].loopOf = i
        /\ \A j \in frames[i].loopOf .. i : frames[j].loopOf = frames[i].loopOf
    BY DEF StackInv, LinksOK
  <2>4. \A j \in frames[i].loopOf .. i : g[j].loopOf = frames[j].loopOf
    BY <2>3, <1>1 DEF InPlace
  <2> QED BY <2>1, <2>2, <2>3, <2>4, <1>1
<1>6. FramesMatchBlocks'
  <2> SUFFICES ASSUME NEW i \in 1 .. Depth
               PROVE  /\ g[i].cmd >= g[i].start
                      /\ g[i].kind = "top" <=> i = 1
                      /\ i > 1 => OpenedBy(frames[i - 1].cmd, frames[i].kind, frames[i].start)'
    BY <1>2 DEF FramesMatchBlocks
  <2>1. g[i].kind = frames[i].kind /\ g[i].start = frames[i].start
    BY DEF InPlace
  <2>2. i < Depth => g[i].cmd = frames[i].cmd
    BY <1>1 DEF InPlace
  <2>3. i > 1 => g[i - 1].cmd = frames[i - 1].cmd
    BY <1>1 DEF InPlace
  <2>4. g[Depth].cmd >= g[Depth].start
    BY DEF InPlace
  <2>5. /\ frames[i].cmd >= frames[i].start
        /\ frames[i].kind = "top" <=> i = 1
        /\ i > 1 => OpenedBy(frames[i - 1].cmd, frames[i].kind, frames[i].start)
    BY DEF StackInv, FramesMatchBlocks
  <2>6. i > 1 => OpenedBy(frames[i - 1].cmd, frames[i].kind, frames[i].start)'
    BY <2>1, <2>3, <2>5 DEF OpenedBy, TypeAt, NameAt
  <2> QED BY <2>1, <2>2, <2>4, <2>5, <2>6, <1>1
<1> QED BY <1>3, <1>4, <1>5, <1>6 DEF StackInv

\* StackInv survives the end of the program.
LEMMA ExitStack ==
  ASSUME StackInv, frames' = <<>>, st' \in {"done", "exit"}, prog' = prog,
         label' \in Names \cup {NoName}
  PROVE  StackInv'
<1>1. Depth' = 0 /\ frames' \in Seq(Frame)
  BY LenProperties DEF Depth
<1> QED BY <1>1
        DEF StackInv, TypeOK, Live, LinksOK, FramesMatchBlocks, Depth

\* A stack g of unchanged height with one frame more.
LEMMA PushType ==
  ASSUME TypeOK, NEW g \in Stacks(Depth), NEW f \in Frame
  PROVE  LET h == Append(g, f)
         IN  /\ h \in Seq(Frame) /\ Len(h) = Depth + 1 /\ h \in Stacks(Depth + 1)
             /\ h[Depth + 1] = f
             /\ \A i \in 1 .. Depth : h[i] = g[i]
<1> DEFINE h == Append(g, f)
<1>1. Depth \in Nat /\ g \in Seq(Frame) /\ Len(g) = Depth
  BY StackType, StackIsSeq
<1>2. /\ h \in Seq(Frame) /\ Len(h) = Depth + 1
      /\ \A i \in 1 .. Len(g) : h[i] = g[i]
      /\ h[Len(g) + 1] = f
  BY <1>1, AppendProperties
<1>3. h \in Stacks(Depth + 1)
  BY <1>1, <1>2, LenProperties DEF Stacks
<1> QED BY <1>1, <1>2, <1>3

\* The locals of a new activation.
LEMMA NewFrameType ==
  ASSUME StackInv, Depth >= 1, NEW g, InPlace(g),
         NEW kind \in Kind, NEW p \in Nat, NEW k \in {-1, 0, 1}
  PROVE  LET f == NewFrame(g, kind, p, k)
         IN  /\ f \in Frame /\ f.kind = kind /\ f.start = p /\ f.cmd = p /\ f.nop = k
             /\ f.ifOf \in 1 .. Depth
             /\ f.loopOf = IF kind = "loop" THEN Depth + 1 ELSE frames[Depth].loopOf
             /\ f.brk <=> kind = "loop" /\ g[frames[Depth].loopOf].brk
             /\ f.cnt <=> kind = "loop" /\ g[frames[Depth].loopOf].cnt
<1>1. Depth \in Nat /\ frames \in Stacks(Depth) /\ g \in Stacks(Depth) /\ Depth \in 1 .. Depth
  BY StackType DEF StackInv, InPlace
<1>2. frames[Depth].ifOf \in 1 .. Depth /\ frames[Depth].loopOf \in 1 .. Depth
  BY <1>1 DEF StackInv, LinksOK
<1>3. g[Depth].loopOf = frames[Depth].loopOf /\ g[Depth].ifOf \in 1 .. Depth
  BY <1>1, <1>2 DEF InPlace
<1>4. g[Depth] \in Frame /\ g[frames[Depth].loopOf] \in Frame
  BY <1>1, <1>2 DEF Stacks
<1>5. g[frames[Depth].loopOf].brk \in BOOLEAN /\ g[frames[Depth].loopOf].cnt \in BOOLEAN
  BY <1>4 DEF Frame
<1>6. LET f == NewFrame(g, kind, p, k)
      IN  /\ f \in Frame /\ f.kind = kind /\ f.start = p /\ f.cmd = p /\ f.nop = k
          /\ f.ifOf \in 1 .. Depth
          /\ f.loopOf = IF kind = "loop" THEN Depth + 1 ELSE frames[Depth].loopOf
          /\ f.brk = (kind = "loop" /\ g[frames[Depth].loopOf].brk)
          /\ f.cnt = (kind = "loop" /\ g[frames[Depth].loopOf].cnt)
  BY <1>1, <1>2, <1>3, <1>5 DEF NewFrame, Frame
<1> QED BY <1>6, Zenon

\* StackInv survives a recursive call of start_bms().
LEMMA EnterStack ==
  ASSUME StackInv, Depth >= 1, st = "run", NEW g, InPlace(g), g[Depth].cmd = Top.cmd,
         NEW kind \in Kind \ {"top"}, NEW p \in Nat, NEW k \in {-1, 0, 1},
         OpenedBy(Top.cmd, kind, p), Enter(g, kind, p, k), prog' = prog, label' = label
  PROVE  StackInv'
<1>1. CASE Depth = MaxDepth
  BY <1>1, ExitStack DEF Enter, StackInv, TypeOK
<1>2. CASE Depth # MaxDepth
  <2> DEFINE h == frames'
             f == NewFrame(g, kind, p, k)
  <2>1. Depth \in Nat /\ frames \in Stacks(Depth) /\ g \in Stacks(Depth)
    BY StackType DEF StackInv, InPlace
  <2>2. f \in Frame /\ f.kind = kind /\ f.start = p /\ f.cmd = p
    BY NewFrameType
  <2>2a. f.ifOf \in 1 .. Depth /\ f.loopOf = IF kind = "loop" THEN Depth + 1 ELSE frames[Depth].loopOf
    BY NewFrameType
  <2>3. h = Append(g, f) /\ st' = st
    BY <1>2 DEF Enter
  <2>4. /\ h \in Seq(Frame) /\ Len(h) = Depth + 1
        /\ h[Depth + 1] = f
        /\ \A i \in 1 .. Depth : h[i] = g[i]
    BY <2>1, <2>2, <2>3, PushType DEF StackInv
  <2>5. Depth' = Depth + 1
    BY <2>4 DEF Depth
  <2>6. TypeOK'
    BY <2>3, <2>4 DEF StackInv, TypeOK
  <2>7. Live'
    BY <2>1, <2>3, <2>5 DEF Live
  <2>8. \A i \in 1 .. Depth : /\ h[i].kind = frames[i].kind /\ h[i].start = frames[i].start
                              /\ h[i].loopOf = frames[i].loopOf
                              /\ h[i].ifOf \in {frames[i].ifOf, i}
    BY <2>1, <2>4 DEF InPlace
  <2>9. \A i \in 1 .. Depth : h[i].cmd = frames[i].cmd
    BY <2>1, <2>4 DEF InPlace, Top
  <2>10. \A i \in 1 .. Depth :
            /\ frames[i].ifOf \in 1 .. i /\ frames[i].loopOf \in 1 .. i
            /\ frames[i].kind = "loop" => frames[i].loopOf = i
            /\ \A j \in frames[i].loopOf .. i : frames[j].loopOf = frames[i].loopOf
    BY DEF StackInv, LinksOK
  <2>11. LinksOK'
    <3> SUFFICES ASSUME NEW i \in 1 .. Depth + 1
                 PROVE  /\ h[i].ifOf \in 1 .. i /\ h[i].loopOf \in 1 .. i
                        /\ h[i].kind = "loop" => h[i].loopOf = i
                        /\ \A j \in h[i].loopOf .. i : h[j].loopOf = h[i].loopOf
      BY <2>5 DEF LinksOK
    <3>1. CASE i <= Depth
      BY <3>1, <2>1, <2>8, <2>10
    <3>2. CASE i = Depth + 1
      <4>1. h[i] = f /\ Depth \in 1 .. Depth
        BY <3>2, <2>1, <2>4
      <4>2. CASE kind = "loop"
        BY <4>1, <4>2, <3>2, <2>1, <2>2, <2>2a
      <4>3. CASE kind # "loop"
        BY <4>1, <4>3, <3>2, <2>1, <2>2, <2>2a, <2>8, <2>10
      <4> QED BY <4>2, <4>3
    <3> QED BY <3>1, <3>2, <2>1
  <2>12. FramesMatchBlocks'
    <3> SUFFICES ASSUME NEW i \in 1 .. Depth + 1
                 PROVE  /\ h[i].cmd >= h[i].start
                        /\ h[i].kind = "top" <=> i = 1
                        /\ i > 1 => OpenedBy(frames[i - 1].cmd, frames[i].kind, frames[i].start)'
      BY <2>5 DEF FramesMatchBlocks
    <3>1. CASE i <= Depth
      <4>1. /\ frames[i].cmd >= frames[i].start
            /\ frames[i].kind = "top" <=> i = 1
            /\ i > 1 => OpenedBy(frames[i - 1].cmd, frames[i].kind, frames[i].start)
        BY <3>1, <2>1 DEF StackInv, FramesMatchBlocks
      <4>2. h[i].kind = frames[i].kind /\ h[i].start = frames[i].start /\ h[i].cmd = frames[i].cmd
        BY <3>1, <2>1, <2>8, <2>9
      <4>3. i > 1 => h[i - 1].cmd = frames[i - 1].cmd
        BY <3>1, <2>1, <2>9
      <4>4. i > 1 => OpenedBy(frames[i - 1].cmd, frames[i].kind, frames[i].start)'
        BY <4>1, <4>2, <4>3 DEF OpenedBy, TypeAt, NameAt
      <4> QED BY <4>1, <4>2, <4>4
    <3>2. CASE i = Depth + 1
      <4>1. h[i].kind = kind /\ h[i].start = p /\ h[i].cmd = p /\ i > 1
        BY <3>2, <2>1, <2>2, <2>4
      <4>2. h[i - 1].cmd = Top.cmd
        BY <3>2, <2>1, <2>9 DEF Top
      <4>3. OpenedBy(frames[i - 1].cmd, frames[i].kind, frames[i].start)'
        BY <4>1, <4>2 DEF OpenedBy, TypeAt, NameAt
      <4> QED BY <4>1, <4>3
    <3> QED BY <3>1, <3>2, <2>1
  <2> QED BY <2>6, <2>7, <2>11, <2>12 DEF StackInv
<1> QED BY <1>1, <1>2

\* The stack below the top frame.
LEMMA CallerType ==
  ASSUME TypeOK, Depth >= 1, NEW g \in Stacks(Depth)
  PROVE  /\ Caller(g) \in Seq(Frame) /\ Len(Caller(g)) = Depth - 1
         /\ Caller(g) \in Stacks(Depth - 1)
         /\ \A i \in 1 .. Depth - 1 : Caller(g)[i] = g[i]
<1>1. Depth \in Nat /\ g \in Seq(Frame) /\ Len(g) = Depth
  BY StackType, StackIsSeq
<1>2. /\ Caller(g) \in Seq(Frame) /\ Len(Caller(g)) = Depth - 1
      /\ \A i \in 1 .. Depth - 1 : Caller(g)[i] = g[i]
  BY <1>1, SubSeqProperties DEF Caller
<1>3. Caller(g) \in Stacks(Depth - 1)
  BY <1>1, <1>2, LenProperties DEF Stacks
<1> QED BY <1>2, <1>3

\* What is left of a stack g once its top frame has returned.
Popped(g, h) ==
  /\ h \in Stacks(Depth - 1)
  /\ \A i \in 1 .. Depth - 1 :
        /\ h[i].kind = frames[i].kind
        /\ h[i].start = frames[i].start
        /\ h[i].loopOf = frames[i].loopOf
        /\ h[i].ifOf = frames[i].ifOf
        /\ h[i].nop = frames[i].nop
        /\ h[i].brk = g[i].brk
        /\ h[i].cnt = g[i].cnt
        /\ h[i].looped = g[i].looped
  /\ \A i \in 1 .. Depth - 2 : h[i].cmd = frames[i].cmd
  /\ h[Depth - 1].cmd >= h[Depth - 1].start

\* Dropping the top frame is a return.
LEMMA CallerPopped ==
  ASSUME StackInv, Depth > 1, NEW g, InPlace(g)
  PROVE  Popped(g, Caller(g))
<1>1. Depth \in Nat /\ g \in Stacks(Depth) /\ TypeOK
  BY StackType DEF InPlace, StackInv
<1>2. /\ Caller(g) \in Stacks(Depth - 1)
      /\ \A i \in 1 .. Depth - 1 : Caller(g)[i] = g[i]
  BY <1>1, CallerType
<1>3. frames[Depth - 1].cmd >= frames[Depth - 1].start
  BY <1>1 DEF StackInv, FramesMatchBlocks
<1> QED BY <1>1, <1>2, <1>3 DEF InPlace, Popped

\* BMS_QUIT_NO_ERROR is a return: the caller goes on behind what it called.
LEMMA LeavePopped ==
  ASSUME StackInv, Depth > 1, NEW g, InPlace(g), g[Depth].cmd = Top.cmd, Leave(g)
  PROVE  Popped(g, frames') /\ st' = st
<1> DEFINE c  == Caller(g)
           at == IF Top.kind = "func" THEN g[Depth - 1].cmd ELSE Top.cmd
           o  == g[Depth - 1].ifOf
           h1 == [c EXCEPT ![Depth - 1] = [c[Depth - 1] EXCEPT !.cmd = at + 1]]
           h2 == [h1 EXCEPT ![o] = [h1[o] EXCEPT !.ifDone = @ \/ Top.kind = "taken"]]
<1>1. Depth \in Nat /\ Depth - 1 \in 1 .. Depth - 1 /\ g \in Stacks(Depth) /\ frames \in Stacks(Depth)
  BY StackType DEF InPlace, StackInv
<1>2. c \in Stacks(Depth - 1) /\ Popped(g, c)
  BY CallerPopped DEF Popped
<1>3. frames' = h2 /\ st' = st
  BY <1>1 DEF Leave
<1>4. at \in Nat
  BY <1>1 DEF Stacks, Frame, Top
<1>5. at + 1 >= c[Depth - 1].start
  <2>1. c[Depth - 1].start = frames[Depth - 1].start /\ c[Depth - 1].start \in Nat
    BY <1>1, <1>2 DEF Popped, Stacks, Frame
  <2>2. g[Depth - 1].cmd = frames[Depth - 1].cmd /\ Top = frames[Depth]
    BY <1>1 DEF InPlace, Top
  <2>3. /\ frames[Depth - 1].cmd >= frames[Depth - 1].start
        /\ frames[Depth].cmd >= frames[Depth].start
        /\ OpenedBy(frames[Depth - 1].cmd, frames[Depth].kind, frames[Depth].start)
    BY <1>1 DEF StackInv, FramesMatchBlocks
  <2>4. CASE Top.kind = "func"
    BY <2>1, <2>2, <2>3, <2>4, <1>1, <1>4
  <2>5. CASE Top.kind # "func"
    <3>1. frames[Depth].start = frames[Depth - 1].cmd + 1
      BY <2>2, <2>3, <2>5 DEF OpenedBy
    <3>2. /\ frames[Depth].start \in Nat /\ frames[Depth].cmd \in Nat
          /\ frames[Depth - 1].start \in Nat /\ frames[Depth - 1].cmd \in Nat
      <4>1. frames[Depth] \in Frame /\ frames[Depth - 1] \in Frame
        BY <1>1 DEF Stacks
      <4> QED BY <4>1 DEF Frame
    <3> QED BY <3>1, <3>2, <2>1, <2>2, <2>3, <2>5
  <2> QED BY <2>4, <2>5
<1>6. o \in 1 .. Depth - 1
  <2>1. g[Depth - 1].ifOf = frames[Depth - 1].ifOf
    BY <1>1 DEF InPlace
  <2> QED BY <2>1, <1>1 DEF StackInv, LinksOK
<1>7. Popped(g, h1)
  <2>1. c[Depth - 1] \in Frame
    BY <1>1, <1>2 DEF Stacks
  <2>2. [c[Depth - 1] EXCEPT !.cmd = at + 1] \in Frame
    BY <2>1, <1>4 DEF Frame
  <2>3. h1 \in Stacks(Depth - 1)
    BY <2>2, <1>2 DEF Stacks
  <2>4. \A i \in 1 .. Depth - 1 :
           h1[i] = IF i = Depth - 1 THEN [c[Depth - 1] EXCEPT !.cmd = at + 1] ELSE c[i]
    BY <1>1, <1>2 DEF Stacks
  <2> HIDE DEF at
  <2> QED BY <2>1, <2>3, <2>4, <1>1, <1>2, <1>4, <1>5 DEF Popped, Frame
<1>8. Popped(g, h2)
  <2> HIDE DEF h1
  <2>1. h1 \in Stacks(Depth - 1)
    BY <1>7 DEF Popped
  <2>2. h1[o] \in Frame
    BY <1>6, <2>1 DEF Stacks
  <2>3. (h1[o].ifDone \/ Top.kind = "taken") \in BOOLEAN
    BY <2>2 DEF Frame
  <2>4. [h1[o] EXCEPT !.ifDone = @ \/ Top.kind = "taken"] \in Frame
    BY <2>2, <2>3 DEF Frame
  <2>5. h2 \in Stacks(Depth - 1)
    BY <2>1, <2>4, <1>6 DEF Stacks
  <2>6. \A i \in 1 .. Depth - 1 :
           h2[i] = IF i = o THEN [h1[o] EXCEPT !.ifDone = @ \/ Top.kind = "taken"] ELSE h1[i]
    BY <2>1 DEF Stacks
  <2> HIDE DEF h2, o
  <2> QED BY <2>2, <2>5, <2>6, <1>1, <1>7 DEF Popped, Frame
<1> QED BY <1>3, <1>8

\* StackInv survives a return.
LEMMA PoppedStack ==
  ASSUME StackInv, Depth > 1, NEW g, Popped(g, frames'), prog' = prog,
         label' \in Names \cup {NoName}, st' \in {"run", "unwind"}
  PROVE  StackInv'
<1> DEFINE h == frames'
<1>1. Depth \in Nat /\ h \in Stacks(Depth - 1)
  BY StackType DEF StackInv, Popped
<1>2. h \in Seq(Frame) /\ Len(h) = Depth - 1 /\ Depth' = Depth - 1
  BY <1>1, StackIsSeq DEF Depth
<1>3. TypeOK'
  BY <1>2 DEF StackInv, TypeOK
<1>4. Live'
  BY <1>1, <1>2 DEF Live
<1>5. \A i \in 1 .. Depth - 1 :
        /\ h[i].kind = frames[i].kind /\ h[i].start = frames[i].start
        /\ h[i].loopOf = frames[i].loopOf /\ h[i].ifOf = frames[i].ifOf
  BY DEF Popped
<1>6. LinksOK'
  <2> SUFFICES ASSUME NEW i \in 1 .. Depth - 1
               PROVE  /\ h[i].ifOf \in 1 .. i /\ h[i].loopOf \in 1 .. i
                      /\ h[i].kind = "loop" => h[i].loopOf = i
                      /\ \A j \in h[i].loopOf .. i : h[j].loopOf = h[i].loopOf
    BY <1>2 DEF LinksOK
  <2>1. /\ i \in 1 .. Depth /\ frames[i].ifOf \in 1 .. i /\ frames[i].loopOf \in 1 .. i
        /\ frames[i].kind = "loop" => frames[i].loopOf = i
        /\ \A j \in frames[i].loopOf .. i : frames[j].loopOf = frames[i].loopOf
    BY <1>1 DEF StackInv, LinksOK
  <2>2. \A j \in frames[i].loopOf .. i : j \in 1 .. Depth - 1
    BY <1>1, <2>1
  <2> QED BY <1>5, <2>1, <2>2
<1>7. FramesMatchBlocks'
  <2> SUFFICES ASSUME NEW i \in 1 .. Depth - 1
               PROVE  /\ h[i].cmd >= h[i].start
                      /\ h[i].kind = "top" <=> i = 1
                      /\ i > 1 => OpenedBy(frames[i - 1].cmd, frames[i].kind, frames[i].start)'
    BY <1>2 DEF FramesMatchBlocks
  <2>1. /\ frames[i].cmd >= frames[i].start
        /\ frames[i].kind = "top" <=> i = 1
        /\ i > 1 => OpenedBy(frames[i - 1].cmd, frames[i].kind, frames[i].start)
    BY <1>1 DEF StackInv, FramesMatchBlocks
  <2>2. h[i].cmd >= h[i].start
    BY <2>1, <1>1, <1>5 DEF Popped
  <2>3. i > 1 => h[i - 1].cmd = frames[i - 1].cmd
    BY <1>1 DEF Popped
  <2>4. i > 1 => OpenedBy(frames[i - 1].cmd, frames[i].kind, frames[i].start)'
    BY <2>1, <2>3, <1>5 DEF OpenedBy, TypeAt, NameAt
  <2> QED BY <2>1, <2>2, <2>4, <1>5
<1> QED BY <1>3, <1>4, <1>6, <1>7 DEF StackInv

\* StackInv survives BMS_QUIT_NO_ERROR, also that of the last frame.
LEMMA LeaveStack ==
  ASSUME StackInv, Depth >= 1, st = "run", NEW g, InPlace(g), g[Depth].cmd = Top.cmd, Leave(g),
         prog' = prog, label' = label
  PROVE  StackInv'
<1>1. Depth \in Nat /\ label \in Names \cup {NoName}
  BY StackType DEF StackInv, TypeOK
<1>2. CASE Depth = 1
  BY <1>1, <1>2, ExitStack DEF Leave
<1>3. CASE Depth # 1
  BY <1>1, <1>3, LeavePopped, PoppedStack
<1> QED BY <1>2, <1>3

\* What StackInv says of a running interpreter, in one place.
LEMMA RunType ==
  ASSUME StackInv, st = "run"
  PROVE  /\ TypeOK /\ Depth \in Nat /\ Depth >= 1 /\ Depth \in 1 .. Depth
         /\ frames \in Stacks(Depth) /\ Top \in Frame /\ Top = frames[Depth]
         /\ Top.cmd \in Nat /\ Top.start \in Nat /\ Top.cmd >= Top.start
         /\ Top.loopOf \in 1 .. Depth /\ Top.ifOf \in 1 .. Depth
         /\ Nop(Depth) \in {-1, 0, 1}
         /\ label \in Names \cup {NoName}
<1>1. TypeOK /\ Depth \in Nat /\ Depth >= 1 /\ frames \in Stacks(Depth) /\ Depth \in 1 .. Depth
  BY StackType DEF StackInv, Live
<1>2. Top \in Frame /\ Top = frames[Depth]
  BY <1>1 DEF Stacks, Top
<1>3. Top.cmd \in Nat /\ Top.start \in Nat
  BY <1>2 DEF Frame
<1>4. Top.cmd >= Top.start /\ Top.loopOf \in 1 .. Depth /\ Top.ifOf \in 1 .. Depth
  BY <1>1, <1>2 DEF StackInv, FramesMatchBlocks, LinksOK
<1> QED BY <1>1, <1>2, <1>3, <1>4, NopType DEF TypeOK

\* The stacks the actions start from are changed in place.
LEMMA SettledCmd ==
  ASSUME StackInv, st = "run"
  PROVE  InPlace(Settled) /\ Settled[Depth].cmd = Top.cmd /\ InPlace(frames) /\ InPlace(Advance(Settled))
<1>1. InPlace(Settled) /\ InPlace(frames) /\ InPlace(Advance(Settled))
  BY RunType, SettledInPlace, UnchangedInPlace, AdvanceInPlace
<1>2. Settled[Depth] = [Top EXCEPT !.nop = Nop(Depth)]
  BY RunType DEF Settled, Stacks, Top
<1> QED BY <1>1, <1>2, RunType DEF Frame

\* Going back to the start of a frame is a change in place.
LEMMA RestartInPlace ==
  ASSUME StackInv, st = "run", NEW g, InPlace(g)
  PROVE  InPlace(Restart(g))
<1>1. g[Depth].start = Top.start /\ Top.start \in Nat /\ Top.start >= Top.start
  BY RunType DEF InPlace
<1> QED BY <1>1, RunType, SetCmdInPlace DEF Restart

\* Every step of the interpreter preserves StackInv.
LEMMA StackStep ==
  ASSUME StackInv, Next
  PROVE  StackInv'
<1>1. CASE Terminated
  BY <1>1 DEF Terminated, vars, StackInv, TypeOK, Live, LinksOK, FramesMatchBlocks, Depth, OpenedBy, TypeAt, NameAt
<1>2. CASE st = "run" /\ prog' = prog /\ Step
  <2> USE <1>2
  <2>1. CASE Skip
    BY <2>1, SettledCmd, InPlaceStack, RunType DEF Skip
  <2>2. CASE Execute
    <3>1. CASE frames' = Advance(frames) /\ label' = label /\ st' = st
      BY <3>1, RunType, SettledCmd, AdvanceInPlace, InPlaceStack
    <3>2. CASE Fail
      BY <3>2, RunType, SettledCmd, InPlaceStack DEF Fail
    <3> QED BY <2>2, <3>1, <3>2 DEF Execute
  <2>3. CASE CleanExit
    BY <2>3, RunType, SettledCmd, InPlaceStack DEF CleanExit, Fail
  <2>4. CASE ForTo
    <3>1. PICK k \in {0, 1} : frames' = Advance([frames EXCEPT ![Depth].nop = k])
      BY <2>4 DEF ForTo
    <3>2. InPlace([frames EXCEPT ![Depth].nop = k])
      BY RunType, SettledCmd, SetTopInPlace
    <3>3. InPlace(frames')
      BY <3>1, <3>2, RunType, AdvanceInPlace
    <3> QED BY <2>4, <3>3, RunType, InPlaceStack DEF ForTo
  <2>5. CASE BreakOrContinue
    <3> DEFINE b == [frames EXCEPT ![Top.loopOf].brk = TRUE]
               c == [frames EXCEPT ![Top.loopOf].cnt = TRUE]
    <3>1. InPlace(b) /\ InPlace(c)
      BY RunType, SettledCmd, SetInPlace
    <3>2. InPlace(Advance(b)) /\ InPlace(Advance(c))
      BY <3>1, RunType, AdvanceInPlace
    <3>3. frames' = Advance(b) \/ frames' = Advance(c)
      BY <2>5 DEF BreakOrContinue
    <3>4. label' \in Names \cup {NoName}
      <4>1. Top.cmd \in DOMAIN prog /\ prog \in Seq(Command)
        BY <2>5 DEF BreakOrContinue, At, Here, TypeAt, Jump, StackInv, TypeOK
      <4>2. prog[Top.cmd] \in Command
        BY <4>1, ElementOfSeq, LenProperties
      <4> QED BY <2>5, <4>2 DEF BreakOrContinue, NameAt, Command
    <3> QED BY <2>5, <3>2, <3>3, <3>4, InPlaceStack, RunType DEF BreakOrContinue
  <2>6. CASE OpenLoopFrame
    <3>1. OpenedBy(Top.cmd, "loop", Top.cmd + 1)
      BY <2>6 DEF OpenLoopFrame, OpenedBy, At, Here
    <3> QED BY <2>6, <3>1, RunType, SettledCmd, EnterStack DEF OpenLoopFrame, Kind
  <2>7. CASE ScanLoopAgain
    <3>1. InPlace([Settled EXCEPT ![Depth].looped = TRUE])
      BY RunType, SettledCmd, SetInPlace
    <3> QED BY <2>7, <3>1, RunType, RestartInPlace, InPlaceStack DEF ScanLoopAgain
  <2>8. CASE LeaveLoop
    BY <2>8, RunType, SettledCmd, LeaveStack DEF LeaveLoop
  <2>9. CASE NextTurn
    <3> DEFINE o  == Top.loopOf
               f0 == [frames EXCEPT ![Depth].nop = 0]
               b  == IF Skipping(Depth) THEN FALSE ELSE f0[o].cnt
               fs == [f0 EXCEPT ![o].cnt = b]
    <3>1. InPlace(f0)
      BY RunType, SettledCmd, SetTopInPlace
    <3>2. f0[o] \in Frame
      BY <3>1, RunType DEF InPlace, Stacks
    <3>3. b \in BOOLEAN
      BY <3>2 DEF Frame
    <3>4. InPlace(fs)
      BY <3>1, <3>3, RunType, SetInPlace
    <3>5. f0[Depth].cmd = Top.cmd
      BY RunType DEF Stacks, Frame
    <3>6. fs[Depth].cmd = Top.cmd
      BY <3>1, <3>2, <3>5, RunType DEF InPlace, Stacks, Frame
    <3>7. CASE frames' = Restart(fs) /\ st' = st
      BY <2>9, <3>4, <3>7, RunType, RestartInPlace, InPlaceStack DEF NextTurn
    <3>8. CASE Leave(fs)
      BY <2>9, <3>4, <3>6, <3>8, RunType, LeaveStack DEF NextTurn
    <3> QED BY <2>9, <3>7, <3>8 DEF NextTurn
  <2>10. CASE EnterBranch
    <3> DEFINE i0 == [Settled EXCEPT ![Depth].ifOf = Depth]
               i1 == [i0 EXCEPT ![Depth].ifDone = FALSE]
               fs == IF Here = "If" THEN i1 ELSE Settled
    <3>1. InPlace(i0)
      BY RunType, SettledCmd, SetTopInPlace
    <3>2. InPlace(i1)
      BY <3>1, RunType, SetInPlace
    <3>3. i1[Depth].cmd = Top.cmd
      <4>1. i0[Depth].cmd = Settled[Depth].cmd
        BY RunType, SettledCmd DEF InPlace, Stacks, Frame
      <4> QED BY <4>1, <3>1, RunType, SettledCmd DEF InPlace, Stacks, Frame
    <3>4. InPlace(fs) /\ fs[Depth].cmd = Top.cmd
      BY <3>2, <3>3, SettledCmd
    <3>5. \E kind \in {"taken", "skipped"}, k \in {-1, 0, 1} : Enter(fs, kind, Top.cmd + 1, k)
      BY <2>10, RunType DEF EnterBranch
    <3>6. \A kind \in {"taken", "skipped"} : OpenedBy(Top.cmd, kind, Top.cmd + 1)
      BY <2>10 DEF EnterBranch, OpenedBy, At, Here
    <3> HIDE DEF fs
    <3> QED BY <2>10, <3>4, <3>5, <3>6, RunType, EnterStack DEF EnterBranch, Kind
  <2>11. CASE IfReturn
    BY <2>11, RunType, SettledCmd, LeaveStack DEF IfReturn
  <2>12. CASE EndIf
    <3> DEFINE fs == [Settled EXCEPT ![Top.ifOf].ifDone = FALSE]
    <3>1. InPlace(fs)
      BY RunType, SettledCmd, SetInPlace
    <3>2. fs[Depth].cmd = Top.cmd
      BY RunType, SettledCmd DEF InPlace, Stacks, Frame
    <3> QED BY <2>12, <3>1, <3>2, RunType, LeaveStack DEF EndIf
  <2>13. CASE SkipFunction
    <3>1. CASE Exit
      BY <3>1, RunType, ExitStack DEF Exit
    <3>2. CASE ~Exit
      <4>1. PICK p \in DOMAIN prog : /\ p > Top.cmd
                                     /\ frames' = [Settled EXCEPT ![Depth].cmd = p + 1]
                                     /\ label' = label /\ st' = st
        BY <2>13, <3>2 DEF SkipFunction
      <4>2. p \in Nat
        BY LenProperties DEF StackInv, TypeOK
      <4>3. Settled[Depth].start = Top.start
        BY RunType, SettledCmd DEF InPlace
      <4>4. InPlace(frames')
        <5>1. p + 1 \in Nat /\ p + 1 >= Settled[Depth].start
          BY <4>1, <4>2, <4>3, RunType
        <5> QED BY <4>1, <5>1, RunType, SettledCmd, SetCmdInPlace
      <4> QED BY <4>1, <4>4, RunType, InPlaceStack
    <3> QED BY <3>1, <3>2
  <2>14. CASE CallFunction
    <3>1. CASE Exit
      BY <3>1, RunType, ExitStack DEF Exit
    <3>2. CASE ~Exit
      <4>1. PICK p \in DOMAIN prog : /\ TypeAt(p) = "StartFunction" /\ NameAt(p) = NameAt(Top.cmd)
                                     /\ Enter(frames, "func", p + 1, 0)
                                     /\ label' = label
        BY <2>14, <3>2 DEF CallFunction
      <4>2. p \in Nat
        BY LenProperties DEF StackInv, TypeOK
      <4>3. OpenedBy(Top.cmd, "func", p + 1)
        <5>1. p + 1 - 1 = p
          BY <4>2
        <5>2. TypeAt(p + 1 - 1) = "StartFunction" /\ NameAt(p + 1 - 1) = NameAt(Top.cmd)
          BY <4>1, <5>1
        <5>3. TypeAt(Top.cmd) = "CallFunction"
          BY <2>14 DEF CallFunction, At, Here
        <5> QED BY <4>2, <5>2, <5>3 DEF OpenedBy
      <4> QED BY <4>1, <4>2, <4>3, RunType, SettledCmd, EnterStack DEF Kind
    <3> QED BY <3>1, <3>2
  <2>15. CASE EndFunction
    BY <2>15, RunType, SettledCmd, LeaveStack DEF EndFunction
  <2>16. CASE Label
    <3> DEFINE g1 == [frames EXCEPT ![Top.loopOf].brk = FALSE]
               g2 == [g1 EXCEPT ![Top.loopOf].cnt = FALSE]
               g3 == [g2 EXCEPT ![Depth].looped = FALSE]
               g4 == [g3 EXCEPT ![Depth].nop = 0]
    <3>1. InPlace(g1)
      BY RunType, SettledCmd, SetInPlace
    <3>2. InPlace(g2)
      BY <3>1, RunType, SetInPlace
    <3>3. InPlace(g3)
      BY <3>2, RunType, SetInPlace
    <3>4. InPlace(g4)
      BY <3>3, RunType, SetTopInPlace
    <3>5. InPlace(Advance(g4))
      BY <3>4, RunType, AdvanceInPlace
    <3>6. frames' = Advance(g4) \/ frames' = Advance(Settled)
      BY <2>16 DEF Label
    <3>7. label' \in Names \cup {NoName} /\ st' = st
      BY <2>16, RunType DEF Label
    <3> QED BY <2>16, <3>5, <3>6, <3>7, RunType, SettledCmd, InPlaceStack
  <2>17. CASE EndOfScript
    <3>1. CASE /\ frames' = Restart([frames EXCEPT ![Depth].looped = TRUE])
               /\ label' = label /\ st' = st
      <4>1. InPlace([frames EXCEPT ![Depth].looped = TRUE])
        BY RunType, SettledCmd, SetInPlace
      <4> QED BY <3>1, <4>1, RunType, RestartInPlace, InPlaceStack
    <3>2. CASE Fail
      BY <3>2, RunType, SettledCmd, InPlaceStack DEF Fail
    <3>3. CASE Exit
      BY <3>3, RunType, ExitStack DEF Exit
    <3> QED BY <2>17, <3>1, <3>2, <3>3 DEF EndOfScript
  <2> QED BY <2>1, <2>2, <2>3, <2>4, <2>5, <2>6, <2>7, <2>8, <2>9, <2>10, <2>11, <2>12,
             <2>13, <2>14, <2>15, <2>16, <2>17 DEF Step, Unwind
<1>3. CASE Unwind /\ prog' = prog
  <2>1. Depth \in Nat /\ Depth >= 1 /\ TypeOK
    BY <1>3, StackType DEF Unwind, StackInv, Live
  <2>2. CASE Depth = 1
    <3>1. frames' \in Seq(Frame) /\ Len(frames') = 0 /\ st' = "done"
      BY <1>3, <2>1, <2>2, CallerType, StackType DEF Unwind
    <3>2. frames' = <<>>
      BY <3>1, EmptySeq
    <3> QED BY <1>3, <2>1, <3>1, <3>2, ExitStack DEF Unwind, TypeOK
  <2>3. CASE Depth # 1
    <3>1. InPlace(frames)
      BY <2>1, UnchangedInPlace DEF StackInv, FramesMatchBlocks, Top
    <3> QED BY <1>3, <2>1, <2>3, <3>1, CallerPopped, PoppedStack DEF Unwind, TypeOK
  <2> QED BY <2>2, <2>3
<1>4. Step /\ ~Unwind => st = "run"
  BY DEF Step, Skip, Execute, CleanExit, ForTo, BreakOrContinue, OpenLoopFrame, ScanLoopAgain,
         LeaveLoop, NextTurn, EnterBranch, IfReturn, EndIf, SkipFunction, CallFunction,
         EndFunction, Label, EndOfScript, At
<1> QED BY <1>1, <1>2, <1>3, <1>4 DEF Next

-----------------------------------------------------------------------------
(* Skips spread up the stack *)

\* Dead, of any stack.
DeadIn(g, i) == g[i].nop = 1 \/ g[g[i].loopOf].brk

\* OneFlag and SkipsSpread of the n frames of a stack g.
Calm(g, n) ==
  /\ \A i \in 1 .. n : /\ ~(g[g[i].loopOf].brk /\ g[g[i].loopOf].cnt)
                       /\ g[i].nop = -1 => ~g[g[i].loopOf].brk
  /\ \A i, j \in 1 .. n : i <= j =>
        /\ DeadIn(g, i) => DeadIn(g, j)
        /\ g[i].loopOf = g[j].loopOf /\ g[i].nop # 0 => g[j].nop # 0

\* Calm is the invariant of BmsInterp, for the stack it has now.
LEMMA CalmFrames == Calm(frames, Depth) <=> OneFlag /\ SkipsSpread
BY DEF Calm, OneFlag, SkipsSpread, DeadIn, Dead

\* No flag is raised, and the top frame stops to skip at a turn of its loop only.
Quieter(g) ==
  /\ \A i \in 1 .. Depth : g[i].brk = frames[i].brk /\ (g[i].cnt => frames[i].cnt)
  /\ g[Depth].nop = 0 => frames[Depth].nop = 0 \/ frames[Depth].kind = "loop"
  /\ g[Depth].nop = -1 => ~frames[frames[Depth].loopOf].brk
  /\ frames[Depth].nop = 1 => g[Depth].nop = 1

\* The pointers to the innermost loop, from StackInv.
LEMMA LoopOfType ==
  ASSUME StackInv, NEW i \in 1 .. Depth
  PROVE  /\ Depth \in Nat /\ frames[i].loopOf \in 1 .. i /\ frames[i].loopOf \in 1 .. Depth
         /\ frames[i].kind = "loop" => frames[i].loopOf = i
         /\ \A j \in frames[i].loopOf .. i : frames[j].loopOf = frames[i].loopOf
<1>1. Depth \in Nat
  BY StackType DEF StackInv
<1> QED BY <1>1 DEF StackInv, LinksOK

\* Calm survives a step that raises no flag.
LEMMA CalmInPlace ==
  ASSUME StackInv, Depth >= 1, Calm(frames, Depth), NEW g, InPlace(g), Quieter(g)
  PROVE  Calm(g, Depth)
<1>0. Depth \in Nat /\ Depth \in 1 .. Depth
  BY StackType DEF StackInv
<1>1. \A i \in 1 .. Depth : g[i].loopOf = frames[i].loopOf /\ frames[i].loopOf \in 1 .. Depth
  BY LoopOfType DEF InPlace
<1>2. \A i \in 1 .. Depth : g[g[i].loopOf].brk = frames[frames[i].loopOf].brk
                           /\ (g[g[i].loopOf].cnt => frames[frames[i].loopOf].cnt)
  BY <1>1 DEF Quieter
<1>3. \A i \in 1 .. Depth : i # Depth => g[i].nop = frames[i].nop
  BY <1>0 DEF InPlace
<1>4. ASSUME NEW i \in 1 .. Depth
      PROVE  /\ ~(g[g[i].loopOf].brk /\ g[g[i].loopOf].cnt)
             /\ g[i].nop = -1 => ~g[g[i].loopOf].brk
  BY <1>2, <1>3 DEF Calm, Quieter
<1>5. ASSUME NEW i \in 1 .. Depth, NEW j \in 1 .. Depth, i <= j
      PROVE  /\ DeadIn(g, i) => DeadIn(g, j)
             /\ g[i].loopOf = g[j].loopOf /\ g[i].nop # 0 => g[j].nop # 0
  <2>1. /\ DeadIn(frames, i) => DeadIn(frames, j)
        /\ frames[i].loopOf = frames[j].loopOf /\ frames[i].nop # 0 => frames[j].nop # 0
    BY <1>5 DEF Calm
  <2>2. CASE i = Depth
    BY <2>2, <1>0, <1>5
  <2>3. CASE i # Depth /\ j # Depth
    BY <2>1, <2>3, <1>1, <1>2, <1>3 DEF DeadIn
  <2>4. CASE i # Depth /\ j = Depth
    <3>1. DeadIn(g, i) = DeadIn(frames, i) /\ (DeadIn(frames, j) => DeadIn(g, j))
      BY <2>4, <1>0, <1>2, <1>3 DEF DeadIn, Quieter
    <3>2. frames[j].kind = "loop" => frames[i].loopOf # frames[j].loopOf
      <4>1. frames[i].loopOf <= i /\ i < Depth
        BY <2>4, <1>0, LoopOfType
      <4>2. frames[j].kind = "loop" => frames[j].loopOf = Depth
        BY <2>4, LoopOfType
      <4> QED BY <4>1, <4>2, <1>0, <1>1
    <3>3. g[j].nop = 0 => frames[j].nop = 0 \/ frames[j].kind = "loop"
      BY <2>4 DEF Quieter
    <3> QED BY <3>1, <3>2, <3>3, <2>1, <2>4, <1>1, <1>3
  <2> QED BY <2>2, <2>3, <2>4
<1> QED BY <1>4, <1>5 DEF Calm

\* Calm survives a return.
LEMMA CalmPopped ==
  ASSUME StackInv, Depth > 1, NEW g, InPlace(g), Calm(g, Depth), NEW h, Popped(g, h)
  PROVE  Calm(h, Depth - 1)
<1>1. Depth \in Nat
  BY StackType DEF StackInv
<1>2. ASSUME NEW i \in 1 .. Depth - 1
      PROVE  /\ i \in 1 .. Depth /\ h[i].nop = g[i].nop /\ h[i].loopOf = g[i].loopOf
             /\ h[h[i].loopOf].brk = g[g[i].loopOf].brk /\ h[h[i].loopOf].cnt = g[g[i].loopOf].cnt
  <2>1. i \in 1 .. Depth
    BY <1>1
  <2>2. g[i].loopOf = frames[i].loopOf /\ frames[i].loopOf \in 1 .. Depth - 1
    BY <2>1, <1>1, LoopOfType DEF InPlace
  <2>3. h[i].nop = g[i].nop
    BY <1>1 DEF InPlace, Popped
  <2> QED BY <2>1, <2>2, <2>3 DEF Popped
<1> QED BY <1>2 DEF Calm, DeadIn

\* Calm survives a recursive call.
LEMMA CalmPush ==
  ASSUME StackInv, Depth >= 1, NEW g, InPlace(g), Calm(g, Depth),
         NEW kind \in Kind, NEW p \in Nat, NEW k \in {-1, 0, 1},
         k = -1 => ~g[frames[Depth].loopOf].brk,
         g[Depth].nop = 1 => k = 1,
         g[Depth].nop # 0 => k # 0
  PROVE  Calm(Append(g, NewFrame(g, kind, p, k)), Depth + 1)
<1> DEFINE f == NewFrame(g, kind, p, k)
           h == Append(g, f)
           o == frames[Depth].loopOf
<1>1. Depth \in Nat /\ Depth \in 1 .. Depth /\ g \in Stacks(Depth)
  BY StackType DEF StackInv, InPlace
<1>2. /\ f \in Frame /\ f.nop = k
      /\ f.loopOf = IF kind = "loop" THEN Depth + 1 ELSE o
      /\ f.brk <=> kind = "loop" /\ g[o].brk
      /\ f.cnt <=> kind = "loop" /\ g[o].cnt
  BY NewFrameType
<1>3. h[Depth + 1] = f /\ \A i \in 1 .. Depth : h[i] = g[i]
  BY <1>1, <1>2, PushType DEF StackInv
<1>4. \A i \in 1 .. Depth : g[i].loopOf \in 1 .. Depth
  BY LoopOfType DEF InPlace
<1>5. o \in 1 .. Depth /\ g[Depth].loopOf = o
  BY <1>1, LoopOfType DEF InPlace
<1>6. (h[f.loopOf].brk <=> g[o].brk) /\ (h[f.loopOf].cnt => g[o].cnt)
  <2>1. CASE kind = "loop"
    BY <2>1, <1>2, <1>3
  <2>2. CASE kind # "loop"
    BY <2>2, <1>2, <1>3, <1>5
  <2> QED BY <2>1, <2>2
<1> HIDE DEF f, h
<1>7. ASSUME NEW i \in 1 .. Depth + 1
      PROVE  /\ ~(h[h[i].loopOf].brk /\ h[h[i].loopOf].cnt)
             /\ h[i].nop = -1 => ~h[h[i].loopOf].brk
  <2>1. CASE i \in 1 .. Depth
    BY <2>1, <1>3, <1>4 DEF Calm
  <2>2. CASE i = Depth + 1
    <3>1. ~(g[o].brk /\ g[o].cnt)
      BY <1>1, <1>5 DEF Calm
    <3> QED BY <2>2, <3>1, <1>2, <1>3, <1>6
  <2> QED BY <2>1, <2>2, <1>1
<1>8. ASSUME NEW i \in 1 .. Depth + 1, NEW j \in 1 .. Depth + 1, i <= j
      PROVE  /\ DeadIn(h, i) => DeadIn(h, j)
             /\ h[i].loopOf = h[j].loopOf /\ h[i].nop # 0 => h[j].nop # 0
  <2>1. CASE j \in 1 .. Depth
    <3>1. i \in 1 .. Depth
      BY <2>1, <1>1, <1>8
    <3> QED BY <2>1, <3>1, <1>3, <1>4, <1>8 DEF Calm, DeadIn
  <2>2. CASE i = Depth + 1
    BY <2>2, <1>1, <1>8
  <2>3. CASE i \in 1 .. Depth /\ j = Depth + 1
    <3>1. /\ DeadIn(g, i) => DeadIn(g, Depth)
          /\ g[i].loopOf = g[Depth].loopOf /\ g[i].nop # 0 => g[Depth].nop # 0
      BY <2>3, <1>1 DEF Calm
    <3>2. DeadIn(h, i) => DeadIn(g, i)
      BY <2>3, <1>3, <1>4 DEF DeadIn
    <3>3. DeadIn(g, Depth) => DeadIn(h, j)
      BY <2>3, <1>2, <1>3, <1>5, <1>6 DEF DeadIn
    <3>4. h[i].loopOf = f.loopOf => g[i].loopOf = o
      BY <2>3, <1>1, <1>2, <1>3, <1>4
    <3> QED BY <2>3, <3>1, <3>2, <3>3, <3>4, <1>2, <1>3, <1>5
  <2> QED BY <2>1, <2>2, <2>3, <1>1
<1>9. Calm(h, Depth + 1)
  BY <1>7, <1>8 DEF Calm
<1> QED BY <1>9 DEF h, f

\* One flag is raised by a frame that does not skip.
\* Calm survives Break and Continue.
LEMMA CalmRaised ==
  ASSUME StackInv, Depth >= 1, Calm(frames, Depth), label = NoName, ~Skipping(Depth),
         NEW g, InPlace(g),
         \A i \in 1 .. Depth : /\ g[i].nop = frames[i].nop
                               /\ i # frames[Depth].loopOf => g[i].brk = frames[i].brk /\ g[i].cnt = frames[i].cnt,
         LET o == frames[Depth].loopOf
         IN  ~(g[o].brk /\ g[o].cnt) /\ (frames[o].brk => g[o].brk)
  PROVE  Calm(g, Depth)
<1> DEFINE o == frames[Depth].loopOf
<1>1. Depth \in Nat /\ Depth \in 1 .. Depth /\ frames \in Stacks(Depth)
  BY StackType DEF StackInv
<1>2. o \in 1 .. Depth /\ \A j \in o .. Depth : frames[j].loopOf = o
  BY <1>1, LoopOfType
<1>3. frames[Depth].nop = 0 /\ ~frames[o].brk /\ ~frames[o].cnt
  <2>1. frames[Depth] \in Frame /\ frames[o] \in Frame
    BY <1>1, <1>2 DEF Stacks
  <2> QED BY <2>1 DEF Skipping, Nop, Frame
<1>4. \A i \in 1 .. Depth : g[i].loopOf = frames[i].loopOf /\ frames[i].loopOf \in 1 .. i
  BY LoopOfType DEF InPlace
<1>5. \A i \in 1 .. Depth : frames[i].loopOf = o => frames[i].nop = 0
  BY <1>1, <1>3 DEF Calm
<1>6. \A i \in 1 .. Depth : ~DeadIn(frames, i)
  BY <1>1, <1>3 DEF Calm, DeadIn
<1>7. ASSUME NEW i \in 1 .. Depth
      PROVE  /\ ~(g[g[i].loopOf].brk /\ g[g[i].loopOf].cnt)
             /\ g[i].nop = -1 => ~g[g[i].loopOf].brk
  <2>0. frames[i].loopOf \in 1 .. Depth
    BY <1>1, <1>4
  <2>1. CASE frames[i].loopOf = o
    BY <2>1, <1>4, <1>5
  <2>2. CASE frames[i].loopOf # o
    BY <2>0, <2>2, <1>4 DEF Calm
  <2> QED BY <2>1, <2>2
<1>8. ASSUME NEW i \in 1 .. Depth, NEW j \in 1 .. Depth, i <= j
      PROVE  /\ DeadIn(g, i) => DeadIn(g, j)
             /\ g[i].loopOf = g[j].loopOf /\ g[i].nop # 0 => g[j].nop # 0
  <2>1. DeadIn(g, i) => frames[i].loopOf = o
    <3>1. frames[i].loopOf \in 1 .. Depth
      BY <1>1, <1>4
    <3> QED BY <3>1, <1>4, <1>6 DEF DeadIn
  <2>2. frames[i].loopOf = o => frames[j].loopOf = o
    BY <1>1, <1>2, <1>4, <1>8
  <2>3. frames[i].loopOf = o /\ DeadIn(g, i) => DeadIn(g, j)
    BY <2>2, <1>4, <1>5 DEF DeadIn
  <2>4. frames[i].loopOf = frames[j].loopOf /\ frames[i].nop # 0 => frames[j].nop # 0
    BY <1>8 DEF Calm
  <2> QED BY <2>1, <2>3, <2>4, <1>4
<1> QED BY <1>7, <1>8 DEF Calm

\* The same values of nop, this_break and this_continue.
SameFlags(g, h) ==
  \A i \in 1 .. Depth : h[i].nop = g[i].nop /\ h[i].brk = g[i].brk /\ h[i].cnt = g[i].cnt

\* Calm only depends on the flags.
LEMMA CalmSame ==
  ASSUME StackInv, NEW g, NEW h, InPlace(g), InPlace(h), SameFlags(g, h), Calm(g, Depth)
  PROVE  Calm(h, Depth)
<1>1. \A i \in 1 .. Depth : /\ g[i].loopOf \in 1 .. Depth /\ h[i].loopOf = g[i].loopOf
                            /\ h[i].nop = g[i].nop
                            /\ h[h[i].loopOf].brk = g[g[i].loopOf].brk
                            /\ h[h[i].loopOf].cnt = g[g[i].loopOf].cnt
  BY LoopOfType DEF InPlace, SameFlags
<1> QED BY <1>1 DEF Calm, DeadIn

\* Fields that are not flags.
LEMMA SameFlagsSet ==
  ASSUME NEW g \in Stacks(Depth), NEW o \in 1 .. Depth, NEW v
  PROVE  /\ SameFlags(g, [g EXCEPT ![o].cmd = v])
         /\ SameFlags(g, [g EXCEPT ![o].ifOf = v])
         /\ SameFlags(g, [g EXCEPT ![o].ifDone = v])
         /\ SameFlags(g, [g EXCEPT ![o].looped = v])
BY DEF SameFlags, Stacks, Frame

\* Setting this_continue of one frame leaves the rest alone.
LEMMA CntField ==
  ASSUME NEW g \in Stacks(Depth), NEW o \in 1 .. Depth, NEW v
  PROVE  LET h == [g EXCEPT ![o].cnt = v]
         IN  /\ h[o].cnt = v
             /\ \A i \in 1 .. Depth : /\ h[i].nop = g[i].nop /\ h[i].brk = g[i].brk
                                      /\ h[i].cmd = g[i].cmd
                                      /\ i # o => h[i].cnt = g[i].cnt
BY DEF Stacks, Frame

\* Every step of the interpreter preserves SkipInv.
LEMMA SkipStep ==
  ASSUME StackInv, SkipInv, Next
  PROVE  SkipInv'
<1> SUFFICES ASSUME PlainJumps, prog' = prog
             PROVE  label' = NoName /\ Calm(frames, Depth)'
  <2>1. prog' = prog
    BY DEF Next, Terminated, vars
  <2>2. PlainJumps' => PlainJumps
    BY <2>1 DEF PlainJumps, TypeAt, NameAt
  <2>3. Calm(frames, Depth)' <=> OneFlag' /\ SkipsSpread'
    BY DEF Calm, OneFlag, SkipsSpread, DeadIn, Dead
  <2> QED BY <2>1, <2>2, <2>3 DEF SkipInv
<1>0. label = NoName /\ Calm(frames, Depth)
  BY CalmFrames DEF SkipInv
<1>1. CASE Terminated
  BY <1>0, <1>1 DEF Terminated, vars, Calm, DeadIn, Depth
<1>2. CASE frames' = <<>> /\ label' = label
  <2>1. Depth' = 0
    BY <1>2, EmptySeq DEF Depth
  <2> QED BY <1>0, <1>2, <2>1 DEF Calm
\* The three ways a stack changes.
<1>3. ASSUME InPlace(frames'), Calm(frames', Depth)
      PROVE  Calm(frames, Depth)'
  <2>1. Depth' = Depth
    BY <1>3, StackType, StackIsSeq DEF InPlace, StackInv, Depth
  <2> QED BY <1>3, <2>1 DEF Calm, DeadIn
<1>4. ASSUME st = "run", NEW g, InPlace(g), Calm(g, Depth), NEW kind \in Kind, NEW p \in Nat,
             NEW k \in {-1, 0, 1}, Enter(g, kind, p, k),
             k = -1 => ~g[frames[Depth].loopOf].brk, g[Depth].nop = 1 => k = 1, g[Depth].nop # 0 => k # 0,
             label' = label
      PROVE  Calm(frames, Depth)'
  <2>1. CASE Depth = MaxDepth
    BY <1>2, <1>4, <2>1 DEF Enter
  <2>2. CASE Depth # MaxDepth
    <3> DEFINE f == NewFrame(g, kind, p, k)
    <3>1. Depth \in Nat /\ Depth >= 1 /\ TypeOK
      BY <1>4, StackType DEF StackInv, Live
    <3>2. frames' = Append(g, f) /\ f \in Frame
      BY <1>4, <2>2, <3>1, NewFrameType DEF Enter
    <3>3. Depth' = Depth + 1
      BY <1>4, <3>1, <3>2, PushType DEF Depth, InPlace
    <3>4. Calm(frames', Depth + 1)
      BY <1>4, <3>1, <3>2, CalmPush
    <3> QED BY <3>3, <3>4 DEF Calm, DeadIn
  <2> QED BY <2>1, <2>2
<1>5. ASSUME st = "run", NEW g, InPlace(g), Calm(g, Depth), g[Depth].cmd = Top.cmd, Leave(g), label' = label
      PROVE  Calm(frames, Depth)'
  <2>1. Depth \in Nat /\ Depth >= 1 /\ TypeOK
    BY <1>5, RunType
  <2>2. CASE Depth = 1
    BY <1>2, <1>5, <2>2 DEF Leave
  <2>3. CASE Depth # 1
    <3>1. Popped(g, frames') /\ Calm(frames', Depth - 1)
      BY <1>5, <2>1, <2>3, LeavePopped, CalmPopped
    <3>2. Depth' = Depth - 1
      BY <2>1, <2>3, <3>1, StackIsSeq DEF Popped, Depth
    <3> QED BY <3>1, <3>2 DEF Calm, DeadIn
  <2> QED BY <2>2, <2>3
\* The flags of the stack as each step finds it.
<1>6. ASSUME st = "run"
      PROVE  /\ InPlace(Settled) /\ Calm(Settled, Depth) /\ Settled[Depth].cmd = Top.cmd
             /\ Settled[Depth].nop = Nop(Depth)
             /\ \A i \in 1 .. Depth : Settled[i].brk = frames[i].brk
             /\ Nop(Depth) = -1 => ~frames[frames[Depth].loopOf].brk
             /\ frames[Depth].nop = 1 => Nop(Depth) = 1
             /\ frames[Depth].nop # 0 => Nop(Depth) # 0
  <2>1. InPlace(Settled) /\ Settled[Depth].cmd = Top.cmd
    BY <1>6, SettledCmd
  <2>2. \A i \in 1 .. Depth : Settled[i] = IF i = Depth THEN [Top EXCEPT !.nop = Nop(Depth)] ELSE frames[i]
    BY <1>6, RunType DEF Settled, Stacks, Top
  <2>3. /\ Settled[Depth].nop = Nop(Depth)
        /\ \A i \in 1 .. Depth : Settled[i].brk = frames[i].brk /\ Settled[i].cnt = frames[i].cnt
    BY <1>6, <2>2, RunType DEF Frame
  <2>4. Nop(Depth) = -1 => ~frames[frames[Depth].loopOf].brk
    BY <1>0, <1>6, RunType DEF Nop, Calm
  <2>5. frames[Depth].nop # 0 => Nop(Depth) = frames[Depth].nop
    BY DEF Nop
  <2>6. Quieter(Settled)
    BY <2>3, <2>4, <2>5 DEF Quieter
  <2>7. Calm(Settled, Depth)
    BY <1>0, <1>6, <2>1, <2>6, RunType, CalmInPlace
  <2> QED BY <2>1, <2>3, <2>4, <2>5, <2>7
<1>7. ASSUME st = "run", NEW g, InPlace(g), Calm(g, Depth)
      PROVE  Calm(Advance(g), Depth) /\ Calm(Restart(g), Depth)
  <2>1. InPlace(Advance(g)) /\ InPlace(Restart(g))
    BY <1>7, RunType, AdvanceInPlace, RestartInPlace
  <2>2. SameFlags(g, Advance(g)) /\ SameFlags(g, Restart(g))
    BY <1>7, RunType, SameFlagsSet DEF Advance, Restart, InPlace
  <2> QED BY <1>7, <2>1, <2>2, CalmSame
<1>8. CASE st = "run" /\ Step
  <2> USE <1>8
  <2>1. CASE Skip
    BY <2>1, <1>0, <1>3, <1>6, <1>7, RunType, SettledCmd DEF Skip
  <2>2. CASE Execute
    <3>1. CASE frames' = Advance(frames) /\ label' = label
      BY <3>1, <1>0, <1>3, <1>7, RunType, SettledCmd, AdvanceInPlace
    <3>2. CASE Fail
      BY <3>2, <1>0, <1>3, SettledCmd DEF Fail
    <3> QED BY <2>2, <3>1, <3>2 DEF Execute
  <2>3. CASE CleanExit
    BY <2>3, <1>0, <1>3, SettledCmd DEF CleanExit, Fail
  <2>4. CASE ForTo
    <3>1. PICK k \in {0, 1} : frames' = Advance([frames EXCEPT ![Depth].nop = k]) /\ label' = label
      BY <2>4 DEF ForTo
    <3> DEFINE g == [frames EXCEPT ![Depth].nop = k]
    <3>2. InPlace(g)
      BY RunType, SettledCmd, SetTopInPlace
    <3>3. frames[Depth].nop = 0
      BY <2>4 DEF ForTo, Skipping, Nop
    <3>4. \A i \in 1 .. Depth : g[i] = IF i = Depth THEN [frames[i] EXCEPT !.nop = k] ELSE frames[i]
      BY RunType DEF Stacks
    <3>5. g[Depth].nop = k /\ \A i \in 1 .. Depth : g[i].brk = frames[i].brk /\ g[i].cnt = frames[i].cnt
      BY <3>4, RunType DEF Frame, Stacks
    <3>6. Quieter(g)
      BY <3>3, <3>5 DEF Quieter
    <3>7. Calm(g, Depth)
      BY <1>0, <3>2, <3>6, RunType, CalmInPlace
    <3> QED BY <1>0, <1>3, <1>7, <3>1, <3>2, <3>7, RunType, AdvanceInPlace
  <2>5. CASE BreakOrContinue
    <3> DEFINE o == Top.loopOf
               b == [frames EXCEPT ![o].brk = TRUE]
               c == [frames EXCEPT ![o].cnt = TRUE]
    <3>1. InPlace(b) /\ InPlace(c)
      BY RunType, SettledCmd, SetInPlace
    <3>2. frames' = Advance(b) \/ frames' = Advance(c)
      BY <2>5 DEF BreakOrContinue
    <3>3. label' = NoName
      <4>1. Top.cmd \in DOMAIN prog
        BY <2>5 DEF BreakOrContinue, At, Here, TypeAt, Jump
      <4> QED BY <2>5, <4>1 DEF BreakOrContinue, At, Here, PlainJumps
    <3>4. o \in 1 .. Depth /\ o = frames[Depth].loopOf /\ frames[o] \in Frame
      BY RunType DEF Stacks
    <3>5. ~Skipping(Depth) /\ ~frames[o].brk /\ ~frames[o].cnt
      BY <2>5, <3>4 DEF BreakOrContinue, Skipping, Nop, Frame
    <3>6. Calm(b, Depth)
      <4>1. \A i \in 1 .. Depth : b[i] = IF i = o THEN [frames[i] EXCEPT !.brk = TRUE] ELSE frames[i]
        BY RunType DEF Stacks
      <4>2. \A i \in 1 .. Depth : b[i].nop = frames[i].nop /\ b[i].cnt = frames[i].cnt
        BY <4>1, RunType DEF Frame, Stacks
      <4>3. b[o].brk /\ ~b[o].cnt
        BY <3>4, <3>5, <4>1, <4>2 DEF Frame
      <4> QED BY <1>0, <3>1, <3>4, <3>5, <4>1, <4>2, <4>3, RunType, CalmRaised
    <3>7. Calm(c, Depth)
      <4>1. \A i \in 1 .. Depth : c[i] = IF i = o THEN [frames[i] EXCEPT !.cnt = TRUE] ELSE frames[i]
        BY RunType DEF Stacks
      <4>2. \A i \in 1 .. Depth : c[i].nop = frames[i].nop /\ c[i].brk = frames[i].brk
        BY <4>1, RunType DEF Frame, Stacks
      <4> QED BY <1>0, <3>1, <3>4, <3>5, <4>1, <4>2, RunType, CalmRaised
    <3>8. InPlace(Advance(b)) /\ Calm(Advance(b), Depth) /\ InPlace(Advance(c)) /\ Calm(Advance(c), Depth)
      BY <1>7, <3>1, <3>6, <3>7, RunType, AdvanceInPlace
    <3> QED BY <1>3, <3>2, <3>3, <3>8
  <2>6. CASE OpenLoopFrame
    BY <2>6, <1>0, <1>4, <1>6, RunType DEF OpenLoopFrame, Kind
  <2>7. CASE ScanLoopAgain
    BY <2>7, <1>0 DEF ScanLoopAgain
  <2>8. CASE LeaveLoop
    BY <2>8, <1>0, <1>5, <1>6 DEF LeaveLoop
  <2>9. CASE NextTurn
    <3> DEFINE o  == Top.loopOf
               f0 == [frames EXCEPT ![Depth].nop = 0]
               b  == IF Skipping(Depth) THEN FALSE ELSE f0[o].cnt
               fs == [f0 EXCEPT ![o].cnt = b]
    <3>1. InPlace(f0)
      BY RunType, SettledCmd, SetTopInPlace
    <3>2. f0[o] \in Frame /\ o \in 1 .. Depth /\ b \in BOOLEAN
      <4>1. f0[o] \in Frame /\ o \in 1 .. Depth
        BY <3>1, RunType DEF InPlace, Stacks
      <4> QED BY <4>1 DEF Frame
    <3>3. InPlace(fs)
      BY <3>1, <3>2, RunType, SetInPlace
    <3>4. \A i \in 1 .. Depth : f0[i] = IF i = Depth THEN [frames[i] EXCEPT !.nop = 0] ELSE frames[i]
      BY RunType DEF Stacks
    <3>5. \A i \in 1 .. Depth : /\ f0[i] \in Frame /\ f0[i].cmd = frames[i].cmd
                                /\ f0[i].brk = frames[i].brk /\ f0[i].cnt = frames[i].cnt
      BY <3>1, <3>4, RunType DEF Frame, Stacks, InPlace
    <3>6. f0 \in Stacks(Depth)
      BY <3>1 DEF InPlace
    <3>7. \A i \in 1 .. Depth : /\ fs[i].brk = f0[i].brk /\ fs[i].nop = f0[i].nop /\ fs[i].cmd = f0[i].cmd
                                /\ i # o => fs[i].cnt = f0[i].cnt
      <4> HIDE DEF b, f0
      <4> QED BY <3>2, <3>6, CntField
    <3>8. fs[o].cnt = b
      <4> HIDE DEF b, f0
      <4> QED BY <3>2, <3>6, CntField
    <3>9. \A i \in 1 .. Depth : fs[i].cnt => frames[i].cnt
      BY <3>2, <3>5, <3>7, <3>8
    <3>10. fs[Depth].nop = 0 /\ fs[Depth].cmd = Top.cmd
      <4>1. f0[Depth].nop = 0 /\ f0[Depth].cmd = Top.cmd
        BY <3>4, <3>5, RunType DEF Frame
      <4> HIDE DEF fs, f0
      <4> QED BY <4>1, <3>7, RunType
    <3>11. frames[Depth].nop = 0 \/ (frames[Depth].nop = -1 /\ frames[Depth].kind = "loop")
      BY <2>9, RunType DEF NextTurn, Skipping, Nop
    <3>12. Quieter(fs)
      <4> HIDE DEF fs, f0
      <4> QED BY <3>5, <3>7, <3>9, <3>10, <3>11 DEF Quieter
    <3>13. Calm(fs, Depth)
      BY <1>0, <3>3, <3>12, RunType, CalmInPlace
    <3> HIDE DEF fs
    <3>14. CASE frames' = Restart(fs) /\ label' = label
      BY <1>0, <1>3, <1>7, <3>3, <3>13, <3>14, RestartInPlace
    <3>15. CASE Leave(fs) /\ label' = label
      BY <1>0, <1>5, <3>3, <3>10, <3>13, <3>15
    <3> QED BY <2>9, <3>14, <3>15 DEF NextTurn, fs
  <2>10. CASE EnterBranch
    <3> DEFINE i0 == [Settled EXCEPT ![Depth].ifOf = Depth]
               i1 == [i0 EXCEPT ![Depth].ifDone = FALSE]
               fs == IF Here = "If" THEN i1 ELSE Settled
    <3>1. InPlace(i0) /\ InPlace(i1)
      BY RunType, SettledCmd, SetTopInPlace, SetInPlace
    <3>2. SameFlags(Settled, i0) /\ SameFlags(i0, i1)
      BY <3>1, RunType, SettledCmd, SameFlagsSet DEF InPlace
    <3>3. SameFlags(Settled, fs) /\ InPlace(fs)
      BY <3>1, <3>2, SettledCmd DEF SameFlags
    <3>4. Calm(fs, Depth)
      BY <1>6, <3>3, CalmSame
    <3>5. /\ fs[Depth].nop = Nop(Depth)
          /\ \A i \in 1 .. Depth : fs[i].brk = frames[i].brk
      BY <1>6, <3>3, RunType DEF SameFlags
    <3>6. PICK kind \in {"taken", "skipped"}, k \in {1, Nop(Depth)} : Enter(fs, kind, Top.cmd + 1, k)
      BY <2>10 DEF EnterBranch
    <3>7. label' = label
      BY <2>10 DEF EnterBranch
    <3> HIDE DEF fs
    <3>8. k \in {-1, 0, 1} /\ kind \in Kind /\ Top.cmd + 1 \in Nat
      BY RunType DEF Kind
    <3>9. k = -1 => ~fs[frames[Depth].loopOf].brk
      BY <1>6, <3>5, RunType
    <3>10. (fs[Depth].nop = 1 => k = 1) /\ (fs[Depth].nop # 0 => k # 0)
      BY <3>5
    <3> QED BY <1>0, <1>4, <3>3, <3>4, <3>6, <3>7, <3>8, <3>9, <3>10
  <2>11. CASE IfReturn
    BY <2>11, <1>0, <1>5, <1>6 DEF IfReturn
  <2>12. CASE EndIf
    <3> DEFINE fs == [Settled EXCEPT ![Top.ifOf].ifDone = FALSE]
    <3>1. InPlace(fs) /\ fs[Depth].cmd = Top.cmd
      <4>1. InPlace(fs)
        BY RunType, SettledCmd, SetInPlace
      <4>2. fs[Depth].cmd = Top.cmd
        BY RunType, SettledCmd DEF InPlace, Stacks, Frame
      <4> QED BY <4>1, <4>2
    <3>2. SameFlags(Settled, fs)
      BY RunType, SettledCmd, SameFlagsSet DEF InPlace
    <3>3. Calm(fs, Depth)
      BY <1>6, <3>1, <3>2, CalmSame
    <3> QED BY <2>12, <1>0, <1>5, <3>1, <3>3 DEF EndIf
  <2>13. CASE SkipFunction
    <3>1. CASE Exit
      BY <1>0, <1>2, <3>1 DEF Exit
    <3>2. CASE ~Exit
      <4>1. PICK p \in DOMAIN prog : /\ p > Top.cmd
                                     /\ frames' = [Settled EXCEPT ![Depth].cmd = p + 1]
                                     /\ label' = label
        BY <2>13, <3>2 DEF SkipFunction
      <4>2. p \in Nat
        BY LenProperties DEF StackInv, TypeOK
      <4>3. Settled[Depth].start = Top.start
        BY RunType, SettledCmd DEF InPlace
      <4>4. p + 1 \in Nat /\ p + 1 >= Settled[Depth].start
        BY <4>1, <4>2, <4>3, RunType
      <4>5. InPlace(frames')
        BY <4>1, <4>4, RunType, SettledCmd, SetCmdInPlace
      <4>6. SameFlags(Settled, frames')
        BY <4>1, RunType, SettledCmd, SameFlagsSet DEF InPlace
      <4>7. Calm(frames', Depth)
        BY <1>6, <4>5, <4>6, CalmSame
      <4> QED BY <1>0, <1>3, <4>1, <4>5, <4>7
    <3> QED BY <3>1, <3>2
  <2>14. CASE CallFunction
    <3>1. CASE Exit
      BY <1>0, <1>2, <3>1 DEF Exit
    <3>2. CASE ~Exit
      <4>1. PICK p \in DOMAIN prog : Enter(frames, "func", p + 1, 0) /\ label' = label
        BY <2>14, <3>2 DEF CallFunction
      <4>2. p + 1 \in Nat
        BY LenProperties DEF StackInv, TypeOK
      <4>3. frames[Depth].nop = 0
        BY <2>14, RunType DEF CallFunction, Skipping, Nop
      <4> QED BY <1>0, <1>4, <4>1, <4>2, <4>3, RunType, SettledCmd DEF Kind
    <3> QED BY <3>1, <3>2
  <2>15. CASE EndFunction
    BY <2>15, <1>0, <1>5, <1>6 DEF EndFunction
  <2>16. CASE Label
    BY <2>16, <1>0, <1>3, <1>6, <1>7, RunType, SettledCmd DEF Label
  <2>17. CASE EndOfScript
    BY <2>17, <1>0, <1>3, SettledCmd DEF EndOfScript, Fail
  <2> QED BY <2>1, <2>2, <2>3, <2>4, <2>5, <2>6, <2>7, <2>8, <2>9, <2>10, <2>11, <2>12,
             <2>13, <2>14, <2>15, <2>16, <2>17 DEF Step, Unwind
<1>9. CASE Unwind
  <2>1. Depth \in Nat /\ Depth >= 1 /\ TypeOK /\ frames \in Stacks(Depth)
    BY <1>9, StackType DEF Unwind, StackInv, Live
  <2>2. frames' = Caller(frames) /\ label' = label /\ Depth' = Depth - 1
    BY <1>9, <2>1, CallerType DEF Unwind, Depth
  <2>3. CASE Depth = 1
    BY <1>0, <2>2, <2>3 DEF Calm
  <2>4. CASE Depth # 1
    <3>1. InPlace(frames)
      BY <2>1, UnchangedInPlace DEF StackInv, FramesMatchBlocks, Top
    <3>2. Popped(frames, frames')
      BY <2>1, <2>2, <2>4, <3>1, CallerPopped
    <3>3. Calm(frames', Depth - 1)
      BY <1>0, <2>1, <2>4, <3>1, <3>2, CalmPopped
    <3> QED BY <1>0, <2>2, <3>3 DEF Calm, DeadIn
  <2> QED BY <2>3, <2>4
<1>10. Step /\ ~Unwind => st = "run"
  BY DEF Step, Skip, Execute, CleanExit, ForTo, BreakOrContinue, OpenLoopFrame, ScanLoopAgain,
         LeaveLoop, NextTurn, EnterBranch, IfReturn, EndIf, SkipFunction, CallFunction,
         EndFunction, Label, EndOfScript, At
<1> QED BY <1>1, <1>8, <1>9, <1>10 DEF Next

-----------------------------------------------------------------------------
(* The theorems *)

\* The invariants hold when the script starts.
LEMMA InitInv ==
  ASSUME Init
  PROVE  StackInv /\ SkipInv
<1> DEFINE f == frames[1]
<1>1. Depth = 1 /\ frames \in Seq(Frame) /\ f \in Frame
  BY DEF Init, Depth, Frame, Kind
<1>2. /\ f.kind = "top" /\ f.start = 1 /\ f.cmd = 1 /\ f.nop = 0
      /\ f.brk = FALSE /\ f.cnt = FALSE /\ f.ifOf = 1 /\ f.loopOf = 1
  BY DEF Init
<1>3. TypeOK
  BY <1>1, ProgramsAssumption DEF Init, TypeOK
<1>4. Live /\ LinksOK /\ FramesMatchBlocks
  BY <1>1, <1>2 DEF Live, LinksOK, FramesMatchBlocks, Init
<1>5. OneFlag /\ SkipsSpread
  BY <1>1, <1>2 DEF OneFlag, SkipsSpread, Dead
<1> QED BY <1>3, <1>4, <1>5 DEF StackInv, SkipInv, Init

\* The invariants are inductive.
LEMMA StepInv ==
  ASSUME StackInv, SkipInv, [Next]_vars
  PROVE  StackInv' /\ SkipInv'
<1>1. CASE Next
  BY <1>1, StackStep, SkipStep
<1>2. CASE UNCHANGED vars
  BY <1>2 DEF vars, StackInv, TypeOK, Live, LinksOK, FramesMatchBlocks, SkipInv, PlainJumps,
              OneFlag, SkipsSpread, Dead, Depth, OpenedBy, TypeAt, NameAt
<1> QED BY <1>1, <1>2

\* The invariants hold throughout every run of every script.
THEOREM Invariance == Spec => [](StackInv /\ SkipInv)
<1>1. Init => StackInv /\ SkipInv
  BY InitInv
<1>2. (StackInv /\ SkipInv) /\ [Next]_vars => (StackInv /\ SkipInv)'
  BY StepInv
<1> QED BY <1>1, <1>2, PTL DEF Spec

\* The locals of every activation of start_bms() keep their types: nop has no fourth
\* value, and what is on the stack are activations of the five kinds.
THEOREM TypeCorrect == Spec => []TypeOK
<1>1. StackInv /\ SkipInv => TypeOK
  BY DEF StackInv
<1> QED BY <1>1, Invariance, PTL

\* The activations of start_bms() mirror the blocks of the script they were
\* opened by, and no activation returns in front of its first command.
THEOREM StackMirrorsBlocks == Spec => []FramesMatchBlocks
<1>1. StackInv /\ SkipInv => FramesMatchBlocks
  BY DEF StackInv
<1> QED BY <1>1, Invariance, PTL

\* The flags of Break, Continue and If that an activation writes through its
\* pointers are those of its own innermost loop and of a frame that still lives,
\* for every script and however deep functions and blocks nest.
THEOREM PointersStayInside == Spec => []LinksOK
<1>1. StackInv /\ SkipInv => LinksOK
  BY DEF StackInv
<1> QED BY <1>1, Invariance, PTL

\* In a script without gotos no command of a block is executed once its loop
\* was broken or its condition was false, however deep the skipping nests.
THEOREM DeadBlocksStayDeadAlways == Spec => []DeadBlocksStayDead
<1>1. StackInv /\ SkipInv => DeadBlocksStayDead
  <2> SUFFICES ASSUME StackInv, SkipInv, PlainJumps, NEW i \in DOMAIN frames, Dead(i)
               PROVE  Nop(Depth) # 0
    BY DEF DeadBlocksStayDead
  <2>1. Depth \in Nat /\ frames \in Stacks(Depth)
    BY StackType DEF StackInv
  <2>2. i \in 1 .. Depth /\ Depth \in 1 .. Depth /\ i <= Depth
    BY <2>1 DEF Stacks
  <2>3. Dead(Depth)
    BY <2>2 DEF SkipInv, SkipsSpread
  <2>4. CASE frames[Depth].nop = 1
    BY <2>4 DEF Nop
  <2>5. CASE frames[frames[Depth].loopOf].brk
    BY <2>5 DEF Nop
  <2> QED BY <2>3, <2>4, <2>5 DEF Dead
<1> QED BY <1>1, Invariance, PTL

-----------------------------------------------------------------------------
(* Scripts whose blocks nest *)

\* What Nested says, position by position.
LEMMA NestedFacts ==
  ASSUME NEW p \in Seq(Command), NEW c, Nested(p, c)
  PROVE  /\ DOMAIN p = 1 .. Len(p) /\ Len(p) \in Nat /\ Openers(p) \subseteq DOMAIN p
         /\ \A o \in Openers(p) : /\ o \in Nat /\ c[o] \in DOMAIN p /\ c[o] \in Nat /\ o < c[o]
                                  /\ c[o] \notin Openers(p)
                                  /\ p[c[o]].type \in Ends
         /\ \A o, q \in Openers(p) : o < q /\ q <= c[o] => c[q] < c[o]
<1>1. DOMAIN p = 1 .. Len(p) /\ Len(p) \in Nat
  BY LenProperties
<1>2. Openers(p) \subseteq DOMAIN p
  BY DEF Openers
<1>3. ASSUME NEW o \in Openers(p)
      PROVE  c[o] \in DOMAIN p /\ o < c[o] /\ p[c[o]].type \in Ends
  BY <1>3 DEF Nested, EndOf, Ends
<1>4. ASSUME NEW o \in Openers(p) PROVE c[o] \notin Openers(p)
  BY <1>3, <1>4 DEF Openers, Ends, CloseLoop, OpenLoop, Branch
<1>5. \A o, q \in Openers(p) : o < q /\ q <= c[o] => c[q] < c[o]
  BY DEF Nested
<1> QED BY <1>1, <1>2, <1>3, <1>4, <1>5

\* A command that neither opens nor closes a block stays in its blocks.
LEMMA StaysInBlocks ==
  ASSUME NEW p \in Seq(Command), NEW c, Nested(p, c), NEW i \in Nat, i \notin Openers(p),
         i \in DOMAIN p => p[i].type \notin Ends
  PROVE  Enclosing(p, c, i + 1) = Enclosing(p, c, i)
<1>1. ASSUME NEW o \in Openers(p) PROVE o < i + 1 /\ i + 1 <= c[o] <=> o < i /\ i <= c[o]
  <2>1. o # i /\ o \in Nat /\ c[o] \in Nat /\ c[o] # i
    BY <1>1, NestedFacts
  <2> QED BY <2>1
<1> QED BY <1>1 DEF Enclosing

\* Behind the command that opens a block, one is in that block, too.
LEMMA OpensBlock ==
  ASSUME NEW p \in Seq(Command), NEW c, Nested(p, c), NEW i \in Openers(p)
  PROVE  Enclosing(p, c, i + 1) = Enclosing(p, c, i) \cup {i}
<1>1. ASSUME NEW o \in Openers(p) PROVE o < i + 1 /\ i + 1 <= c[o] <=> (o < i /\ i <= c[o]) \/ o = i
  <2>1. o \in Nat /\ c[o] \in Nat /\ i \in Nat /\ c[i] \in Nat /\ i < c[i] /\ c[o] # i
    BY <1>1, NestedFacts
  <2> QED BY <2>1
<1> QED BY <1>1 DEF Enclosing

\* Behind the end of a block, one is where it was opened.
LEMMA ClosesBlock ==
  ASSUME NEW p \in Seq(Command), NEW c, Nested(p, c), NEW o \in Openers(p)
  PROVE  Enclosing(p, c, c[o] + 1) = Enclosing(p, c, o)
<1>1. ASSUME NEW q \in Openers(p) PROVE q < c[o] + 1 /\ c[o] + 1 <= c[q] <=> q < o /\ o <= c[q]
  <2>1. /\ o \in Nat /\ c[o] \in Nat /\ q \in Nat /\ c[q] \in Nat /\ o < c[o] /\ q < c[q] /\ c[o] # q
        /\ (o < q /\ q <= c[o] => c[q] < c[o]) /\ (q < o /\ o <= c[q] => c[o] < c[q])
    BY <1>1, NestedFacts
  <2> QED BY <2>1
<1> QED BY <1>1 DEF Enclosing

\* What ends at i is the innermost block there.
LEMMA InnermostEnds ==
  ASSUME NEW p \in Seq(Command), NEW c, Nested(p, c), NEW i \in DOMAIN p,
         p[i].type \in Ends,
         NEW o \in Enclosing(p, c, i), Enclosing(p, c, i) \subseteq Enclosing(p, c, o) \cup {o}
  PROVE  c[o] = i
<1>1. PICK q \in Openers(p) : c[q] = i
  BY DEF Nested
<1>2. q \in Enclosing(p, c, i)
  BY <1>1, NestedFacts DEF Enclosing
<1>3. CASE q = o
  BY <1>1, <1>3
<1>4. CASE q # o
  <2>1. q \in Enclosing(p, c, o)
    BY <1>2, <1>4
  <2>2. q < o /\ o <= c[q] /\ o \in Openers(p) /\ i <= c[o]
    BY <2>1 DEF Enclosing
  <2>3. c[o] < c[q] /\ c[o] \in Nat /\ i \in Nat
    BY <2>2, NestedFacts
  <2> QED BY <1>1, <2>2, <2>3
<1> QED BY <1>3, <1>4

\* Functions are on the outermost level, and end at the first EndFunction.
LEMMA FunctionBlock ==
  ASSUME NEW p \in Seq(Command), NEW c, Nested(p, c), NEW s \in DOMAIN p, p[s].type = "StartFunction"
  PROVE  /\ s \in Openers(p) /\ Enclosing(p, c, s) = {} /\ Enclosing(p, c, s + 1) = {s}
         /\ \A e \in DOMAIN p :
               e > s /\ p[e].type = "EndFunction"
                     /\ (\A q \in DOMAIN p : q > s /\ p[q].type = "StartFunction" => e <= q)
                     => c[s] = e
<1>1. s \in Openers(p)
  BY DEF Openers
<1>2. Enclosing(p, c, s) = {}
  BY <1>1 DEF Nested, Enclosing
<1>3. Enclosing(p, c, s + 1) = {s}
  BY <1>1, <1>2, OpensBlock
<1>4. ASSUME NEW e \in DOMAIN p, e > s, p[e].type = "EndFunction",
             \A q \in DOMAIN p : q > s /\ p[q].type = "StartFunction" => e <= q
      PROVE  c[s] = e
  <2>1. PICK o \in Openers(p) : c[o] = e
    BY <1>4 DEF Nested, Ends
  <2>2. p[e].type \in EndOf(p[o].type)
    BY <2>1 DEF Nested
  <2>3. p[o].type = "StartFunction"
    BY <1>4, <2>1, <2>2 DEF EndOf, Openers, OpenLoop, CloseLoop, Branch
  <2>4. o \in Nat /\ s \in Nat /\ e \in Nat /\ o < e /\ o \in DOMAIN p
    BY <1>1, <2>1, NestedFacts
  <2>5. ~(o > s)
    BY <1>4, <2>3, <2>4
  <2>6. ~(o < s)
    <3>1. ~(o \in Enclosing(p, c, s))
      BY <1>2
    <3> QED BY <1>4, <2>1, <2>4, <3>1 DEF Enclosing
  <2> QED BY <2>1, <2>4, <2>5, <2>6
<1> QED BY <1>1, <1>2, <1>3, <1>4

\* A block and what it is in.
LEMMA BlockOf ==
  ASSUME NEW p \in Seq(Command), NEW c, Nested(p, c), NEW i \in Nat, NEW o \in Enclosing(p, c, i),
         \A q \in Enclosing(p, c, i) : q <= o
  PROVE  Enclosing(p, c, i) = Enclosing(p, c, o) \cup {o}
<1>1. o \in Openers(p) /\ o < i /\ i <= c[o] /\ o \in Nat /\ c[o] \in Nat
  BY NestedFacts DEF Enclosing
<1>2. ASSUME NEW q \in Openers(p) PROVE q \in Enclosing(p, c, i) <=> q \in Enclosing(p, c, o) \/ q = o
  <2>1. /\ q \in Nat /\ c[q] \in Nat
        /\ q < o /\ o <= c[q] => c[o] < c[q]
    BY <1>1, <1>2, NestedFacts
  <2>2. q \in Enclosing(p, c, i) => q <= o
    OBVIOUS
  <2> QED BY <1>1, <2>1, <2>2 DEF Enclosing
<1> QED BY <1>2 DEF Enclosing

\* A set of natural numbers that is not empty has a least one.
LEMMA NatLeast ==
    ASSUME NEW S, S \subseteq Nat, S # {}
    PROVE  \E x \in S : \A y \in S : x <= y
<1> DEFINE R == OpToRel(<, Nat)
<1>1. IsWellFoundedOn(R, Nat)
  BY NatLessThanWellFounded
<1>2. \A x, y \in Nat : x < y => <<x, y>> \in R
  BY DEF OpToRel
<1> HIDE DEF R
<1>3. PICK x \in S : \A y \in S : ~(<<y, x>> \in R)
  BY <1>1, WFMin
<1>4. ASSUME NEW y \in S PROVE x <= y
  <2>1. ~(<<y, x>> \in R) /\ x \in Nat /\ y \in Nat
    BY <1>3
  <2>2. ~(y < x)
    BY <1>2, <2>1
  <2> QED  BY <2>1, <2>2
<1> QED  BY <1>4

\* The innermost block exists.
LEMMA InnermostExists ==
  ASSUME NEW p \in Seq(Command), NEW c, NEW i \in Nat, Enclosing(p, c, i) # {}
  PROVE  \E o \in Enclosing(p, c, i) : \A q \in Enclosing(p, c, i) : q <= o
<1> DEFINE E == Enclosing(p, c, i)
           S == {k \in Nat : \A q \in E : q <= k}
<1>1. E \subseteq Nat /\ \A q \in E : q < i
  BY LenProperties DEF Enclosing, Openers
<1>2. S \subseteq Nat /\ i \in S
  BY <1>1
<1>3. PICK m \in S : \A k \in S : m <= k
  BY <1>2, NatLeast
<1>4. m \in E
  <2> SUFFICES ASSUME m \notin E PROVE FALSE
    OBVIOUS
  <2>1. \A q \in E : q <= m /\ q # m
    BY <1>3
  <2>2. PICK q \in E : TRUE
    OBVIOUS
  <2>3. m - 1 \in S
    <3>1. m \in Nat /\ q \in Nat /\ q <= m - 1
      BY <1>1, <1>3, <2>1, <2>2
    <3>2. m - 1 \in Nat /\ \A r \in E : r <= m - 1
      BY <1>1, <2>1, <3>1
    <3> QED BY <3>2
  <2> QED BY <1>3, <2>3
<1> QED BY <1>3, <1>4

-----------------------------------------------------------------------------
(* Where the activations stand in the blocks *)

CallsQuiet(p, c) == \A i \in DOMAIN p : p[i].type = "CallFunction" => Quiet(p, c, i)

\* Each of the n frames of g is inside the blocks of the frames below it and the
\* one it was opened for, and a frame of the loop of a caller inside a function.
Shape(p, c, g, n) ==
  /\ g[1].start = 1 /\ Enclosing(p, c, g[1].cmd) = {}
  /\ \A i \in 2 .. n : /\ g[i].start - 1 \in Openers(p)
                       /\ Enclosing(p, c, g[i].cmd) = Enclosing(p, c, g[i].start - 1) \cup {g[i].start - 1}
  /\ \A i \in 1 .. n : \A f \in g[i].loopOf + 1 .. i : g[f].kind = "func" => InFunction(p, c, g[i].cmd)

\* A frame that skips makes those above it skip, and the flags are those of the
\* frames of loops and of the script.
Spread(g, n) ==
  /\ \A i, j \in 1 .. n : i <= j /\ g[i].nop # 0 => g[j].nop # 0
  /\ \A i \in 1 .. n : g[i].brk \/ g[i].cnt => g[i].loopOf = i

\* The Continue that is pending in frame i will reach the end of its loop.
Pending(p, c, g, n, i) ==
  /\ g[n].loopOf = i /\ Quiet(p, c, g[n].cmd)
  /\ \A f \in i + 1 .. n : g[f].kind = "func" => CallsQuiet(p, c)
  /\ \A j \in 1 .. i - 1 : g[j].nop = 0

\* What holds while no label is searched.
Straight(p, c, g, n) ==
  /\ \A i \in 1 .. n : /\ ~g[i].looped
                       /\ g[i].cnt => Pending(p, c, g, n, i)
                       /\ g[i].nop = -1 => g[g[i].loopOf].cnt
  /\ \A i, j \in 1 .. n : i <= j /\ g[i].brk => g[g[j].loopOf].brk
  /\ g[1].nop # 0 => g[1].brk \/ g[1].cnt

Labels(p, name) == {l \in DOMAIN p : p[l].type = "Label" /\ p[l].name = name}

\* Frame d is where the label at l will be met, at the latest on its second
\* walk, and all that skips or has a flag raised is above it or in its loop.
Awaits(p, c, g, n, l, d) ==
  /\ Enclosing(p, c, l) = Enclosing(p, c, g[d].cmd)
  /\ g[d].cmd <= l \/ (g[d].kind \in {"top", "loop"} /\ ~g[d].looped)
  /\ \A i \in 1 .. d - 1 : g[i].nop = 0 /\ ~g[i].looped
  /\ \A i \in 1 .. n : g[i].brk \/ g[i].cnt => i >= g[d].loopOf

\* What holds while a label is searched.
Search(p, c, g, n, name) ==
  /\ \A q \in DOMAIN p : p[q].type # "StartFunction"
  /\ \A l \in Labels(p, name) : \E d \in 1 .. n : Awaits(p, c, g, n, l, d)

FlowOf(p, c, g, n, name) ==
  /\ Shape(p, c, g, n) /\ Spread(g, n)
  /\ name = NoName => Straight(p, c, g, n)
  /\ name # NoName => Search(p, c, g, n, name)

-----------------------------------------------------------------------------
(* Positions *)

\* The script is a sequence of commands.
LEMMA ProgType ==
  ASSUME StackInv
  PROVE  prog \in Seq(Command) /\ Len(prog) \in Nat /\ DOMAIN prog = 1 .. Len(prog)
BY LenProperties DEF StackInv, TypeOK

\* The command that the running frame stands on.
LEMMA AtCommand ==
  ASSUME NEW T, "None" \notin T, At(T)
  PROVE  st = "run" /\ Top.cmd \in DOMAIN prog /\ prog[Top.cmd].type \in T /\ Here = prog[Top.cmd].type
BY DEF At, Here, TypeAt

\* Nothing is around the first command, nor behind the last.
LEMMA OutsideAll ==
  ASSUME NEW p \in Seq(Command), NEW c, Nested(p, c)
  PROVE  /\ Enclosing(p, c, 1) = {}
         /\ \A i \in Nat : i > Len(p) => Enclosing(p, c, i) = {}
BY NestedFacts DEF Enclosing

\* A Continue stays pending up to the next command, and over a whole function.
LEMMA QuietNext ==
  ASSUME NEW p \in Seq(Command), NEW c, Nested(p, c), NEW i \in DOMAIN p, Quiet(p, c, i)
  PROVE  /\ p[i].type \notin OpenLoop
         /\ p[i].type \notin CloseLoop \cup {"EndFunction"} => Quiet(p, c, i + 1)
         /\ Enclosing(p, c, i) = {} => \A q \in i .. Len(p) + 1 : Quiet(p, c, q)
<1>1. PICK e \in i .. Len(p) + 1 :
         /\ e = Len(p) + 1 \/ \E o \in Enclosing(p, c, i) : p[o].type \notin Branch /\ c[o] = e
         /\ \A q \in i .. e - 1 : p[q].type \notin OpenLoop
  BY DEF Quiet
<1>2. DOMAIN p = 1 .. Len(p) /\ Len(p) \in Nat /\ i \in Nat /\ e \in Nat
  BY LenProperties, <1>1
<1>3. CASE e = Len(p) + 1
  <2>1. p[i].type \notin OpenLoop
    BY <1>1, <1>2, <1>3
  <2>2. \A q \in i .. Len(p) + 1 : Quiet(p, c, q)
    BY <1>1, <1>2, <1>3 DEF Quiet
  <2> QED BY <1>2, <2>1, <2>2
<1>4. CASE e # Len(p) + 1
  <2>1. PICK o \in Enclosing(p, c, i) : p[o].type \notin Branch /\ c[o] = e
    BY <1>1, <1>4
  <2>2. /\ o \in Openers(p) /\ o < i /\ o \in Nat /\ e \in DOMAIN p
        /\ p[e].type \in EndOf(p[o].type)
        /\ p[e].type \in CloseLoop \cup {"EndFunction"}
    <3>1. o \in Openers(p) /\ o < i /\ o \in Nat /\ e \in DOMAIN p
      BY <2>1, NestedFacts DEF Enclosing
    <3>2. p[e].type \in EndOf(p[o].type)
      BY <2>1, <3>1 DEF Nested
    <3> QED BY <2>1, <3>1, <3>2 DEF EndOf
  <2>3. CASE e = i
    BY <2>1, <2>2, <2>3 DEF OpenLoop, CloseLoop
  <2>4. CASE e # i
    <3>1. e \in i + 1 .. Len(p) + 1 /\ p[i].type \notin OpenLoop
      BY <1>1, <1>2, <2>4
    <3>2. o \in Enclosing(p, c, i + 1)
      BY <1>2, <2>1, <2>2, <3>1 DEF Enclosing
    <3>3. Quiet(p, c, i + 1)
      <4>1. \A q \in i + 1 .. e - 1 : p[q].type \notin OpenLoop
        BY <1>1, <1>2
      <4> QED BY <2>1, <3>1, <3>2, <4>1 DEF Quiet
    <3> QED BY <2>1, <3>1, <3>3
  <2> QED BY <2>3, <2>4
<1> QED BY <1>3, <1>4

-----------------------------------------------------------------------------
(* The frames and the blocks *)

\* What opened a frame.
LEMMA Opened ==
  ASSUME StackInv, NEW i \in 2 .. Depth, frames[i].start - 1 \in Openers(prog)
  PROVE  /\ frames[i].kind # "func" => frames[i].start - 1 = frames[i - 1].cmd
         /\ frames[i].kind # "top"
         /\ LET o == prog[frames[i].start - 1].type
            IN  /\ frames[i].kind = "func" => o = "StartFunction"
                /\ frames[i].kind = "loop" => o \in OpenLoop
                /\ frames[i].kind \in {"taken", "skipped"} => o \in Branch
         /\ frames[i].kind = "func" => TypeAt(frames[i - 1].cmd) = "CallFunction"
<1>1. Depth \in Nat /\ frames \in Stacks(Depth) /\ i \in 1 .. Depth /\ i > 1 /\ i - 1 \in 1 .. Depth
  BY StackType DEF StackInv
<1>2. frames[i] \in Frame /\ frames[i - 1] \in Frame
  BY <1>1 DEF Stacks
<1>3. frames[i].kind # "top" /\ OpenedBy(frames[i - 1].cmd, frames[i].kind, frames[i].start)
  BY <1>1 DEF StackInv, FramesMatchBlocks
<1>4. frames[i].start \in Nat /\ frames[i - 1].cmd \in Nat /\ frames[i].kind \in Kind
  BY <1>2 DEF Frame
<1>5. TypeAt(frames[i].start - 1) = prog[frames[i].start - 1].type
  BY DEF TypeAt, Openers
<1>6. frames[i].kind # "func" => frames[i].start - 1 = frames[i - 1].cmd
  BY <1>3, <1>4 DEF OpenedBy
<1> QED BY <1>3, <1>4, <1>5, <1>6 DEF OpenedBy, OpenLoop, Branch

\* The end of a block ends the innermost frame.
LEMMA Closing ==
  ASSUME StackInv, st = "run", NEW c, Nested(prog, c), Shape(prog, c, frames, Depth),
         Top.cmd \in DOMAIN prog, prog[Top.cmd].type \in Ends
  PROVE  /\ Depth >= 2
         /\ LET o == Top.start - 1
            IN  /\ o \in Openers(prog) /\ c[o] = Top.cmd /\ prog[Top.cmd].type \in EndOf(prog[o].type)
                /\ Enclosing(prog, c, Top.cmd + 1) = Enclosing(prog, c, o)
                /\ Enclosing(prog, c, Top.cmd) = Enclosing(prog, c, o) \cup {o}
                /\ Enclosing(prog, c, Top.start) = Enclosing(prog, c, Top.cmd)
<1>1. Depth \in Nat /\ Depth >= 1 /\ Top = frames[Depth] /\ Top.start \in Nat /\ Top.cmd \in Nat
  BY RunType
<1>2. prog \in Seq(Command)
  BY ProgType
<1>3. Depth # 1
  <2>1. PICK o \in Openers(prog) : c[o] = Top.cmd
    BY DEF Nested
  <2>2. o \in Enclosing(prog, c, Top.cmd)
    BY <1>1, <1>2, <2>1, NestedFacts DEF Enclosing
  <2> QED BY <1>1, <2>2 DEF Shape
<1> DEFINE o == Top.start - 1
<1>4. Depth \in 2 .. Depth
  BY <1>1, <1>3
<1>5. o \in Openers(prog) /\ Enclosing(prog, c, Top.cmd) = Enclosing(prog, c, o) \cup {o}
  BY <1>1, <1>4 DEF Shape
<1>6. c[o] = Top.cmd
  <2> HIDE DEF o
  <2> QED BY <1>2, <1>5, InnermostEnds
<1>7. prog[Top.cmd].type \in EndOf(prog[o].type)
  BY <1>5, <1>6 DEF Nested
<1>8. Enclosing(prog, c, Top.cmd + 1) = Enclosing(prog, c, o)
  BY <1>2, <1>5, <1>6, ClosesBlock
<1>9. o + 1 = Top.start
  BY <1>1
<1>10. Enclosing(prog, c, Top.start) = Enclosing(prog, c, o) \cup {o}
  BY <1>2, <1>5, <1>9, OpensBlock
<1> QED BY <1>1, <1>4, <1>5, <1>6, <1>7, <1>8, <1>10

\* Without functions, each frame is inside the block that the frame below it
\* stands on, and in its blocks.
LEMMA InBlockBelow ==
  ASSUME StackInv, NEW c, Shape(prog, c, frames, Depth),
         \A q \in DOMAIN prog : prog[q].type # "StartFunction",
         NEW i \in 2 .. Depth
  PROVE  /\ frames[i].start - 1 = frames[i - 1].cmd /\ frames[i].kind # "func"
         /\ Enclosing(prog, c, frames[i].cmd) = Enclosing(prog, c, frames[i - 1].cmd) \cup {frames[i - 1].cmd}
<1>1. /\ frames[i].start - 1 \in Openers(prog)
      /\ Enclosing(prog, c, frames[i].cmd) = Enclosing(prog, c, frames[i].start - 1) \cup {frames[i].start - 1}
  BY DEF Shape
<1>2. frames[i].kind # "func" /\ frames[i].start - 1 = frames[i - 1].cmd
  BY <1>1, Opened DEF Openers
<1> QED BY <1>1, <1>2

\* So is it inside the blocks that all the frames below it stand on.
LEMMA InBlocksBelow ==
  ASSUME StackInv, NEW c, Shape(prog, c, frames, Depth),
         \A q \in DOMAIN prog : prog[q].type # "StartFunction",
         NEW i \in 1 .. Depth, NEW j \in 1 .. Depth, i < j
  PROVE  frames[i].cmd \in Enclosing(prog, c, frames[j].cmd)
<1> DEFINE S == {k \in 1 .. Depth : i < k /\ frames[i].cmd \notin Enclosing(prog, c, frames[k].cmd)}
<1>0. Depth \in Nat
  BY StackType DEF StackInv
<1>1. SUFFICES ASSUME S # {} PROVE FALSE
  BY <1>1
<1>2. PICK k \in S : \A m \in S : k <= m
  <2>1. S \subseteq Nat
    BY <1>0
  <2> QED BY <1>1, <2>1, NatLeast
<1>3. k \in 2 .. Depth /\ i <= k - 1 /\ k - 1 \in 1 .. Depth
  BY <1>0, <1>2
<1>4. Enclosing(prog, c, frames[k].cmd) = Enclosing(prog, c, frames[k - 1].cmd) \cup {frames[k - 1].cmd}
  BY <1>3, InBlockBelow
<1>5. i # k - 1 /\ frames[i].cmd \notin Enclosing(prog, c, frames[k - 1].cmd)
  BY <1>2, <1>4
<1>6. k - 1 \in S
  BY <1>0, <1>3, <1>5
<1> QED BY <1>0, <1>2, <1>3, <1>6

\* Without functions, every block around the running command has a frame.
LEMMA FrameOfBlock ==
  ASSUME StackInv, st = "run", NEW c, Shape(prog, c, frames, Depth),
         \A q \in DOMAIN prog : prog[q].type # "StartFunction",
         NEW o \in Enclosing(prog, c, Top.cmd)
  PROVE  \E k \in 2 .. Depth : frames[k].start - 1 = o
<1> DEFINE S == {k \in 1 .. Depth : o \in Enclosing(prog, c, frames[k].cmd)}
<1>1. Depth \in Nat /\ Depth \in 1 .. Depth /\ Top = frames[Depth]
  BY RunType
<1>2. S \subseteq Nat /\ Depth \in S
  BY <1>1
<1>3. PICK k \in S : \A m \in S : k <= m
  BY <1>2, NatLeast
<1>4. k # 1 /\ k \in 1 .. Depth
  BY <1>3 DEF Shape
<1>5. k \in 2 .. Depth /\ k - 1 \in 1 .. Depth
  BY <1>1, <1>4
<1>6. Enclosing(prog, c, frames[k].cmd) = Enclosing(prog, c, frames[k - 1].cmd) \cup {frames[k - 1].cmd}
      /\ frames[k].start - 1 = frames[k - 1].cmd
  BY <1>5, InBlockBelow
<1>7. k - 1 \notin S
  BY <1>1, <1>3, <1>5
<1> QED BY <1>3, <1>5, <1>6, <1>7

\* A label is met in the frame that awaits it.
LEMMA MetWhereAwaited ==
  ASSUME StackInv, st = "run", NEW c, Shape(prog, c, frames, Depth),
         Search(prog, c, frames, Depth, label), Top.cmd \in Labels(prog, label)
  PROVE  Awaits(prog, c, frames, Depth, Top.cmd, Depth)
<1>1. Depth \in Nat /\ Depth \in 1 .. Depth /\ Top = frames[Depth] /\ Top.cmd \in Nat
  BY RunType
<1>2. PICK d \in 1 .. Depth : Awaits(prog, c, frames, Depth, Top.cmd, d)
  BY DEF Search
<1>3. CASE d < Depth
  <2>1. frames[d].cmd \in Enclosing(prog, c, Top.cmd)
    BY <1>1, <1>3, InBlocksBelow DEF Search
  <2>2. frames[d].cmd \in Enclosing(prog, c, frames[d].cmd)
    BY <1>2, <2>1 DEF Awaits
  <2>3. frames[d].cmd \in Nat
    BY <1>1, StackType DEF StackInv, Stacks, Frame
  <2> QED BY <2>2, <2>3 DEF Enclosing
<1> QED BY <1>1, <1>2, <1>3

-----------------------------------------------------------------------------
(* Steps that leave the number of frames *)

\* The running frame may go on at q.
Goes(c, q) ==
  /\ Enclosing(prog, c, q) = Enclosing(prog, c, Top.cmd)
  /\ Quiet(prog, c, Top.cmd) => Quiet(prog, c, q)
  /\ \A l \in Labels(prog, label) :
        label # NoName /\ Enclosing(prog, c, l) = Enclosing(prog, c, Top.cmd) /\ Top.cmd <= l => q <= l

\* A step that raises no flag, ends no skip and goes forward.
Turn(c, g) ==
  /\ InPlace(g) /\ Goes(c, g[Depth].cmd)
  /\ \A i \in 1 .. Depth : /\ g[i].brk = frames[i].brk /\ g[i].cnt = frames[i].cnt
                           /\ g[i].looped = frames[i].looped
  /\ Top.nop # 0 => g[Depth].nop # 0
  /\ label = NoName => /\ g[Depth].nop = -1 => frames[Top.loopOf].cnt
                       /\ Depth = 1 /\ g[Depth].nop # 0 => frames[1].brk \/ frames[1].cnt

\* Shape only depends on the blocks that the running command is in.
LEMMA ShapeInPlace ==
  ASSUME StackInv, st = "run", NEW c, Shape(prog, c, frames, Depth), NEW g, InPlace(g),
         Enclosing(prog, c, g[Depth].cmd) = Enclosing(prog, c, Top.cmd)
  PROVE  Shape(prog, c, g, Depth)
<1>1. Depth \in Nat /\ Depth \in 1 .. Depth /\ Top = frames[Depth]
  BY RunType
<1>2. \A i \in 1 .. Depth : /\ g[i].start = frames[i].start /\ g[i].loopOf = frames[i].loopOf
                            /\ g[i].kind = frames[i].kind
                            /\ Enclosing(prog, c, g[i].cmd) = Enclosing(prog, c, frames[i].cmd)
  BY <1>1 DEF InPlace
<1>3. \A i \in 1 .. Depth : \A f \in frames[i].loopOf + 1 .. i : f \in 1 .. Depth
  BY <1>1, LoopOfType
<1>4. g[1].start = 1 /\ Enclosing(prog, c, g[1].cmd) = {}
  BY <1>1, <1>2 DEF Shape
<1>5. \A i \in 2 .. Depth :
         /\ g[i].start - 1 \in Openers(prog)
         /\ Enclosing(prog, c, g[i].cmd) = Enclosing(prog, c, g[i].start - 1) \cup {g[i].start - 1}
  BY <1>1, <1>2 DEF Shape
<1>6. ASSUME NEW i \in 1 .. Depth, NEW f \in g[i].loopOf + 1 .. i, g[f].kind = "func"
      PROVE  InFunction(prog, c, g[i].cmd)
  <2>1. f \in 1 .. Depth /\ f \in frames[i].loopOf + 1 .. i /\ frames[f].kind = "func"
    BY <1>2, <1>3, <1>6
  <2>2. InFunction(prog, c, frames[i].cmd)
    BY <2>1 DEF Shape
  <2> QED BY <1>2, <2>2 DEF InFunction
<1> QED BY <1>4, <1>5, <1>6 DEF Shape

\* Spread survives a step that raises no flag and ends no skip.
LEMMA SpreadInPlace ==
  ASSUME StackInv, st = "run", Spread(frames, Depth), NEW g, InPlace(g),
         \A i \in 1 .. Depth : g[i].brk = frames[i].brk /\ g[i].cnt = frames[i].cnt,
         Top.nop # 0 => g[Depth].nop # 0
  PROVE  Spread(g, Depth)
<1>1. Depth \in Nat /\ Depth \in 1 .. Depth /\ Top = frames[Depth]
  BY RunType
<1>2. \A i \in 1 .. Depth : g[i].loopOf = frames[i].loopOf
  BY DEF InPlace
<1>3. \A i \in 1 .. Depth - 1 : g[i].nop = frames[i].nop
  BY DEF InPlace
<1>4. ASSUME NEW i \in 1 .. Depth, NEW j \in 1 .. Depth, i <= j, g[i].nop # 0
      PROVE  g[j].nop # 0
  <2>1. CASE j \in 1 .. Depth - 1
    <3>1. i \in 1 .. Depth - 1
      BY <1>1, <1>4, <2>1
    <3> QED BY <1>3, <1>4, <2>1, <3>1 DEF Spread
  <2>2. CASE i \in 1 .. Depth - 1 /\ j = Depth
    BY <1>1, <1>3, <1>4, <2>2 DEF Spread
  <2>3. CASE i = Depth /\ j = Depth
    BY <1>4, <2>3
  <2> QED BY <1>1, <1>4, <2>1, <2>2, <2>3
<1>5. \A i \in 1 .. Depth : g[i].brk \/ g[i].cnt => g[i].loopOf = i
  BY <1>2 DEF Spread
<1> QED BY <1>4, <1>5 DEF Spread

\* The flow of control survives a turn.
LEMMA FlowTurn ==
  ASSUME StackInv, st = "run", NEW c, FlowOf(prog, c, frames, Depth, label), NEW g, Turn(c, g)
  PROVE  FlowOf(prog, c, g, Depth, label)
<1>1. Depth \in Nat /\ Depth \in 1 .. Depth /\ Top = frames[Depth] /\ Depth >= 1
  BY RunType
<1>2. Shape(prog, c, g, Depth)
  BY ShapeInPlace DEF FlowOf, Turn, Goes
<1>3. \A i \in 1 .. Depth : /\ g[i].loopOf = frames[i].loopOf /\ g[i].kind = frames[i].kind
                            /\ frames[i].loopOf \in 1 .. i /\ frames[i].loopOf \in 1 .. Depth
  BY LoopOfType DEF Turn, InPlace
<1>4. \A i \in 1 .. Depth - 1 : g[i].nop = frames[i].nop /\ g[i].cmd = frames[i].cmd
  BY DEF Turn, InPlace
<1>5. \A i \in 1 .. Depth : /\ g[i].brk = frames[i].brk /\ g[i].cnt = frames[i].cnt
                            /\ g[i].looped = frames[i].looped
  BY DEF Turn
<1>6. Spread(g, Depth)
  BY SpreadInPlace DEF FlowOf, Turn
<1>7. ASSUME label = NoName PROVE Straight(prog, c, g, Depth)
  <2>0. Straight(prog, c, frames, Depth)
    BY <1>7 DEF FlowOf
  <2>1. ASSUME NEW i \in 1 .. Depth, g[i].cnt PROVE Pending(prog, c, g, Depth, i)
    <3>1. Pending(prog, c, frames, Depth, i)
      BY <1>5, <2>0, <2>1 DEF Straight
    <3>2. \A f \in i + 1 .. Depth : f \in 1 .. Depth
      BY <1>1
    <3>3. \A j \in 1 .. i - 1 : j \in 1 .. Depth - 1
      BY <1>1
    <3>4. g[Depth].loopOf = i /\ Quiet(prog, c, g[Depth].cmd)
      BY <1>1, <1>3, <3>1 DEF Pending, Turn, Goes
    <3> QED BY <1>3, <1>4, <3>1, <3>2, <3>3, <3>4 DEF Pending
  <2>2. ASSUME NEW i \in 1 .. Depth, g[i].nop = -1 PROVE g[g[i].loopOf].cnt
    <3>1. CASE i = Depth
      BY <1>1, <1>3, <1>5, <1>7, <2>2, <3>1 DEF Turn
    <3>2. CASE i # Depth
      <4>1. i \in 1 .. Depth - 1
        BY <1>1, <3>2
      <4> QED BY <1>3, <1>4, <1>5, <2>0, <2>2, <4>1 DEF Straight
    <3> QED BY <3>1, <3>2
  <2>3. \A i, j \in 1 .. Depth : i <= j /\ g[i].brk => g[g[j].loopOf].brk
    BY <1>3, <1>5, <2>0 DEF Straight
  <2>4. g[1].nop # 0 => g[1].brk \/ g[1].cnt
    <3>1. 1 \in 1 .. Depth
      BY <1>1
    <3>2. CASE Depth = 1
      BY <1>5, <1>7, <3>1, <3>2 DEF Turn
    <3>3. CASE Depth # 1
      <4>1. 1 \in 1 .. Depth - 1
        BY <1>1, <3>3
      <4> QED BY <1>4, <1>5, <2>0, <3>1, <4>1 DEF Straight
    <3> QED BY <3>2, <3>3
  <2>5. \A i \in 1 .. Depth : ~g[i].looped
    BY <1>5, <2>0 DEF Straight
  <2> QED BY <2>1, <2>2, <2>3, <2>4, <2>5 DEF Straight
<1>8. ASSUME label # NoName PROVE Search(prog, c, g, Depth, label)
  <2>1. Search(prog, c, frames, Depth, label)
    BY <1>8 DEF FlowOf
  <2>2. ASSUME NEW l \in Labels(prog, label), NEW d \in 1 .. Depth, Awaits(prog, c, frames, Depth, l, d)
        PROVE  Awaits(prog, c, g, Depth, l, d)
    <3>1. Enclosing(prog, c, l) = Enclosing(prog, c, g[d].cmd)
      <4>1. CASE d = Depth
        BY <1>1, <2>2, <4>1 DEF Awaits, Turn, Goes
      <4>2. CASE d # Depth
        BY <1>1, <1>4, <2>2, <4>2 DEF Awaits
      <4> QED BY <4>1, <4>2
    <3>2. g[d].cmd <= l \/ (g[d].kind \in {"top", "loop"} /\ ~g[d].looped)
      <4>1. CASE d = Depth
        BY <1>1, <1>3, <1>5, <1>8, <2>2, <4>1 DEF Awaits, Turn, Goes
      <4>2. CASE d # Depth
        <5>1. d \in 1 .. Depth - 1
          BY <1>1, <4>2
        <5> QED BY <1>3, <1>4, <1>5, <2>2, <5>1 DEF Awaits
      <4> QED BY <4>1, <4>2
    <3>3. \A i \in 1 .. d - 1 : i \in 1 .. Depth - 1 /\ i \in 1 .. Depth
      BY <1>1
    <3>4. \A i \in 1 .. d - 1 : g[i].nop = 0 /\ ~g[i].looped
      BY <1>4, <1>5, <2>2, <3>3 DEF Awaits
    <3>5. \A i \in 1 .. Depth : g[i].brk \/ g[i].cnt => i >= g[d].loopOf
      BY <1>3, <1>5, <2>2 DEF Awaits
    <3> QED BY <3>1, <3>2, <3>4, <3>5 DEF Awaits
  <2> QED BY <2>1, <2>2 DEF Search
<1> QED BY <1>2, <1>6, <1>7, <1>8 DEF FlowOf

\* The search of a label goes on when a frame starts to walk over its commands
\* again.
LEMMA FlowRescan ==
  ASSUME StackInv, st = "run", NEW c, FlowOf(prog, c, frames, Depth, label), label # NoName,
         NEW g, InPlace(g), Enclosing(prog, c, g[Depth].cmd) = Enclosing(prog, c, Top.cmd),
         \A i \in 1 .. Depth : g[i].brk = frames[i].brk /\ g[i].cnt = frames[i].cnt,
         \A i \in 1 .. Depth - 1 : g[i].looped = frames[i].looped,
         Top.nop # 0 => g[Depth].nop # 0,
         \A l \in Labels(prog, label) :
            Enclosing(prog, c, l) = Enclosing(prog, c, Top.cmd) => g[Depth].cmd <= l
  PROVE  FlowOf(prog, c, g, Depth, label)
<1>1. Depth \in Nat /\ Depth \in 1 .. Depth /\ Top = frames[Depth]
  BY RunType
<1>2. Shape(prog, c, g, Depth) /\ Spread(g, Depth)
  BY ShapeInPlace, SpreadInPlace DEF FlowOf
<1>3. Search(prog, c, frames, Depth, label)
  BY DEF FlowOf
<1>4. ASSUME NEW l \in Labels(prog, label), NEW d \in 1 .. Depth, Awaits(prog, c, frames, Depth, l, d)
      PROVE  Awaits(prog, c, g, Depth, l, d)
  <2>1. \A i \in 1 .. d - 1 : i \in 1 .. Depth - 1
    BY <1>1
  <2>2. \A i \in 1 .. d - 1 : g[i].nop = 0 /\ ~g[i].looped
    BY <1>4, <2>1 DEF Awaits, InPlace
  <2>3. \A i \in 1 .. Depth : g[i].brk \/ g[i].cnt => i >= g[d].loopOf
    BY <1>4 DEF Awaits, InPlace
  <2>4. CASE d = Depth
    BY <1>1, <1>4, <2>2, <2>3, <2>4 DEF Awaits
  <2>5. CASE d # Depth
    <3>1. d \in 1 .. Depth - 1
      BY <1>1, <2>5
    <3>2. g[d].cmd = frames[d].cmd /\ g[d].kind = frames[d].kind /\ g[d].looped = frames[d].looped
      BY <3>1 DEF InPlace
    <3> QED BY <1>4, <2>2, <2>3, <3>2 DEF Awaits
  <2> QED BY <2>4, <2>5
<1>5. Search(prog, c, g, Depth, label)
  BY <1>3, <1>4 DEF Search
<1> QED BY <1>2, <1>5 DEF FlowOf

\* A frame that does not skip: no Continue is pending and no frame skips.
LEMMA NothingPending ==
  ASSUME StackInv, st = "run", NEW c, FlowOf(prog, c, frames, Depth, label), ~Skipping(Depth)
  PROVE  /\ label = NoName
         /\ \A i \in 1 .. Depth : ~frames[i].brk /\ ~frames[i].cnt /\ frames[i].nop = 0 /\ ~frames[i].looped
<1>1. Depth \in Nat /\ Depth \in 1 .. Depth /\ Top = frames[Depth] /\ frames \in Stacks(Depth)
      /\ Top.loopOf \in 1 .. Depth
  BY RunType
<1>2. frames[Depth].nop = 0 /\ ~frames[Top.loopOf].brk /\ ~frames[Top.loopOf].cnt /\ label = NoName
  BY <1>1 DEF Skipping, Nop
<1>3. Straight(prog, c, frames, Depth) /\ Spread(frames, Depth)
  BY <1>2 DEF FlowOf
<1>4. ASSUME NEW i \in 1 .. Depth
      PROVE  ~frames[i].brk /\ ~frames[i].cnt /\ frames[i].nop = 0 /\ ~frames[i].looped
  <2>1. i <= Depth
    BY <1>1
  <2>2. ~frames[i].brk
    BY <1>1, <1>2, <1>3, <2>1 DEF Straight
  <2>3. ~frames[i].cnt
    BY <1>1, <1>2, <1>3 DEF Straight, Pending
  <2>4. frames[i].nop = 0
    BY <1>1, <1>2, <1>3, <2>1 DEF Spread
  <2> QED BY <1>3, <2>2, <2>3, <2>4 DEF Straight
<1> QED BY <1>2, <1>4

\* A turn of a loop ends the Continue that is pending in it.
LEMMA FlowNextTurn ==
  ASSUME StackInv, st = "run", NEW c, FlowOf(prog, c, frames, Depth, label), label = NoName,
         ~Skipping(Depth) \/ (Nop(Depth) = -1 /\ Top.kind = "loop"),
         NEW g, InPlace(g), Enclosing(prog, c, g[Depth].cmd) = Enclosing(prog, c, Top.cmd),
         \A i \in 1 .. Depth : /\ g[i].brk = frames[i].brk /\ g[i].looped = frames[i].looped
                               /\ g[i].cnt => frames[i].cnt,
         g[Depth].nop = 0, Skipping(Depth) => ~g[Top.loopOf].cnt
  PROVE  FlowOf(prog, c, g, Depth, label)
<1>1. Depth \in Nat /\ Depth \in 1 .. Depth /\ Top = frames[Depth] /\ frames \in Stacks(Depth)
      /\ Top.loopOf \in 1 .. Depth /\ Depth >= 1
  BY RunType
<1>2. Shape(prog, c, g, Depth) /\ Straight(prog, c, frames, Depth) /\ Spread(frames, Depth)
  BY ShapeInPlace DEF FlowOf
<1>3. \A i \in 1 .. Depth : /\ g[i].loopOf = frames[i].loopOf /\ frames[i].loopOf \in 1 .. Depth
  BY LoopOfType DEF InPlace
<1>4. \A i \in 1 .. Depth : ~g[i].cnt
  BY <1>1, <1>2, NothingPending DEF Straight, Pending
<1>5. \A i \in 1 .. Depth - 1 : frames[i].nop = 0
  <2>1. CASE ~Skipping(Depth)
    BY <1>1, <2>1, NothingPending
  <2>2. CASE Nop(Depth) = -1 /\ Top.kind = "loop"
    <3>1. Top.loopOf = Depth
      BY <1>1, <2>2, LoopOfType
    <3>2. frames[Depth].nop = -1 \/ frames[Depth].cnt
      BY <1>1, <2>2, <3>1 DEF Nop
    <3>3. frames[Depth].cnt
      BY <1>1, <1>2, <3>1, <3>2 DEF Straight
    <3> QED BY <1>1, <1>2, <3>3 DEF Straight, Pending
  <2> QED BY <2>1, <2>2
<1>6. \A i \in 1 .. Depth : g[i].nop = 0
  <2>1. \A i \in 1 .. Depth - 1 : g[i].nop = 0
    BY <1>5 DEF InPlace
  <2> QED BY <1>1, <2>1
<1>7. \A i \in 1 .. Depth : g[i].brk \/ g[i].cnt => g[i].loopOf = i
  BY <1>2, <1>3, <1>4 DEF Spread
<1>8. Spread(g, Depth)
  BY <1>6, <1>7 DEF Spread
<1>9. \A i, j \in 1 .. Depth : i <= j /\ g[i].brk => g[g[j].loopOf].brk
  BY <1>2, <1>3 DEF Straight
<1>10. Straight(prog, c, g, Depth)
  BY <1>1, <1>2, <1>4, <1>6, <1>9 DEF Straight
<1> QED BY <1>2, <1>8, <1>10 DEF FlowOf

\* The innermost loop of a frame is not above that of a frame higher up.
LEMMA LoopsClimb ==
  ASSUME StackInv, NEW i \in 1 .. Depth, NEW j \in 1 .. Depth, i <= j
  PROVE  frames[i].loopOf <= frames[j].loopOf
<1>1. /\ Depth \in Nat /\ frames[i].loopOf \in 1 .. i /\ frames[j].loopOf \in 1 .. j
      /\ \A k \in frames[j].loopOf .. j : frames[k].loopOf = frames[j].loopOf
  BY LoopOfType
<1>2. CASE i >= frames[j].loopOf
  BY <1>1, <1>2
<1>3. CASE i < frames[j].loopOf
  BY <1>1, <1>3
<1> QED BY <1>1, <1>2, <1>3

\* A jump outwards finds the frame that will meet its label.
LEMMA JumpAwaited ==
  ASSUME StackInv, st = "run", NEW c, Orderly(prog, c), FlowOf(prog, c, frames, Depth, label),
         ~Skipping(Depth), Top.cmd \in DOMAIN prog, prog[Top.cmd].type \in Jump,
         prog[Top.cmd].name # NoName, NEW l \in Labels(prog, prog[Top.cmd].name)
  PROVE  \E d \in 1 .. Depth : Awaits(prog, c, frames, Depth, l, d)
<1>1. Depth \in Nat /\ Depth \in 1 .. Depth /\ Top = frames[Depth] /\ Depth >= 1 /\ Top.cmd \in Nat
  BY RunType
<1>2. prog \in Seq(Command) /\ Nested(prog, c) /\ l \in DOMAIN prog /\ l \in Nat
  BY ProgType DEF Orderly, Labels
<1>3. Shape(prog, c, frames, Depth)
  BY DEF FlowOf
<1>4. /\ \A q \in DOMAIN prog : prog[q].type # "StartFunction"
      /\ Enclosing(prog, c, l) \subseteq Enclosing(prog, c, Top.cmd)
      /\ l < Top.cmd => \/ Enclosing(prog, c, l) = {}
                        \/ \E o \in Enclosing(prog, c, l) :
                              prog[o].type \in OpenLoop /\ \A q \in Enclosing(prog, c, l) : q <= o
  BY DEF Orderly, JumpsOutward, Labels
<1>5. \A i \in 1 .. Depth : ~frames[i].brk /\ ~frames[i].cnt /\ frames[i].nop = 0 /\ ~frames[i].looped
  BY NothingPending
<1>6. ASSUME NEW d \in 1 .. Depth, Enclosing(prog, c, l) = Enclosing(prog, c, frames[d].cmd),
             frames[d].cmd <= l \/ frames[d].kind \in {"top", "loop"}
      PROVE  Awaits(prog, c, frames, Depth, l, d)
  <2>1. \A i \in 1 .. d - 1 : i \in 1 .. Depth
    BY <1>1
  <2> QED BY <1>5, <1>6, <2>1 DEF Awaits
<1>7. CASE Enclosing(prog, c, l) = {}
  <2>1. 1 \in 1 .. Depth /\ frames[1].kind = "top"
    BY <1>1 DEF StackInv, FramesMatchBlocks
  <2>2. Enclosing(prog, c, frames[1].cmd) = {}
    BY <1>3 DEF Shape
  <2> QED BY <1>6, <1>7, <2>1, <2>2
<1>8. CASE Enclosing(prog, c, l) # {}
  <2>1. PICK o \in Enclosing(prog, c, l) : \A q \in Enclosing(prog, c, l) : q <= o
    BY <1>2, <1>8, InnermostExists
  <2>2. Enclosing(prog, c, l) = Enclosing(prog, c, o) \cup {o}
    BY <1>2, <2>1, BlockOf
  <2>3. PICK d \in 2 .. Depth : frames[d].start - 1 = o
    BY <1>3, <1>4, <2>1, FrameOfBlock
  <2>4. /\ frames[d].start - 1 \in Openers(prog)
        /\ Enclosing(prog, c, l) = Enclosing(prog, c, frames[d].cmd)
    BY <1>3, <2>2, <2>3 DEF Shape
  <2>5. d \in 1 .. Depth /\ frames[d].cmd \in Nat
    BY <1>1, StackType DEF StackInv, Stacks, Frame
  <2>6. frames[d].cmd <= l \/ frames[d].kind \in {"top", "loop"}
    <3> SUFFICES ASSUME l < frames[d].cmd PROVE frames[d].kind = "loop"
      BY <1>2, <2>5
    <3>1. frames[d].cmd <= Top.cmd
      <4>1. CASE d = Depth
        BY <1>1, <2>5, <4>1
      <4>2. CASE d # Depth
        <5>1. frames[d].cmd \in Enclosing(prog, c, Top.cmd)
          BY <1>1, <1>3, <1>4, <2>5, <4>2, InBlocksBelow
        <5> QED BY <1>1, <2>5, <5>1 DEF Enclosing
      <4> QED BY <4>1, <4>2
    <3>2. l < Top.cmd
      BY <1>1, <1>2, <2>5, <3>1
    <3>3. prog[o].type \in OpenLoop
      <4>1. PICK r \in Enclosing(prog, c, l) :
               prog[r].type \in OpenLoop /\ \A q \in Enclosing(prog, c, l) : q <= r
        BY <1>4, <1>8, <3>2
      <4>2. r <= o /\ o <= r /\ r \in Nat /\ o \in Nat
        BY <1>2, <2>1, <4>1, NestedFacts DEF Enclosing
      <4> QED BY <4>1, <4>2
    <3>4. frames[d].kind \in Kind
      BY <1>1, <2>5, StackType DEF StackInv, Stacks, Frame
    <3>5. frames[d].kind # "func"
      BY <1>3, <1>4, InBlockBelow
    <3> QED BY <2>3, <2>4, <3>3, <3>4, <3>5, Opened DEF Kind, OpenLoop, Branch
  <2> QED BY <1>6, <2>4, <2>5, <2>6
<1> QED BY <1>7, <1>8

\* The flow of control survives Break and Continue, with a name or without.
LEMMA FlowRaised ==
  ASSUME StackInv, NEW c, Orderly(prog, c), FlowOf(prog, c, frames, Depth, label),
         At(Jump), ~Skipping(Depth),
         NEW g, InPlace(g), g[Depth].cmd = Top.cmd + 1,
         \A i \in 1 .. Depth : /\ g[i].nop = frames[i].nop /\ g[i].looped = frames[i].looped
                               /\ i # Top.loopOf => g[i].brk = frames[i].brk /\ g[i].cnt = frames[i].cnt,
         Here = "Break" => g[Top.loopOf].cnt = frames[Top.loopOf].cnt /\ g[Top.loopOf].brk,
         Here = "Continue" => g[Top.loopOf].brk = frames[Top.loopOf].brk
  PROVE  FlowOf(prog, c, g, Depth, NameAt(Top.cmd))
<1> DEFINE o == Top.loopOf
<1>1. st = "run" /\ Top.cmd \in DOMAIN prog /\ prog[Top.cmd].type \in Jump /\ Here = prog[Top.cmd].type
  BY AtCommand DEF Jump
<1>2. /\ Depth \in Nat /\ Depth \in 1 .. Depth /\ Top = frames[Depth] /\ Depth >= 1 /\ Top.cmd \in Nat
      /\ o \in 1 .. Depth
  BY <1>1, RunType
<1>3. prog \in Seq(Command) /\ Nested(prog, c) /\ ContinuesLast(prog, c)
  BY ProgType DEF Orderly
<1>4. Shape(prog, c, frames, Depth)
  BY DEF FlowOf
<1>5. /\ label = NoName
      /\ \A i \in 1 .. Depth : ~frames[i].brk /\ ~frames[i].cnt /\ frames[i].nop = 0 /\ ~frames[i].looped
  BY <1>1, NothingPending
<1>6. /\ \A i \in 1 .. Depth : g[i].loopOf = frames[i].loopOf /\ g[i].kind = frames[i].kind
      /\ \A j \in o .. Depth : frames[j].loopOf = o
  BY <1>2, LoopOfType DEF InPlace
<1>7. \A i \in 1 .. Depth : /\ g[i].nop = 0 /\ ~g[i].looped
                            /\ g[i].brk \/ g[i].cnt => i = o
  BY <1>5
<1>8. Enclosing(prog, c, g[Depth].cmd) = Enclosing(prog, c, Top.cmd)
  <2>1. prog[Top.cmd].type \notin Ends \cup OpenLoop \cup Branch \cup {"StartFunction"}
    BY <1>1 DEF Jump, Ends, OpenLoop, CloseLoop, Branch
  <2>2. Top.cmd \notin Openers(prog)
    BY <2>1 DEF Openers
  <2> QED BY <1>2, <1>3, <2>1, <2>2, StaysInBlocks
<1>9. Shape(prog, c, g, Depth)
  BY <1>1, <1>4, <1>8, ShapeInPlace
<1>10. Spread(g, Depth)
  <2>1. g[o].loopOf = o
    BY <1>2, <1>6
  <2> QED BY <1>7, <2>1 DEF Spread
<1>11. CASE NameAt(Top.cmd) = NoName
  <2>1. ASSUME NEW i \in 1 .. Depth, g[i].cnt PROVE Pending(prog, c, g, Depth, i)
    <3>1. i = o /\ Here # "Break"
      BY <1>2, <1>5, <1>7, <2>1
    <3>2. prog[Top.cmd].type = "Continue" /\ prog[Top.cmd].name = NoName
      BY <1>1, <1>11, <3>1 DEF Jump, NameAt
    <3>3. Quiet(prog, c, g[Depth].cmd)
      <4>1. Quiet(prog, c, Top.cmd)
        BY <1>1, <1>3, <3>2 DEF ContinuesLast
      <4> QED BY <1>1, <1>3, <3>2, <4>1, QuietNext DEF CloseLoop
    <3>4. ASSUME NEW f \in i + 1 .. Depth, g[f].kind = "func" PROVE CallsQuiet(prog, c)
      <4>1. f \in frames[Depth].loopOf + 1 .. Depth /\ frames[f].kind = "func"
        BY <1>2, <1>6, <3>1, <3>4
      <4>2. InFunction(prog, c, Top.cmd)
        BY <1>2, <1>4, <4>1 DEF Shape
      <4> QED BY <1>1, <1>3, <3>2, <4>2 DEF ContinuesLast, CallsQuiet
    <3>5. \A j \in 1 .. i - 1 : g[j].nop = 0
      BY <1>2, <1>7
    <3> QED BY <1>2, <1>6, <3>1, <3>3, <3>4, <3>5 DEF Pending
  <2>2. ASSUME NEW i \in 1 .. Depth, NEW j \in 1 .. Depth, i <= j, g[i].brk PROVE g[g[j].loopOf].brk
    <3>1. i = o /\ j \in o .. Depth
      BY <1>2, <1>7, <2>2
    <3>2. g[j].loopOf = i
      BY <1>6, <3>1
    <3> QED BY <2>2, <3>2
  <2>3. 1 \in 1 .. Depth
    BY <1>2
  <2>4. Straight(prog, c, g, Depth)
    BY <1>7, <2>1, <2>2, <2>3 DEF Straight
  <2> QED BY <1>9, <1>10, <1>11, <2>4 DEF FlowOf
<1>12. CASE NameAt(Top.cmd) # NoName
  <2>1. \A q \in DOMAIN prog : prog[q].type # "StartFunction"
    BY <1>1, <1>12 DEF Orderly, JumpsOutward, NameAt
  <2>2. ASSUME NEW l \in Labels(prog, NameAt(Top.cmd))
        PROVE  \E d \in 1 .. Depth : Awaits(prog, c, g, Depth, l, d)
    <3>1. PICK d \in 1 .. Depth : Awaits(prog, c, frames, Depth, l, d)
      BY <1>1, <1>12, <2>2, JumpAwaited DEF NameAt
    <3>2. Enclosing(prog, c, l) = Enclosing(prog, c, g[d].cmd)
      BY <1>2, <1>8, <3>1 DEF Awaits, InPlace
    <3>3. g[d].cmd <= l \/ (g[d].kind \in {"top", "loop"} /\ ~g[d].looped)
      <4>1. CASE d # Depth
        <5>1. g[d].cmd = frames[d].cmd
          BY <1>2, <4>1 DEF InPlace
        <5> QED BY <1>6, <1>7, <3>1, <5>1 DEF Awaits
      <4>2. CASE d = Depth
        <5>1. l # Top.cmd /\ l \in Nat
          BY <1>1, <1>3, LenProperties DEF Labels, Jump
        <5>2. Top.cmd <= l => g[d].cmd <= l
          BY <1>2, <4>2, <5>1
        <5> QED BY <1>2, <1>6, <1>7, <3>1, <4>2, <5>2 DEF Awaits
      <4> QED BY <4>1, <4>2
    <3>4. \A i \in 1 .. d - 1 : g[i].nop = 0 /\ ~g[i].looped
      BY <1>2, <1>7
    <3>5. \A i \in 1 .. Depth : g[i].brk \/ g[i].cnt => i >= g[d].loopOf
      <4>1. frames[d].loopOf <= o /\ o \in Nat /\ frames[d].loopOf \in Nat
        BY <1>2, LoopsClimb, LoopOfType
      <4> QED BY <1>2, <1>6, <1>7, <4>1
    <3> QED BY <3>2, <3>3, <3>4, <3>5 DEF Awaits
  <2> QED BY <1>9, <1>10, <1>12, <2>1, <2>2 DEF FlowOf, Search
<1> QED BY <1>11, <1>12

\* The label that is searched ends every skip.
LEMMA FlowLanded ==
  ASSUME StackInv, st = "run", NEW c, Nested(prog, c), FlowOf(prog, c, frames, Depth, label),
         label # NoName, Top.cmd \in Labels(prog, label),
         NEW g, InPlace(g), g[Depth].cmd = Top.cmd + 1, g[Depth].nop = 0, ~g[Depth].looped,
         \A i \in 1 .. Depth : /\ i # Depth => g[i].looped = frames[i].looped
                               /\ i # Top.loopOf => g[i].brk = frames[i].brk /\ g[i].cnt = frames[i].cnt,
         ~g[Top.loopOf].brk, ~g[Top.loopOf].cnt
  PROVE  FlowOf(prog, c, g, Depth, NoName)
<1>1. /\ Depth \in Nat /\ Depth \in 1 .. Depth /\ Top = frames[Depth] /\ Depth >= 1 /\ Top.cmd \in Nat
      /\ Top.loopOf \in 1 .. Depth
  BY RunType
<1>2. prog \in Seq(Command) /\ Top.cmd \in DOMAIN prog /\ prog[Top.cmd].type = "Label"
  BY ProgType DEF Labels
<1>3. Awaits(prog, c, frames, Depth, Top.cmd, Depth)
  BY MetWhereAwaited DEF FlowOf
<1>4. \A j \in Top.loopOf .. Depth : frames[j].loopOf = Top.loopOf
  BY <1>1, LoopOfType
<1>5. ASSUME NEW i \in 1 .. Depth
      PROVE  g[i].nop = 0 /\ ~g[i].looped /\ ~g[i].brk /\ ~g[i].cnt
  <2>1. i # Depth => g[i].nop = 0 /\ ~g[i].looped
    <3> SUFFICES ASSUME i # Depth PROVE g[i].nop = 0 /\ ~g[i].looped
      OBVIOUS
    <3>1. i \in 1 .. Depth - 1
      BY <1>1
    <3> QED BY <1>3, <3>1 DEF Awaits, InPlace
  <2>2. frames[i].brk \/ frames[i].cnt => i = Top.loopOf
    <3> SUFFICES ASSUME frames[i].brk \/ frames[i].cnt PROVE i = Top.loopOf
      OBVIOUS
    <3>1. i \in Top.loopOf .. Depth
      BY <1>1, <1>3 DEF Awaits
    <3>2. frames[i].loopOf = i
      BY DEF FlowOf, Spread
    <3> QED BY <1>4, <3>1, <3>2
  <2> QED BY <2>1, <2>2
<1>6. Enclosing(prog, c, g[Depth].cmd) = Enclosing(prog, c, Top.cmd)
  <2>1. prog[Top.cmd].type \notin Ends
    BY <1>2 DEF Ends, CloseLoop
  <2>2. Top.cmd \notin Openers(prog)
    BY <1>2 DEF Openers, OpenLoop, Branch
  <2> QED BY <1>1, <1>2, <2>1, <2>2, StaysInBlocks
<1>7. Shape(prog, c, g, Depth)
  BY <1>6, ShapeInPlace DEF FlowOf
<1>8. Spread(g, Depth) /\ Straight(prog, c, g, Depth)
  <2>1. 1 \in 1 .. Depth
    BY <1>1
  <2> QED BY <1>5, <2>1 DEF Spread, Straight
<1> QED BY <1>7, <1>8 DEF FlowOf

-----------------------------------------------------------------------------
(* Calls and returns *)

\* The block that a call enters.
LEMMA ShapePush ==
  ASSUME StackInv, st = "run", NEW c, Nested(prog, c), NEW g, InPlace(g), g[Depth].cmd = Top.cmd,
         Shape(prog, c, g, Depth),
         NEW kind \in Kind, NEW p \in Nat, p - 1 \in Openers(prog), NEW h, NEW f,
         h[Depth + 1] = f, \A i \in 1 .. Depth : h[i] = g[i],
         f.kind = kind, f.start = p, f.cmd = p,
         f.loopOf = IF kind = "loop" THEN Depth + 1 ELSE frames[Depth].loopOf,
         kind = "func" => prog[p - 1].type = "StartFunction",
         kind \notin {"loop", "func"} => p - 1 = Top.cmd /\ prog[p - 1].type \in Branch
  PROVE  Shape(prog, c, h, Depth + 1)
<1>1. /\ Depth \in Nat /\ Depth \in 1 .. Depth /\ Top = frames[Depth] /\ Depth >= 1 /\ Top.cmd \in Nat
      /\ g[Depth].loopOf = frames[Depth].loopOf /\ frames[Depth].loopOf \in 1 .. Depth
  BY RunType DEF InPlace
<1>2. prog \in Seq(Command)
  BY ProgType
<1>3. Enclosing(prog, c, p) = Enclosing(prog, c, p - 1) \cup {p - 1}
  <2>1. (p - 1) + 1 = p
    OBVIOUS
  <2> QED BY <1>2, <2>1, OpensBlock
<1>4. h[1].start = 1 /\ Enclosing(prog, c, h[1].cmd) = {}
  <2>1. h[1] = g[1]
    BY <1>1
  <2> QED BY <2>1 DEF Shape
<1>5. ASSUME NEW i \in 2 .. Depth + 1
      PROVE  /\ h[i].start - 1 \in Openers(prog)
             /\ Enclosing(prog, c, h[i].cmd) = Enclosing(prog, c, h[i].start - 1) \cup {h[i].start - 1}
  <2>1. CASE i = Depth + 1
    BY <1>3, <2>1
  <2>2. CASE i # Depth + 1
    <3>1. i \in 2 .. Depth /\ h[i] = g[i]
      BY <1>1, <2>2
    <3> QED BY <3>1 DEF Shape
  <2> QED BY <2>1, <2>2
<1>6. ASSUME NEW i \in 1 .. Depth + 1, NEW j \in h[i].loopOf + 1 .. i, h[j].kind = "func"
      PROVE  InFunction(prog, c, h[i].cmd)
  <2>1. CASE i # Depth + 1
    <3>1. i \in 1 .. Depth /\ h[i] = g[i] /\ g[i].loopOf = frames[i].loopOf /\ frames[i].loopOf \in 1 .. i
      BY <1>1, <2>1, LoopOfType DEF InPlace
    <3>2. j \in g[i].loopOf + 1 .. i /\ j \in 1 .. Depth /\ g[j].kind = "func"
      BY <1>1, <1>6, <3>1
    <3> QED BY <3>1, <3>2 DEF Shape
  <2>2. CASE i = Depth + 1 /\ kind = "loop"
    BY <1>1, <2>2
  <2>3. CASE i = Depth + 1 /\ kind = "func"
    <3>1. p - 1 \in DOMAIN prog /\ prog[p - 1].type = "StartFunction"
      BY <2>3 DEF Openers
    <3>2. Enclosing(prog, c, p) = {p - 1}
      BY <1>2, <1>3, <3>1, FunctionBlock
    <3> QED BY <2>3, <3>1, <3>2 DEF InFunction, OpenLoop
  <2>4. CASE i = Depth + 1 /\ kind \notin {"loop", "func"}
    <3>1. j \in g[Depth].loopOf + 1 .. Depth + 1 /\ j # Depth + 1
      BY <1>1, <1>6, <2>4
    <3>2. j \in g[Depth].loopOf + 1 .. Depth /\ j \in 1 .. Depth
      BY <1>1, <3>1
    <3>3. InFunction(prog, c, Top.cmd)
      BY <1>1, <1>6, <3>2 DEF Shape
    <3>4. Enclosing(prog, c, h[i].cmd) = Enclosing(prog, c, Top.cmd) \cup {Top.cmd}
      BY <1>3, <2>4
    <3> QED BY <2>4, <3>3, <3>4 DEF InFunction, Branch, OpenLoop
  <2> QED BY <2>1, <2>2, <2>3, <2>4
<1> QED BY <1>4, <1>5, <1>6 DEF Shape

\* The flow of control survives a recursive call.
LEMMA FlowPush ==
  ASSUME StackInv, st = "run", NEW c, Nested(prog, c),
         NEW g, InPlace(g), g[Depth].cmd = Top.cmd, FlowOf(prog, c, g, Depth, label),
         NEW kind \in Kind, NEW p \in Nat, NEW k \in {-1, 0, 1}, p - 1 \in Openers(prog),
         g[Depth].nop # 0 => k # 0,
         label = NoName /\ k = -1 => g[Top.loopOf].cnt,
         kind = "loop" => p - 1 = Top.cmd /\ prog[p - 1].type \in OpenLoop,
         kind = "func" => /\ prog[p - 1].type = "StartFunction" /\ k = 0
                          /\ \A i \in 1 .. Depth : ~g[i].cnt,
         kind \notin {"loop", "func"} => p - 1 = Top.cmd /\ prog[p - 1].type \in Branch
  PROVE  FlowOf(prog, c, Append(g, NewFrame(g, kind, p, k)), Depth + 1, label)
<1> DEFINE f == NewFrame(g, kind, p, k)
           h == Append(g, f)
           o == Top.loopOf
<1>1. /\ Depth \in Nat /\ Depth \in 1 .. Depth /\ Top = frames[Depth] /\ Depth >= 1 /\ Top.cmd \in Nat
      /\ o \in 1 .. Depth /\ g[Depth].loopOf = o /\ g \in Stacks(Depth)
  BY RunType DEF InPlace
<1>2. /\ f \in Frame /\ f.kind = kind /\ f.start = p /\ f.cmd = p /\ f.nop = k
      /\ f.loopOf = IF kind = "loop" THEN Depth + 1 ELSE o
      /\ f.brk <=> kind = "loop" /\ g[o].brk
      /\ f.cnt <=> kind = "loop" /\ g[o].cnt
  BY <1>1, NewFrameType
<1>3. ~f.looped
  BY DEF NewFrame
<1>4. h[Depth + 1] = f /\ \A i \in 1 .. Depth : h[i] = g[i]
  BY <1>1, <1>2, PushType, RunType
<1> HIDE DEF f, h
<1>5. prog \in Seq(Command) /\ p - 1 \in DOMAIN prog
  BY ProgType DEF Openers
<1>6. Shape(prog, c, h, Depth + 1)
  BY <1>1, <1>2, <1>4, ShapePush DEF FlowOf
<1>7. \A i \in 1 .. Depth : g[i].loopOf \in 1 .. i /\ g[i].loopOf \in 1 .. Depth /\ i <= Depth /\ i \in Nat
  BY <1>1, LoopOfType DEF InPlace
<1>8. \A i \in 1 .. Depth + 1 : i \in 1 .. Depth \/ i = Depth + 1
  BY <1>1
<1>9. Spread(h, Depth + 1)
  <2>0. Spread(g, Depth)
    BY DEF FlowOf
  <2>1. ASSUME NEW i \in 1 .. Depth + 1, NEW j \in 1 .. Depth + 1, i <= j, h[i].nop # 0
        PROVE  h[j].nop # 0
    <3>1. CASE i \in 1 .. Depth /\ j \in 1 .. Depth
      BY <1>4, <2>0, <2>1, <3>1 DEF Spread
    <3>2. CASE i \in 1 .. Depth /\ j = Depth + 1
      <4>1. g[Depth].nop # 0
        BY <1>1, <1>4, <1>7, <2>0, <2>1, <3>2 DEF Spread
      <4> QED BY <1>2, <1>4, <3>2, <4>1
    <3>3. CASE i = Depth + 1
      BY <1>1, <2>1, <3>3
    <3> QED BY <1>8, <3>1, <3>2, <3>3
  <2>2. ASSUME NEW i \in 1 .. Depth + 1, h[i].brk \/ h[i].cnt PROVE h[i].loopOf = i
    <3>1. CASE i \in 1 .. Depth
      BY <1>4, <2>0, <2>2, <3>1 DEF Spread
    <3>2. CASE i = Depth + 1
      BY <1>2, <1>4, <2>2, <3>2
    <3> QED BY <1>8, <3>1, <3>2
  <2> QED BY <2>1, <2>2 DEF Spread
<1>10. ASSUME label = NoName PROVE Straight(prog, c, h, Depth + 1)
  <2>0. Straight(prog, c, g, Depth)
    BY <1>10 DEF FlowOf
  <2>1. ASSUME NEW i \in 1 .. Depth, g[i].cnt
        PROVE  kind \notin {"loop", "func"} /\ Pending(prog, c, h, Depth + 1, i)
    <3>1. Pending(prog, c, g, Depth, i)
      BY <2>0, <2>1 DEF Straight
    <3>2. Quiet(prog, c, Top.cmd) /\ i = o
      BY <1>1, <3>1 DEF Pending
    <3>3. kind \notin {"loop", "func"}
      BY <1>5, <2>1, <3>2, QuietNext
    <3>4. p - 1 = Top.cmd /\ prog[p - 1].type \in Branch /\ Top.cmd + 1 = p
      BY <1>1, <3>3
    <3>5. Quiet(prog, c, p)
      BY <1>5, <3>2, <3>4, QuietNext DEF Branch, CloseLoop
    <3>6. ASSUME NEW j \in i + 1 .. Depth + 1, h[j].kind = "func" PROVE CallsQuiet(prog, c)
      <4>1. j # Depth + 1
        BY <1>2, <1>4, <3>3, <3>6
      <4>2. j \in i + 1 .. Depth /\ j \in 1 .. Depth
        BY <1>1, <4>1
      <4> QED BY <1>4, <3>1, <3>6, <4>2 DEF Pending
    <3>7. \A j \in 1 .. i - 1 : h[j].nop = 0
      <4>1. \A j \in 1 .. i - 1 : j \in 1 .. Depth
        BY <1>1
      <4> QED BY <1>4, <3>1, <4>1 DEF Pending
    <3>8. h[Depth + 1].loopOf = i /\ h[Depth + 1].cmd = p
      BY <1>2, <1>4, <3>2, <3>3
    <3> QED BY <3>3, <3>5, <3>6, <3>7, <3>8 DEF Pending
  <2>2. ASSUME NEW i \in 1 .. Depth + 1
        PROVE  /\ ~h[i].looped
               /\ h[i].cnt => Pending(prog, c, h, Depth + 1, i)
               /\ h[i].nop = -1 => h[h[i].loopOf].cnt
    <3>1. CASE i \in 1 .. Depth
      <4>1. ~h[i].looped /\ (h[i].cnt => Pending(prog, c, h, Depth + 1, i))
        BY <1>4, <2>0, <2>1, <3>1 DEF Straight
      <4>2. h[i].nop = -1 => h[h[i].loopOf].cnt
        BY <1>4, <1>7, <2>0, <3>1 DEF Straight
      <4> QED BY <4>1, <4>2
    <3>2. CASE i = Depth + 1
      <4>1. kind = "loop" \/ kind = "func" => ~g[o].cnt
        BY <1>1, <2>1
      <4>2. ~h[i].looped /\ ~h[i].cnt
        BY <1>2, <1>3, <1>4, <3>2, <4>1
      <4>3. h[i].nop = -1 => h[h[i].loopOf].cnt
        BY <1>1, <1>2, <1>4, <1>10, <3>2, <4>1
      <4> QED BY <4>2, <4>3
    <3> QED BY <1>8, <3>1, <3>2
  <2>3. ASSUME NEW i \in 1 .. Depth + 1, NEW j \in 1 .. Depth + 1, i <= j, h[i].brk
        PROVE  h[h[j].loopOf].brk
    <3>1. CASE i \in 1 .. Depth /\ j \in 1 .. Depth
      BY <1>4, <1>7, <2>0, <2>3, <3>1 DEF Straight
    <3>2. CASE i \in 1 .. Depth /\ j = Depth + 1
      <4>1. g[o].brk
        BY <1>1, <1>4, <1>7, <2>0, <2>3, <3>2 DEF Straight
      <4> QED BY <1>1, <1>2, <1>4, <3>2, <4>1
    <3>3. CASE i = Depth + 1
      <4>1. j = Depth + 1
        BY <1>1, <2>3, <3>3
      <4> QED BY <1>2, <1>4, <2>3, <3>3, <4>1
    <3> QED BY <1>8, <3>1, <3>2, <3>3
  <2>4. h[1].nop # 0 => h[1].brk \/ h[1].cnt
    <3>1. h[1] = g[1]
      BY <1>1, <1>4
    <3> QED BY <2>0, <3>1 DEF Straight
  <2> QED BY <2>2, <2>3, <2>4 DEF Straight
<1>11. ASSUME label # NoName PROVE Search(prog, c, h, Depth + 1, label)
  <2>1. Search(prog, c, g, Depth, label)
    BY <1>11 DEF FlowOf
  <2>2. ASSUME NEW l \in Labels(prog, label)
        PROVE  \E d \in 1 .. Depth + 1 : Awaits(prog, c, h, Depth + 1, l, d)
    <3>1. PICK d \in 1 .. Depth : Awaits(prog, c, g, Depth, l, d)
      BY <2>1, <2>2 DEF Search
    <3>2. h[d] = g[d] /\ d \in 1 .. Depth + 1 /\ g[d].loopOf <= Depth + 1
      BY <1>1, <1>4, <1>7
    <3>3. \A i \in 1 .. d - 1 : h[i].nop = 0 /\ ~h[i].looped
      <4>1. \A i \in 1 .. d - 1 : i \in 1 .. Depth
        BY <1>1
      <4> QED BY <1>4, <3>1, <4>1 DEF Awaits
    <3>4. \A i \in 1 .. Depth + 1 : h[i].brk \/ h[i].cnt => i >= h[d].loopOf
      BY <1>1, <1>4, <1>7, <1>8, <3>1, <3>2 DEF Awaits
    <3>5. Awaits(prog, c, h, Depth + 1, l, d)
      BY <3>1, <3>2, <3>3, <3>4 DEF Awaits
    <3> QED BY <3>2, <3>5
  <2> QED BY <2>1, <2>2 DEF Search
<1>12. FlowOf(prog, c, h, Depth + 1, label)
  BY <1>6, <1>9, <1>10, <1>11 DEF FlowOf
<1> QED BY <1>12 DEF h, f

\* Where the caller goes on.
LEMMA CallerCmd ==
  ASSUME StackInv, Depth > 1, NEW g, InPlace(g), Leave(g)
  PROVE  frames'[Depth - 1].cmd = IF Top.kind = "func" THEN frames[Depth - 1].cmd + 1 ELSE Top.cmd + 1
<1> DEFINE at == IF Top.kind = "func" THEN g[Depth - 1].cmd ELSE Top.cmd
           o  == g[Depth - 1].ifOf
           h1 == [Caller(g) EXCEPT ![Depth - 1].cmd = at + 1]
<1>1. Depth \in Nat /\ g \in Stacks(Depth) /\ TypeOK /\ Depth - 1 \in 1 .. Depth - 1
  BY StackType DEF InPlace, StackInv
<1>2. Caller(g) \in Stacks(Depth - 1)
  BY <1>1, CallerType
<1>3. Caller(g)[Depth - 1] \in Frame
  BY <1>1, <1>2 DEF Stacks
<1>4. frames' = [h1 EXCEPT ![o].ifDone = @ \/ Top.kind = "taken"]
  BY <1>1 DEF Leave
<1>5. Depth - 1 \in DOMAIN h1 /\ h1[Depth - 1].cmd = at + 1
  BY <1>1, <1>2, <1>3 DEF Stacks, Frame
<1>6. /\ h1[Depth - 1] = [Caller(g)[Depth - 1] EXCEPT !.cmd = at + 1]
      /\ \A x : [h1[Depth - 1] EXCEPT !.ifDone = x].cmd = h1[Depth - 1].cmd
  <2>1. h1[Depth - 1] = [Caller(g)[Depth - 1] EXCEPT !.cmd = at + 1]
    BY <1>1, <1>2 DEF Stacks
  <2> HIDE DEF h1, at
  <2> QED BY <1>3, <2>1 DEF Frame
<1>7. frames'[Depth - 1].cmd = h1[Depth - 1].cmd
  <2> HIDE DEF h1, o, at
  <2>1. CASE o = Depth - 1
    <3>1. frames'[Depth - 1] = [h1[Depth - 1] EXCEPT !.ifDone = @ \/ Top.kind = "taken"]
      BY <1>4, <1>5, <2>1
    <3> QED BY <1>6, <3>1
  <2>2. CASE o # Depth - 1
    BY <1>4, <1>5, <2>2
  <2> QED BY <2>1, <2>2
<1>8. g[Depth - 1].cmd = frames[Depth - 1].cmd
  BY <1>1 DEF InPlace
<1> QED BY <1>5, <1>7, <1>8

\* The flow of control survives a return at the end of a block.
LEMMA FlowPopped ==
  ASSUME StackInv, st = "run", NEW c, Nested(prog, c), FlowOf(prog, c, frames, Depth, label),
         Top.cmd \in DOMAIN prog, prog[Top.cmd].type \in Ends,
         NEW g, InPlace(g), g[Depth].cmd = Top.cmd, FlowOf(prog, c, g, Depth, label),
         label # NoName /\ Top.kind = "loop" => g[Depth].looped,
         NEW h, Popped(g, h),
         h[Depth - 1].cmd = IF Top.kind = "func" THEN frames[Depth - 1].cmd + 1 ELSE Top.cmd + 1
  PROVE  FlowOf(prog, c, h, Depth - 1, label)
<1> DEFINE n == Depth - 1
           o == Top.start - 1
<1>1. /\ Depth \in Nat /\ Depth \in 1 .. Depth /\ Top = frames[Depth] /\ Top.cmd \in Nat /\ Top \in Frame
  BY RunType
<1>2. prog \in Seq(Command) /\ Shape(prog, c, frames, Depth)
  BY ProgType DEF FlowOf
<1>3. /\ Depth >= 2 /\ o \in Openers(prog) /\ c[o] = Top.cmd /\ prog[Top.cmd].type \in EndOf(prog[o].type)
      /\ Enclosing(prog, c, Top.cmd + 1) = Enclosing(prog, c, o)
      /\ Enclosing(prog, c, Top.cmd) = Enclosing(prog, c, o) \cup {o}
  BY <1>2, Closing
<1>4. /\ n \in Nat /\ n \in 1 .. n /\ n \in 1 .. Depth /\ Depth \in 2 .. Depth /\ n >= 1
      /\ \A i \in 1 .. n : i \in 1 .. Depth /\ i < Depth
  BY <1>1, <1>3
<1>5. /\ Top.kind # "func" => o = frames[n].cmd
      /\ Top.kind # "top"
      /\ Top.kind = "func" => prog[o].type = "StartFunction" /\ TypeAt(frames[n].cmd) = "CallFunction"
      /\ Top.kind \notin {"func", "loop"} => prog[o].type \in Branch
  <2>1. Top.kind \in Kind
    BY <1>1 DEF Frame
  <2> QED BY <1>1, <1>3, <1>4, <2>1, Opened DEF Kind
<1>6. /\ frames[n].cmd \in Nat
      /\ \A i \in 1 .. Depth : frames[i].loopOf \in 1 .. i
      /\ frames[Depth].loopOf \in 1 .. n => frames[n].loopOf = frames[Depth].loopOf
      /\ Top.kind = "loop" => frames[Depth].loopOf = Depth
  <2>1. frames[n] \in Frame
    BY <1>4, StackType DEF StackInv, Stacks
  <2>2. frames[Depth].loopOf \in 1 .. n => n \in frames[Depth].loopOf .. Depth
    BY <1>1, <1>4
  <2> QED BY <1>1, <2>1, <2>2, LoopOfType DEF Frame
<1>7. \A i \in 1 .. n : /\ h[i].kind = frames[i].kind /\ h[i].start = frames[i].start
                        /\ h[i].loopOf = frames[i].loopOf /\ h[i].nop = frames[i].nop
                        /\ h[i].brk = g[i].brk /\ h[i].cnt = g[i].cnt /\ h[i].looped = g[i].looped
                        /\ g[i].kind = frames[i].kind /\ g[i].start = frames[i].start
                        /\ g[i].loopOf = frames[i].loopOf /\ g[i].nop = frames[i].nop
                        /\ g[i].cmd = frames[i].cmd
  BY <1>4 DEF Popped, InPlace
<1>8. \A i \in 1 .. n : i # n => h[i].cmd = frames[i].cmd
  BY <1>4 DEF Popped
<1>9. \A i \in 1 .. n : frames[i].loopOf \in 1 .. n
  BY <1>4, <1>6
<1>10. Top.kind = "func" => frames[n].cmd \in DOMAIN prog /\ prog[frames[n].cmd].type = "CallFunction"
  BY <1>5 DEF TypeAt
<1> HIDE DEF n, o
<1>11. h[n].cmd = IF Top.kind = "func" THEN frames[n].cmd + 1 ELSE Top.cmd + 1
  BY DEF n
<1>12. Enclosing(prog, c, h[n].cmd) = Enclosing(prog, c, frames[n].cmd)
  <2>1. CASE Top.kind = "func"
    BY <1>2, <1>6, <1>10, <1>11, <2>1, StaysInBlocks DEF Orderly, Openers, Ends, OpenLoop, CloseLoop, Branch
  <2>2. CASE Top.kind # "func"
    BY <1>3, <1>5, <1>11, <2>2
  <2> QED BY <2>1, <2>2
<1>13. Shape(prog, c, h, n)
  <2>1. \A i \in 1 .. n : Enclosing(prog, c, h[i].cmd) = Enclosing(prog, c, frames[i].cmd)
    BY <1>8, <1>12
  <2>2. h[1].start = 1 /\ Enclosing(prog, c, h[1].cmd) = {}
    <3>1. 1 \in 1 .. n
      BY <1>4
    <3> QED BY <1>2, <1>7, <2>1, <3>1 DEF Shape
  <2>3. \A i \in 2 .. n :
           /\ h[i].start - 1 \in Openers(prog)
           /\ Enclosing(prog, c, h[i].cmd) = Enclosing(prog, c, h[i].start - 1) \cup {h[i].start - 1}
    <3>1. \A i \in 2 .. n : i \in 1 .. n /\ i \in 2 .. Depth
      BY <1>1, <1>4
    <3> QED BY <1>2, <1>7, <2>1, <3>1 DEF Shape
  <2>4. ASSUME NEW i \in 1 .. n, NEW j \in h[i].loopOf + 1 .. i, h[j].kind = "func"
        PROVE  InFunction(prog, c, h[i].cmd)
    <3>1. j \in 1 .. n /\ j \in frames[i].loopOf + 1 .. i
      BY <1>4, <1>6, <1>7, <2>4
    <3>2. InFunction(prog, c, frames[i].cmd)
      BY <1>2, <1>4, <1>7, <2>4, <3>1 DEF Shape
    <3> QED BY <2>1, <3>2 DEF InFunction
  <2> QED BY <2>2, <2>3, <2>4 DEF Shape
<1>14. Spread(h, n)
  BY <1>4, <1>7 DEF FlowOf, Spread
<1>15. ASSUME label = NoName PROVE Straight(prog, c, h, n)
  <2>0. Straight(prog, c, g, Depth)
    BY <1>15 DEF FlowOf
  <2>1. ASSUME NEW i \in 1 .. n, h[i].cnt PROVE Pending(prog, c, h, n, i)
    <3>1. Pending(prog, c, g, Depth, i)
      BY <1>4, <1>7, <2>0, <2>1 DEF Straight
    <3>2. frames[Depth].loopOf = i /\ Quiet(prog, c, Top.cmd)
      BY <1>1, <3>1 DEF Pending, InPlace
    <3>3. h[n].loopOf = i /\ Top.kind # "loop"
      BY <1>4, <1>6, <1>7, <3>2
    <3>4. Quiet(prog, c, h[n].cmd)
      <4>1. CASE Top.kind = "func"
        <5>1. Depth \in i + 1 .. Depth /\ g[Depth].kind = "func"
          BY <1>1, <1>4, <4>1 DEF InPlace
        <5>2. Quiet(prog, c, frames[n].cmd)
          BY <1>10, <3>1, <4>1, <5>1 DEF Pending, CallsQuiet
        <5> QED BY <1>2, <1>10, <1>11, <4>1, <5>2, QuietNext DEF CloseLoop
      <4>2. CASE Top.kind # "func"
        <5>1. prog[Top.cmd].type \in {"If_Return", "EndIf"}
          BY <1>3, <1>5, <3>3, <4>2 DEF EndOf, Branch, OpenLoop
        <5> QED BY <1>2, <1>11, <3>2, <4>2, <5>1, QuietNext DEF CloseLoop
      <4> QED BY <4>1, <4>2
    <3>5. \A f \in i + 1 .. n : h[f].kind = "func" => CallsQuiet(prog, c)
      <4>1. \A f \in i + 1 .. n : f \in 1 .. n /\ f \in i + 1 .. Depth
        BY <1>1, <1>4
      <4> QED BY <1>7, <3>1, <4>1 DEF Pending
    <3>6. \A j \in 1 .. i - 1 : h[j].nop = 0
      <4>1. \A j \in 1 .. i - 1 : j \in 1 .. n
        BY <1>1, <1>4
      <4> QED BY <1>7, <3>1, <4>1 DEF Pending
    <3> QED BY <3>3, <3>4, <3>5, <3>6 DEF Pending
  <2>2. \A i \in 1 .. n : ~h[i].looped /\ (h[i].nop = -1 => h[h[i].loopOf].cnt)
    BY <1>4, <1>7, <1>9, <2>0 DEF Straight
  <2>3. \A i, j \in 1 .. n : i <= j /\ h[i].brk => h[h[j].loopOf].brk
    BY <1>4, <1>7, <1>9, <2>0 DEF Straight
  <2>4. h[1].nop # 0 => h[1].brk \/ h[1].cnt
    <3>1. 1 \in 1 .. n
      BY <1>4
    <3> QED BY <1>7, <2>0, <3>1 DEF Straight
  <2> QED BY <2>1, <2>2, <2>3, <2>4 DEF Straight
<1>16. ASSUME label # NoName PROVE Search(prog, c, h, n, label)
  <2>1. Search(prog, c, g, Depth, label)
    BY <1>16 DEF FlowOf
  <2>2. Top.kind # "func"
    <3>1. o \in DOMAIN prog
      BY <1>3 DEF Openers
    <3> QED BY <1>5, <2>1, <3>1 DEF Search
  <2>3. ASSUME NEW l \in Labels(prog, label)
        PROVE  \E d \in 1 .. n : Awaits(prog, c, h, n, l, d)
    <3>1. PICK d \in 1 .. Depth : Awaits(prog, c, g, Depth, l, d)
      BY <2>1, <2>3 DEF Search
    <3>2. l \in DOMAIN prog /\ l \in Nat /\ prog[l].type = "Label" /\ l # Top.cmd /\ l # o
      <4>1. l \in DOMAIN prog /\ prog[l].type = "Label"
        BY <2>3 DEF Labels
      <4> QED BY <1>2, <1>3, <4>1, NestedFacts DEF Openers, Ends, OpenLoop, CloseLoop, Branch
    <3>3. o \in Nat /\ o < Top.cmd
      BY <1>2, <1>3, NestedFacts
    <3>4. d # Depth
      <4> SUFFICES ASSUME d = Depth PROVE FALSE
        OBVIOUS
      <4>1. Top.cmd <= l
        BY <1>1, <1>5, <1>16, <3>1 DEF Awaits, InPlace
      <4>2. o \in Enclosing(prog, c, l)
        BY <1>1, <1>3, <3>1 DEF Awaits
      <4>3. l <= Top.cmd
        BY <1>3, <4>2 DEF Enclosing
      <4> QED BY <1>1, <3>2, <4>1, <4>3
    <3>5. d \in 1 .. n
      BY <1>1, <3>4 DEF n
    <3>6. Enclosing(prog, c, l) = Enclosing(prog, c, h[d].cmd)
      BY <1>7, <1>8, <1>12, <3>1, <3>5 DEF Awaits
    <3>7. h[d].cmd <= l \/ (h[d].kind \in {"top", "loop"} /\ ~h[d].looped)
      <4>1. CASE d # n
        BY <1>7, <1>8, <3>1, <3>5, <4>1 DEF Awaits
      <4>2. CASE d = n /\ ~(g[d].cmd <= l)
        BY <1>7, <3>1, <3>5, <4>2 DEF Awaits
      <4>3. CASE d = n /\ g[d].cmd <= l
        <5>1. o < l
          BY <1>5, <1>7, <2>2, <3>2, <3>3, <3>5, <4>3
        <5>2. ~(l <= Top.cmd)
          <6> SUFFICES ASSUME l <= Top.cmd PROVE FALSE
            OBVIOUS
          <6>1. o \in Enclosing(prog, c, l)
            BY <1>3, <5>1 DEF Enclosing
          <6>2. o \in Enclosing(prog, c, o)
            BY <1>5, <1>7, <2>2, <3>1, <3>5, <4>3, <6>1 DEF Awaits
          <6> QED BY <3>3, <6>2 DEF Enclosing
        <5> QED BY <1>1, <1>11, <2>2, <3>2, <4>3, <5>2
      <4> QED BY <4>1, <4>2, <4>3
    <3>8. \A i \in 1 .. d - 1 : h[i].nop = 0 /\ ~h[i].looped
      <4>1. \A i \in 1 .. d - 1 : i \in 1 .. n
        BY <1>4, <3>5
      <4> QED BY <1>7, <3>1, <4>1 DEF Awaits
    <3>9. \A i \in 1 .. n : h[i].brk \/ h[i].cnt => i >= h[d].loopOf
      BY <1>4, <1>7, <3>1, <3>5 DEF Awaits
    <3> QED BY <3>5, <3>6, <3>7, <3>8, <3>9 DEF Awaits
  <2> QED BY <2>1, <2>3 DEF Search
<1> QED BY <1>13, <1>14, <1>15, <1>16 DEF FlowOf, n

-----------------------------------------------------------------------------
(* The stacks that the actions make *)

\* The same locals but for those of the If chain and the position.
SameLocals(g, h) ==
  \A i \in 1 .. Depth : /\ h[i].nop = g[i].nop /\ h[i].brk = g[i].brk
                        /\ h[i].cnt = g[i].cnt /\ h[i].looped = g[i].looped

\* They stay when the position or a local of the If chain is set.
LEMMA LocalsSet ==
  ASSUME NEW g \in Stacks(Depth), NEW o \in 1 .. Depth, NEW v
  PROVE  /\ SameLocals(g, [g EXCEPT ![o].cmd = v]) /\ [g EXCEPT ![o].cmd = v][o].cmd = v
         /\ SameLocals(g, [g EXCEPT ![o].ifOf = v])
         /\ SameLocals(g, [g EXCEPT ![o].ifDone = v])
BY DEF SameLocals, Stacks, Frame

\* Setting nop of one frame leaves the rest alone.
LEMMA NopSet ==
  ASSUME NEW g \in Stacks(Depth), NEW o \in 1 .. Depth, NEW v
  PROVE  LET h == [g EXCEPT ![o].nop = v]
         IN  /\ h[o].nop = v
             /\ \A i \in 1 .. Depth : /\ h[i].brk = g[i].brk /\ h[i].cnt = g[i].cnt
                                      /\ h[i].looped = g[i].looped /\ h[i].cmd = g[i].cmd
                                      /\ i # o => h[i].nop = g[i].nop
BY DEF Stacks, Frame

\* The next command, and going back to the start.
LEMMA Moved ==
  ASSUME StackInv, st = "run", NEW g, InPlace(g)
  PROVE  /\ InPlace(Advance(g)) /\ SameLocals(g, Advance(g)) /\ Advance(g)[Depth].cmd = g[Depth].cmd + 1
         /\ InPlace(Restart(g)) /\ SameLocals(g, Restart(g)) /\ Restart(g)[Depth].cmd = Top.start
<1>1. Depth \in 1 .. Depth /\ g \in Stacks(Depth) /\ TypeOK /\ Depth >= 1
  BY RunType DEF InPlace
<1>2. InPlace(Advance(g)) /\ InPlace(Restart(g))
  BY <1>1, AdvanceInPlace, RestartInPlace
<1> QED BY <1>1, <1>2, LocalsSet DEF Advance, Restart

\* A turn from the stack as it is, and from the one that has stored nop.
LEMMA SettledTurn ==
  ASSUME StackInv, st = "run", NEW c, FlowOf(prog, c, frames, Depth, label)
  PROVE  Turn(c, frames) /\ Turn(c, Settled) /\ Settled[Depth].nop = Nop(Depth) /\ Settled[Depth].cmd = Top.cmd
<1>1. /\ Depth \in Nat /\ Depth \in 1 .. Depth /\ Top = frames[Depth] /\ frames \in Stacks(Depth)
      /\ Top.loopOf \in 1 .. Depth
  BY RunType
<1>2. InPlace(frames) /\ InPlace(Settled) /\ Settled[Depth].cmd = Top.cmd
  BY SettledCmd
<1>3. Goes(c, Top.cmd)
  BY DEF Goes
<1>4. /\ Settled[Depth].nop = Nop(Depth)
      /\ \A i \in 1 .. Depth : /\ Settled[i].brk = frames[i].brk /\ Settled[i].cnt = frames[i].cnt
                               /\ Settled[i].looped = frames[i].looped
  BY <1>1, NopSet DEF Settled
<1>5. Top.nop # 0 => Nop(Depth) # 0
  BY <1>1 DEF Nop
<1>6. ASSUME label = NoName
      PROVE  /\ Nop(Depth) = -1 => frames[Top.loopOf].cnt
             /\ frames[Depth].nop = -1 => frames[Top.loopOf].cnt
             /\ Depth = 1 /\ Nop(Depth) # 0 => frames[1].brk \/ frames[1].cnt
             /\ Depth = 1 /\ frames[Depth].nop # 0 => frames[1].brk \/ frames[1].cnt
  <2>1. Straight(prog, c, frames, Depth)
    BY <1>6 DEF FlowOf
  <2>2. Depth = 1 => Top.loopOf = 1
    BY <1>1
  <2> QED BY <1>1, <1>6, <2>1, <2>2 DEF Straight, Nop
<1> QED BY <1>1, <1>2, <1>3, <1>4, <1>5, <1>6 DEF Turn

\* A turn with the same locals, elsewhere.
LEMMA TurnMoved ==
  ASSUME NEW c, NEW g, Turn(c, g), NEW h, InPlace(h), SameLocals(g, h), Goes(c, h[Depth].cmd),
         Depth \in 1 .. Depth
  PROVE  Turn(c, h)
BY DEF Turn, SameLocals

\* The next command, when this one opens and ends no block and is not the label
\* that is searched.
LEMMA GoesNext ==
  ASSUME StackInv, st = "run", NEW c, Nested(prog, c), Top.cmd \in DOMAIN prog,
         prog[Top.cmd].type \notin Ends \cup OpenLoop \cup Branch \cup {"StartFunction"},
         label # NoName => Top.cmd \notin Labels(prog, label)
  PROVE  Goes(c, Top.cmd + 1)
<1>1. prog \in Seq(Command) /\ Top.cmd \in Nat /\ DOMAIN prog = 1 .. Len(prog) /\ Len(prog) \in Nat
  BY ProgType, RunType
<1>2. Enclosing(prog, c, Top.cmd + 1) = Enclosing(prog, c, Top.cmd)
  BY <1>1, StaysInBlocks DEF Openers
<1>3. Quiet(prog, c, Top.cmd) => Quiet(prog, c, Top.cmd + 1)
  BY <1>1, QuietNext DEF Ends
<1>4. \A l \in Labels(prog, label) : label # NoName /\ Top.cmd <= l => Top.cmd + 1 <= l
  <2>1. \A l \in Labels(prog, label) : l \in Nat
    BY <1>1 DEF Labels
  <2> QED BY <1>1, <2>1
<1> QED BY <1>2, <1>3, <1>4 DEF Goes

\* Behind the body of a function, when no label is searched.
LEMMA GoesBehindFunction ==
  ASSUME StackInv, st = "run", NEW c, Nested(prog, c), Top.cmd \in DOMAIN prog,
         prog[Top.cmd].type = "StartFunction", label = NoName,
         NEW e \in DOMAIN prog, e > Top.cmd, prog[e].type = "EndFunction",
         \A q \in DOMAIN prog : q > Top.cmd /\ prog[q].type = "StartFunction" => e <= q
  PROVE  Goes(c, e + 1)
<1>1. prog \in Seq(Command) /\ Top.cmd \in Nat /\ DOMAIN prog = 1 .. Len(prog) /\ Len(prog) \in Nat
  BY ProgType, RunType
<1>2. c[Top.cmd] = e /\ Top.cmd \in Openers(prog) /\ Enclosing(prog, c, Top.cmd) = {}
  BY <1>1, FunctionBlock
<1>3. Enclosing(prog, c, e + 1) = Enclosing(prog, c, Top.cmd)
  BY <1>1, <1>2, ClosesBlock
<1>4. Quiet(prog, c, Top.cmd) => Quiet(prog, c, e + 1)
  <2>1. e + 1 \in Top.cmd .. Len(prog) + 1
    BY <1>1
  <2> QED BY <1>1, <1>2, <2>1, QuietNext
<1> QED BY <1>3, <1>4 DEF Goes

-----------------------------------------------------------------------------
(* The steps *)

\* The invariant behind ContinueSkipsRest, JumpLandsForGood and JumpFindsLabel,
\* for a script whose blocks end where close says.
Flow(close) ==
  /\ st = "run" => FlowOf(prog, close, frames, Depth, label)
  /\ st = "unwind" /\ label # NoName => Labels(prog, label) = {}

\* It survives the steps that end blocks,
LEMMA FlowLeave ==
  ASSUME StackInv, st = "run", NEW c, Nested(prog, c), FlowOf(prog, c, frames, Depth, label),
         Top.cmd \in DOMAIN prog, prog[Top.cmd].type \in Ends,
         NEW g, InPlace(g), g[Depth].cmd = Top.cmd, FlowOf(prog, c, g, Depth, label),
         label # NoName /\ Top.kind = "loop" => g[Depth].looped,
         Leave(g)
  PROVE  st' = "run" /\ Depth' = Depth - 1 /\ FlowOf(prog, c, frames', Depth - 1, label)
<1>1. Depth > 1 /\ Depth \in Nat /\ TypeOK
  <2>1. Depth >= 2
    BY Closing DEF FlowOf
  <2> QED BY <2>1, RunType
<1>2. Popped(g, frames') /\ st' = st
  BY <1>1, LeavePopped
<1>3. Depth' = Depth - 1
  BY <1>1, <1>2, StackIsSeq DEF Popped, Depth
<1>4. FlowOf(prog, c, frames', Depth - 1, label)
  BY <1>1, <1>2, CallerCmd, FlowPopped
<1> QED BY <1>2, <1>3, <1>4

\* and those that open them.
LEMMA FlowEnter ==
  ASSUME StackInv, st = "run", NEW c, Nested(prog, c),
         NEW g, InPlace(g), g[Depth].cmd = Top.cmd, FlowOf(prog, c, g, Depth, label),
         NEW kind \in Kind, NEW p \in Nat, NEW k \in {-1, 0, 1}, p - 1 \in Openers(prog),
         g[Depth].nop # 0 => k # 0,
         label = NoName /\ k = -1 => g[Top.loopOf].cnt,
         kind = "loop" => p - 1 = Top.cmd /\ prog[p - 1].type \in OpenLoop,
         kind = "func" => /\ prog[p - 1].type = "StartFunction" /\ k = 0
                          /\ \A i \in 1 .. Depth : ~g[i].cnt,
         kind \notin {"loop", "func"} => p - 1 = Top.cmd /\ prog[p - 1].type \in Branch,
         Enter(g, kind, p, k)
  PROVE  st' = "exit" \/ (Depth' = Depth + 1 /\ FlowOf(prog, c, frames', Depth + 1, label))
<1>1. Depth \in Nat /\ Depth >= 1 /\ TypeOK /\ g \in Stacks(Depth)
  BY RunType, StackType DEF InPlace
<1>2. CASE Depth = MaxDepth
  BY <1>2 DEF Enter
<1>3. CASE Depth # MaxDepth
  <2> DEFINE f == NewFrame(g, kind, p, k)
  <2>1. frames' = Append(g, f) /\ f \in Frame
    BY <1>1, <1>3, NewFrameType DEF Enter
  <2>2. Depth' = Depth + 1
    BY <1>1, <2>1, PushType DEF Depth
  <2>3. FlowOf(prog, c, Append(g, f), Depth + 1, label)
    BY <2>1, FlowPush
  <2> QED BY <2>1, <2>2, <2>3
<1> QED BY <1>2, <1>3

\* Every step of the interpreter preserves Flow.
LEMMA FlowStep ==
  ASSUME StackInv, NEW c, Orderly(prog, c), Flow(c), Next
  PROVE  Flow(c)'
<1>0. prog' = prog
  BY DEF Next, Terminated, vars
<1> SUFFICES /\ st' = "run" => FlowOf(prog, c, frames', Depth', label')
             /\ st' = "unwind" /\ label' # NoName => Labels(prog, label') = {}
  BY <1>0 DEF Flow
<1>1. CASE Terminated
  BY <1>1 DEF Terminated, vars, Flow, Depth
<1>2. CASE Unwind
  BY <1>2 DEF Unwind, Flow
<1>3. CASE st = "run" /\ Step
  <2> USE <1>3
  <2> DEFINE Kept == FlowOf(prog, c, frames', Depth', label')
             Done == /\ st' = "run" => Kept
                     /\ st' = "unwind" /\ label' # NoName => Labels(prog, label') = {}
  <2>1. /\ FlowOf(prog, c, frames, Depth, label) /\ Nested(prog, c) /\ prog \in Seq(Command)
        /\ InPlace(frames) /\ InPlace(Settled) /\ Settled[Depth].cmd = Top.cmd
        /\ Turn(c, frames) /\ Turn(c, Settled) /\ Settled[Depth].nop = Nop(Depth)
        /\ FlowOf(prog, c, Settled, Depth, label)
    BY ProgType, SettledCmd, SettledTurn, FlowTurn DEF Flow, Orderly
  <2>2. /\ Depth \in Nat /\ Depth \in 1 .. Depth /\ Top = frames[Depth] /\ frames \in Stacks(Depth)
        /\ Top.loopOf \in 1 .. Depth /\ Top.ifOf \in 1 .. Depth /\ Depth >= 1 /\ TypeOK
        /\ Top.cmd \in Nat /\ Top.start \in Nat /\ Top.cmd >= Top.start /\ Nop(Depth) \in {-1, 0, 1}
    BY RunType
  <2> SUFFICES Done
    OBVIOUS
  <2>3. ASSUME st' = "run", InPlace(frames'), FlowOf(prog, c, frames', Depth, label') PROVE Done
    <3>1. Depth' = Depth
      BY <2>2, <2>3, StackIsSeq DEF InPlace, Depth
    <3> QED BY <2>3, <3>1
  <2>4. ASSUME st' = "run", Turn(c, frames'), label' = label PROVE Done
    BY <2>1, <2>3, <2>4, FlowTurn DEF Turn
  <2>5. ~Skipping(Depth) => label = NoName
    BY DEF Skipping, Nop
  <2>6. ASSUME Fail, label = NoName PROVE Done
    BY <2>6 DEF Fail
  <2>7. ASSUME Exit PROVE Done
    BY <2>7 DEF Exit
  <2>8. ASSUME NEW g, InPlace(g), g[Depth].cmd = Top.cmd, FlowOf(prog, c, g, Depth, label), Leave(g),
               Top.cmd \in DOMAIN prog, prog[Top.cmd].type \in Ends, label' = label,
               label # NoName /\ Top.kind = "loop" => g[Depth].looped
        PROVE  Done
    BY <2>1, <2>8, FlowLeave
  <2>9. ASSUME NEW g, InPlace(g), g[Depth].cmd = Top.cmd, FlowOf(prog, c, g, Depth, label), label' = label,
               NEW kind \in Kind, NEW p \in Nat, NEW k \in {-1, 0, 1}, p - 1 \in Openers(prog),
               g[Depth].nop # 0 => k # 0,
               label = NoName /\ k = -1 => g[Top.loopOf].cnt,
               kind = "loop" => p - 1 = Top.cmd /\ prog[p - 1].type \in OpenLoop,
               kind = "func" => /\ prog[p - 1].type = "StartFunction" /\ k = 0
                                /\ \A i \in 1 .. Depth : ~g[i].cnt,
               kind \notin {"loop", "func"} => p - 1 = Top.cmd /\ prog[p - 1].type \in Branch,
               Enter(g, kind, p, k)
        PROVE  Done
    <3>1. st' = "exit" \/ (st' = "run" /\ Depth' = Depth + 1 /\ FlowOf(prog, c, frames', Depth + 1, label))
      <4>1. st' = "exit" \/ (Depth' = Depth + 1 /\ FlowOf(prog, c, frames', Depth + 1, label))
        BY <2>1, <2>9, FlowEnter
      <4>2. st' = "exit" \/ st' = "run"
        BY <2>9 DEF Enter
      <4> QED BY <4>1, <4>2
    <3> QED BY <2>9, <3>1
  \* The next command, from the stack that has stored nop.
  <2>10. ASSUME Top.cmd \in DOMAIN prog, frames' = Advance(Settled), label' = label, st' = "run",
                prog[Top.cmd].type \notin Ends \cup OpenLoop \cup Branch \cup {"StartFunction"},
                label # NoName => Top.cmd \notin Labels(prog, label)
         PROVE  Done
    <3>1. Goes(c, Top.cmd + 1)
      BY <2>1, <2>10, GoesNext
    <3>2. InPlace(frames') /\ SameLocals(Settled, frames') /\ frames'[Depth].cmd = Top.cmd + 1
      BY <2>1, <2>10, Moved
    <3> QED BY <2>1, <2>2, <2>4, <2>10, <3>1, <3>2, TurnMoved
  <2> HIDE DEF Kept, Done
  <2>11. CASE Skip
    <3>1. /\ Top.cmd \in DOMAIN prog /\ prog[Top.cmd].type \in {"Stmt", "ForTo", "CleanExit", "CallFunction"} \cup Jump
          /\ frames' = Advance(Settled) /\ label' = label /\ st' = "run"
      BY <2>11, AtCommand DEF Skip, Jump
    <3> QED BY <2>10, <3>1 DEF Ends, OpenLoop, CloseLoop, Branch, Jump, Labels
  <2>12. CASE Execute
    <3>1. CASE frames' = Advance(frames) /\ label' = label /\ st' = "run"
      <4>1. Top.cmd \in DOMAIN prog /\ prog[Top.cmd].type = "Stmt"
        BY <2>12, AtCommand DEF Execute
      <4>2. Goes(c, Top.cmd + 1)
        BY <2>1, <4>1, GoesNext DEF Ends, OpenLoop, CloseLoop, Branch, Labels
      <4>3. InPlace(frames') /\ SameLocals(frames, frames') /\ frames'[Depth].cmd = Top.cmd + 1
        BY <2>1, <2>2, <3>1, Moved
      <4> QED BY <2>1, <2>2, <2>4, <3>1, <4>2, <4>3, TurnMoved
    <3> QED BY <2>5, <2>6, <2>12, <3>1 DEF Execute
  <2>13. CASE CleanExit
    BY <2>5, <2>6, <2>13 DEF CleanExit
  <2>14. CASE ForTo
    <3>1. PICK k \in {0, 1} : frames' = Advance([frames EXCEPT ![Depth].nop = k])
      BY <2>14 DEF ForTo
    <3> DEFINE g == [frames EXCEPT ![Depth].nop = k]
    <3>2. Top.cmd \in DOMAIN prog /\ prog[Top.cmd].type = "ForTo" /\ ~Skipping(Depth)
      BY <2>14, AtCommand DEF ForTo
    <3>3. InPlace(g)
      BY <2>1, <2>2, SetTopInPlace
    <3>4. g[Depth].nop = k /\ \A i \in 1 .. Depth : /\ g[i].brk = frames[i].brk /\ g[i].looped = frames[i].looped
                                                    /\ g[i].cnt = frames[i].cnt /\ g[i].cmd = frames[i].cmd
      BY <2>2 DEF Stacks, Frame
    <3>5. Top.nop = 0
      BY <2>2, <3>2 DEF Skipping, Nop
    <3>6. Depth # 1
      <4>1. Top.cmd - 1 \in Openers(prog)
        BY <2>1, <3>2 DEF Nested
      <4>2. Top.cmd \in Nat /\ c[Top.cmd - 1] \in Nat /\ Top.cmd - 1 < c[Top.cmd - 1]
        BY <2>1, <2>2, <4>1, NestedFacts
      <4>3. Top.cmd - 1 \in Enclosing(prog, c, Top.cmd)
        BY <4>1, <4>2 DEF Enclosing
      <4> QED BY <2>1, <2>2, <4>3 DEF FlowOf, Shape
    <3>7. Goes(c, Top.cmd + 1)
      BY <2>1, <3>2, GoesNext DEF Ends, OpenLoop, CloseLoop, Branch, Labels
    <3>8. Turn(c, g)
      <4> HIDE DEF g
      <4>1. Goes(c, g[Depth].cmd)
        BY <2>2, <3>4 DEF Goes
      <4> QED BY <3>3, <3>4, <3>5, <3>6, <4>1 DEF Turn
    <3>8a. frames' = Advance(g)
      BY <3>1
    <3> HIDE DEF g
    <3>9. InPlace(frames') /\ SameLocals(g, frames') /\ frames'[Depth].cmd = Top.cmd + 1
      BY <2>2, <3>3, <3>4, <3>8a, Moved
    <3>10. Turn(c, frames') /\ label' = label /\ st' = "run"
      BY <2>2, <2>14, <3>7, <3>8, <3>9, TurnMoved DEF ForTo
    <3> QED BY <2>4, <3>10
  <2>15. CASE BreakOrContinue
    <3> DEFINE o == Top.loopOf
               b == [frames EXCEPT ![o].brk = TRUE]
               t == [frames EXCEPT ![o].cnt = TRUE]
    <3>1. InPlace(b) /\ InPlace(t)
      BY <2>1, <2>2, SetInPlace
    <3>2. /\ b[o].brk = TRUE
          /\ \A i \in 1 .. Depth : /\ b[i].nop = frames[i].nop /\ b[i].looped = frames[i].looped
                                   /\ b[i].cnt = frames[i].cnt /\ b[i].cmd = frames[i].cmd
                                   /\ i # o => b[i].brk = frames[i].brk
      BY <2>2 DEF Stacks, Frame
    <3>3. /\ t[o].cnt = TRUE
          /\ \A i \in 1 .. Depth : /\ t[i].nop = frames[i].nop /\ t[i].looped = frames[i].looped
                                   /\ t[i].brk = frames[i].brk /\ t[i].cmd = frames[i].cmd
                                   /\ i # o => t[i].cnt = frames[i].cnt
      BY <2>2 DEF Stacks, Frame
    <3>4. At(Jump) /\ ~Skipping(Depth) /\ label' = NameAt(Top.cmd) /\ st' = "run"
      BY <2>15 DEF BreakOrContinue
    <3>5. CASE Here = "Break"
      <4>1. frames' = Advance(b)
        BY <2>15, <3>5 DEF BreakOrContinue
      <4> HIDE DEF b, o
      <4>2. InPlace(frames') /\ SameLocals(b, frames') /\ frames'[Depth].cmd = Top.cmd + 1
        BY <2>2, <3>1, <3>2, <4>1, Moved
      <4>3. FlowOf(prog, c, frames', Depth, NameAt(Top.cmd))
        <5>1. \A i \in 1 .. Depth : /\ frames'[i].nop = frames[i].nop /\ frames'[i].looped = frames[i].looped
                                    /\ i # Top.loopOf => /\ frames'[i].brk = frames[i].brk
                                                         /\ frames'[i].cnt = frames[i].cnt
          BY <3>2, <4>2 DEF SameLocals, o
        <5>2. frames'[Top.loopOf].cnt = frames[Top.loopOf].cnt /\ frames'[Top.loopOf].brk
          BY <2>2, <3>2, <4>2 DEF SameLocals, o
        <5> QED BY <2>1, <3>4, <3>5, <4>2, <5>1, <5>2, FlowRaised
      <4> QED BY <2>3, <3>4, <4>2, <4>3
    <3>6. CASE Here # "Break"
      <4>1. frames' = Advance(t)
        BY <2>15, <3>6 DEF BreakOrContinue
      <4> HIDE DEF t, o
      <4>2. InPlace(frames') /\ SameLocals(t, frames') /\ frames'[Depth].cmd = Top.cmd + 1
        BY <2>2, <3>1, <3>3, <4>1, Moved
      <4>3. FlowOf(prog, c, frames', Depth, NameAt(Top.cmd))
        <5>1. \A i \in 1 .. Depth : /\ frames'[i].nop = frames[i].nop /\ frames'[i].looped = frames[i].looped
                                    /\ i # Top.loopOf => /\ frames'[i].brk = frames[i].brk
                                                         /\ frames'[i].cnt = frames[i].cnt
          BY <3>3, <4>2 DEF SameLocals, o
        <5>2. frames'[Top.loopOf].brk = frames[Top.loopOf].brk
          BY <2>2, <3>3, <4>2 DEF SameLocals, o
        <5> QED BY <2>1, <3>4, <3>6, <4>2, <5>1, <5>2, FlowRaised
      <4> QED BY <2>3, <3>4, <4>2, <4>3
    <3> QED BY <3>5, <3>6
  <2>16. CASE OpenLoopFrame
    <3>1. Top.cmd \in DOMAIN prog /\ prog[Top.cmd].type \in OpenLoop
      BY <2>16, AtCommand DEF OpenLoopFrame, OpenLoop
    <3>2. Top.cmd \in Openers(prog) /\ (Top.cmd + 1) - 1 = Top.cmd /\ Top.cmd + 1 \in Nat
      BY <2>2, <3>1 DEF Openers
    <3>3. label = NoName /\ Nop(Depth) = -1 => Settled[Top.loopOf].cnt
      BY <2>1, <2>2 DEF Turn
    <3>4. Enter(Settled, "loop", Top.cmd + 1, Nop(Depth)) /\ label' = label /\ "loop" \in Kind
      BY <2>16 DEF OpenLoopFrame, Kind
    <3> QED BY <2>1, <2>2, <2>9, <3>1, <3>2, <3>3, <3>4
  <2>17. CASE ScanLoopAgain
    <3> DEFINE g == [Settled EXCEPT ![Depth].looped = TRUE]
    <3>1. Top.cmd \in DOMAIN prog /\ prog[Top.cmd].type \in Ends
      BY <2>17, AtCommand DEF ScanLoopAgain, CloseLoop, Ends
    <3>2. InPlace(g)
      BY <2>1, <2>2, SetInPlace
    <3>3. \A i \in 1 .. Depth : /\ g[i].nop = Settled[i].nop /\ g[i].brk = Settled[i].brk /\ g[i].cnt = Settled[i].cnt
                                /\ i # Depth => g[i].looped = Settled[i].looped
      <4>1. Settled \in Stacks(Depth)
        BY <2>1 DEF InPlace
      <4> QED BY <2>2, <4>1 DEF Stacks, Frame
    <3>4. frames' = Restart(g) /\ label' = label /\ st' = "run" /\ label # NoName
      BY <2>17 DEF ScanLoopAgain
    <3> HIDE DEF g
    <3>5. InPlace(frames') /\ SameLocals(g, frames') /\ frames'[Depth].cmd = Top.start
      BY <3>2, <3>4, Moved
    <3>6. /\ Top.start - 1 \in Openers(prog)
          /\ Enclosing(prog, c, Top.start) = Enclosing(prog, c, Top.cmd)
          /\ Top.start - 1 \in Enclosing(prog, c, Top.cmd)
      BY <2>1, <3>1, Closing DEF FlowOf
    <3>7. ASSUME NEW l \in Labels(prog, label), Enclosing(prog, c, l) = Enclosing(prog, c, Top.cmd)
          PROVE  Top.start <= l
      <4>1. Top.start - 1 < l /\ l \in Nat
        BY <2>1, <3>6, <3>7, LenProperties DEF Enclosing, Labels
      <4> QED BY <2>2, <4>1
    <3>8. /\ \A i \in 1 .. Depth : frames'[i].brk = frames[i].brk /\ frames'[i].cnt = frames[i].cnt
          /\ \A i \in 1 .. Depth - 1 : frames'[i].looped = frames[i].looped
          /\ Top.nop # 0 => frames'[Depth].nop # 0
      <4>1. \A i \in 1 .. Depth - 1 : i \in 1 .. Depth /\ i # Depth
        BY <2>2
      <4>2. \A i \in 1 .. Depth : /\ Settled[i].brk = frames[i].brk /\ Settled[i].cnt = frames[i].cnt
                                   /\ Settled[i].looped = frames[i].looped
        BY <2>1 DEF Turn
      <4>3. Top.nop # 0 => Settled[Depth].nop # 0
        BY <2>1, <2>2 DEF Turn
      <4> QED BY <2>2, <3>3, <3>5, <4>1, <4>2, <4>3 DEF SameLocals
    <3>9. FlowOf(prog, c, frames', Depth, label)
      BY <2>1, <3>4, <3>5, <3>6, <3>7, <3>8, FlowRescan
    <3> QED BY <2>3, <3>4, <3>5, <3>9
  <2>18. CASE LeaveLoop
    <3>1. Top.cmd \in DOMAIN prog /\ prog[Top.cmd].type \in Ends
      BY <2>18, AtCommand DEF LeaveLoop, CloseLoop, Ends
    <3>2. label # NoName => Settled[Depth].looped
      BY <2>1, <2>2, <2>18 DEF LeaveLoop, Turn
    <3> QED BY <2>1, <2>8, <2>18, <3>1, <3>2 DEF LeaveLoop
  <2>19. CASE NextTurn
    <3> DEFINE o  == Top.loopOf
               f0 == [frames EXCEPT ![Depth].nop = 0]
               v  == IF Skipping(Depth) THEN FALSE ELSE f0[o].cnt
               fs == [f0 EXCEPT ![o].cnt = v]
    <3>1. /\ Top.cmd \in DOMAIN prog /\ prog[Top.cmd].type \in Ends /\ label = NoName /\ label' = label
          /\ ~Skipping(Depth) \/ (Nop(Depth) = -1 /\ Top.kind = "loop")
      <4>1. Top.cmd \in DOMAIN prog /\ prog[Top.cmd].type \in Ends
        BY <2>19, AtCommand DEF NextTurn, CloseLoop, Ends
      <4> QED BY <2>19, <4>1 DEF NextTurn
    <3>2. InPlace(f0)
      BY <2>1, <2>2, SetTopInPlace
    <3>3. f0 \in Stacks(Depth)
      BY <3>2 DEF InPlace
    <3>4. f0[Depth].nop = 0 /\ \A i \in 1 .. Depth : /\ f0[i].brk = frames[i].brk /\ f0[i].cmd = frames[i].cmd
                                                     /\ f0[i].cnt = frames[i].cnt /\ f0[i].looped = frames[i].looped
      BY <2>2 DEF Stacks, Frame
    <3>5. v \in BOOLEAN /\ (v => f0[o].cnt)
      <4>1. f0[o] \in Frame
        BY <2>2, <3>3 DEF Stacks
      <4> HIDE DEF f0
      <4> QED BY <4>1 DEF Frame
    <3>6. InPlace(fs)
      BY <2>2, <3>2, <3>5, SetInPlace
    <3>7. /\ fs[o].cnt = v
          /\ \A i \in 1 .. Depth : /\ fs[i].nop = f0[i].nop /\ fs[i].brk = f0[i].brk
                                   /\ fs[i].cmd = f0[i].cmd /\ fs[i].looped = f0[i].looped
                                   /\ i # o => fs[i].cnt = f0[i].cnt
      <4> HIDE DEF f0, v
      <4> QED BY <2>2, <3>3 DEF Stacks, Frame
    <3>8. /\ fs[Depth].nop = 0 /\ fs[Depth].cmd = Top.cmd
          /\ Skipping(Depth) => ~fs[o].cnt
          /\ \A i \in 1 .. Depth : /\ fs[i].brk = frames[i].brk /\ fs[i].looped = frames[i].looped
                                   /\ fs[i].cnt => frames[i].cnt
      <4>1. Skipping(Depth) => v = FALSE
        OBVIOUS
      <4> HIDE DEF fs, f0, v
      <4> QED BY <2>2, <3>4, <3>5, <3>7, <4>1
    <3>9. \/ frames' = Restart(fs) /\ st' = "run"
          \/ Leave(fs)
      BY <2>19 DEF NextTurn
    <3> HIDE DEF fs, f0, v
    <3>10. CASE frames' = Restart(fs) /\ st' = "run"
      <4>1. InPlace(frames') /\ SameLocals(fs, frames') /\ frames'[Depth].cmd = Top.start
        BY <3>6, <3>10, Moved
      <4>2. Enclosing(prog, c, Top.start) = Enclosing(prog, c, Top.cmd)
        BY <2>1, <3>1, Closing DEF FlowOf
      <4>3. /\ \A i \in 1 .. Depth : /\ frames'[i].brk = frames[i].brk /\ frames'[i].looped = frames[i].looped
                                     /\ frames'[i].cnt => frames[i].cnt
            /\ frames'[Depth].nop = 0 /\ (Skipping(Depth) => ~frames'[Top.loopOf].cnt)
        BY <2>2, <3>8, <4>1 DEF SameLocals
      <4>4. FlowOf(prog, c, frames', Depth, label)
        <5> HIDE DEF o
        <5> QED BY <2>1, <3>1, <4>1, <4>2, <4>3, FlowNextTurn
      <4> QED BY <2>3, <3>1, <3>10, <4>1, <4>4
    <3>11. CASE Leave(fs)
      <4>1. FlowOf(prog, c, fs, Depth, label)
        BY <2>1, <3>1, <3>6, <3>8, FlowNextTurn
      <4> QED BY <2>8, <3>1, <3>6, <3>8, <3>11, <4>1
    <3> QED BY <3>9, <3>10, <3>11
  <2>20. CASE EnterBranch
    <3> DEFINE i0 == [Settled EXCEPT ![Depth].ifOf = Depth]
               i1 == [i0 EXCEPT ![Depth].ifDone = FALSE]
               fs == IF Here = "If" THEN i1 ELSE Settled
    <3>1. Top.cmd \in DOMAIN prog /\ prog[Top.cmd].type \in Branch
      BY <2>20, AtCommand DEF EnterBranch, Branch
    <3>2. InPlace(i0) /\ InPlace(i1)
      BY <2>1, <2>2, SetTopInPlace, SetInPlace
    <3>3. SameLocals(Settled, i0) /\ SameLocals(i0, i1)
      <4>1. Settled \in Stacks(Depth) /\ i0 \in Stacks(Depth)
        BY <2>1, <3>2 DEF InPlace
      <4> HIDE DEF i0
      <4>2. SameLocals(i0, i1)
        BY <2>2, <4>1, LocalsSet
      <4> QED BY <2>2, <4>1, <4>2, LocalsSet DEF i0
    <3>4. i1[Depth].cmd = Top.cmd
      <4>1. i0[Depth].cmd = Settled[Depth].cmd
        BY <2>1, <2>2 DEF InPlace, Stacks, Frame
      <4> HIDE DEF i0
      <4> QED BY <2>1, <2>2, <3>2, <4>1 DEF InPlace, Stacks, Frame
    <3> HIDE DEF i0, i1
    <3>5. InPlace(fs) /\ SameLocals(Settled, fs) /\ fs[Depth].cmd = Top.cmd
      BY <2>1, <3>2, <3>3, <3>4 DEF SameLocals
    <3>6. PICK kind \in {"taken", "skipped"}, k \in {1, Nop(Depth)} : Enter(fs, kind, Top.cmd + 1, k)
      BY <2>20 DEF EnterBranch, i0, i1
    <3>7. label' = label /\ kind \in Kind /\ kind \notin {"loop", "func"} /\ k \in {-1, 0, 1}
      BY <2>2, <2>20 DEF EnterBranch, Kind
    <3> HIDE DEF fs
    <3>8. Turn(c, fs)
      <4>1. Goes(c, fs[Depth].cmd)
        BY <3>5 DEF Goes
      <4> QED BY <2>1, <2>2, <3>5, <4>1, TurnMoved
    <3>9. FlowOf(prog, c, fs, Depth, label)
      BY <2>1, <3>8, FlowTurn
    <3>10. /\ fs[Depth].nop # 0 => k # 0
           /\ label = NoName /\ k = -1 => fs[Top.loopOf].cnt
      <4>1. fs[Depth].nop = Nop(Depth)
        BY <2>1, <2>2, <3>5 DEF SameLocals
      <4> QED BY <2>2, <3>6, <3>8, <4>1 DEF Turn
    <3>11. Top.cmd \in Openers(prog) /\ (Top.cmd + 1) - 1 = Top.cmd /\ Top.cmd + 1 \in Nat
      BY <2>2, <3>1 DEF Openers
    <3> QED BY <2>9, <3>1, <3>5, <3>6, <3>7, <3>9, <3>10, <3>11
  \* A branch or a function does not end a loop.
  <2>21. ASSUME Top.cmd \in DOMAIN prog, prog[Top.cmd].type \in {"If_Return", "EndIf", "EndFunction"}
         PROVE  prog[Top.cmd].type \in Ends /\ Top.kind # "loop"
    <3>1. prog[Top.cmd].type \in Ends
      BY <2>21 DEF Ends
    <3>2. /\ Depth >= 2 /\ Top.start - 1 \in Openers(prog)
          /\ prog[Top.cmd].type \in EndOf(prog[Top.start - 1].type)
      BY <2>1, <2>21, <3>1, Closing DEF FlowOf
    <3>3. Depth \in 2 .. Depth
      BY <2>2, <3>2
    <3>4. Top.kind = "loop" => prog[Top.start - 1].type \in OpenLoop
      BY <2>2, <3>2, <3>3, Opened
    <3> QED BY <2>21, <3>1, <3>2, <3>4 DEF EndOf, CloseLoop
  <2>22. CASE IfReturn
    BY <2>1, <2>8, <2>21, <2>22, AtCommand DEF IfReturn
  <2>23. CASE EndFunction
    BY <2>1, <2>8, <2>21, <2>23, AtCommand DEF EndFunction
  <2>24. CASE EndIf
    <3> DEFINE fs == [Settled EXCEPT ![Top.ifOf].ifDone = FALSE]
    <3>1. InPlace(fs)
      BY <2>1, <2>2, SetInPlace
    <3>2. Settled \in Stacks(Depth)
      BY <2>1 DEF InPlace
    <3>3. SameLocals(Settled, fs)
      BY <2>2, <3>2, LocalsSet
    <3>4. fs[Depth].cmd = Top.cmd
      BY <2>1, <2>2, <3>2 DEF Stacks, Frame
    <3>5. Leave(fs) /\ label' = label /\ Top.cmd \in DOMAIN prog /\ prog[Top.cmd].type = "EndIf"
      BY <2>24, AtCommand DEF EndIf
    <3> HIDE DEF fs
    <3>6. Turn(c, fs)
      <4>1. Goes(c, fs[Depth].cmd)
        BY <3>4 DEF Goes
      <4> QED BY <2>1, <2>2, <3>1, <3>3, <4>1, TurnMoved
    <3>7. FlowOf(prog, c, fs, Depth, label)
      BY <2>1, <3>6, FlowTurn
    <3> QED BY <2>8, <2>21, <3>1, <3>4, <3>5, <3>7
  <2>25. CASE SkipFunction
    <3>1. CASE Exit
      BY <2>7, <3>1
    <3>2. CASE ~Exit
      <4>1. Top.cmd \in DOMAIN prog /\ prog[Top.cmd].type = "StartFunction" /\ label' = label /\ st' = "run"
        <5>1. Top.cmd \in DOMAIN prog /\ prog[Top.cmd].type \in {"StartFunction"}
          BY <2>25, AtCommand DEF SkipFunction
        <5> QED BY <2>25, <3>2, <5>1 DEF SkipFunction
      <4>2. label = NoName
        BY <2>1, <4>1 DEF FlowOf, Search
      <4>3. PICK e \in DOMAIN prog :
               /\ e > Top.cmd /\ prog[e].type = "EndFunction"
               /\ \A q \in DOMAIN prog : q > Top.cmd /\ prog[q].type = "StartFunction" => e <= q
               /\ frames' = [Settled EXCEPT ![Depth].cmd = e + 1]
        BY <2>25, <3>2 DEF SkipFunction, TypeAt
      <4>4. Goes(c, e + 1)
        BY <2>1, <4>1, <4>2, <4>3, GoesBehindFunction
      <4>5. Settled[Depth].start = Top.start /\ Settled \in Stacks(Depth)
        BY <2>1, <2>2 DEF InPlace
      <4>6. e + 1 \in Nat /\ e + 1 >= Settled[Depth].start
        <5>1. e \in Nat
          BY <2>1, LenProperties
        <5> QED BY <2>2, <4>3, <4>5, <5>1
      <4>7. InPlace(frames')
        BY <2>1, <2>2, <4>3, <4>6, SetCmdInPlace
      <4>8. SameLocals(Settled, frames') /\ frames'[Depth].cmd = e + 1
        <5>1. Settled \in Stacks(Depth) /\ Depth \in 1 .. Depth
          BY <2>2, <4>5
        <5>2. PICK v : v = e + 1
          OBVIOUS
        <5>3. SameLocals(Settled, [Settled EXCEPT ![Depth].cmd = v]) /\ [Settled EXCEPT ![Depth].cmd = v][Depth].cmd = v
          BY <5>1, LocalsSet
        <5>4. frames' = [Settled EXCEPT ![Depth].cmd = v]
          BY <4>3, <5>2
        <5> QED BY <5>2, <5>3, <5>4
      <4> QED BY <2>1, <2>2, <2>4, <4>1, <4>4, <4>7, <4>8, TurnMoved
    <3> QED BY <3>1, <3>2
  <2>26. CASE CallFunction
    <3>1. CASE Exit
      BY <2>7, <3>1
    <3>2. CASE ~Exit
      <4>1. PICK p \in DOMAIN prog : /\ prog[p].type = "StartFunction"
                                     /\ Enter(frames, "func", p + 1, 0) /\ label' = label
        BY <2>26, <3>2 DEF CallFunction, TypeAt
      <4>2. p + 1 \in Nat /\ (p + 1) - 1 = p /\ p \in Openers(prog)
        <5>1. p \in Nat
          BY <2>1, LenProperties
        <5> QED BY <4>1, <5>1 DEF Openers
      <4>3. \A i \in 1 .. Depth : ~frames[i].brk /\ ~frames[i].cnt /\ frames[i].nop = 0
        BY <2>1, <2>26, NothingPending DEF CallFunction
      <4> QED BY <2>1, <2>2, <2>9, <4>1, <4>2, <4>3 DEF Kind
    <3> QED BY <3>1, <3>2
  <2>27. CASE Label
    <3>1. Top.cmd \in DOMAIN prog /\ prog[Top.cmd].type = "Label" /\ st' = "run"
      <4>1. Top.cmd \in DOMAIN prog /\ prog[Top.cmd].type \in {"Label"}
        BY <2>27, AtCommand DEF Label
      <4> QED BY <2>27, <4>1 DEF Label
    <3>2. CASE label # NoName /\ label = NameAt(Top.cmd)
      <4> DEFINE o  == Top.loopOf
                 g1 == [frames EXCEPT ![o].brk = FALSE]
                 g2 == [g1 EXCEPT ![o].cnt = FALSE]
                 g3 == [g2 EXCEPT ![Depth].looped = FALSE]
                 g4 == [g3 EXCEPT ![Depth].nop = 0]
      <4>1. InPlace(g1)
        BY <2>1, <2>2, SetInPlace
      <4>2. InPlace(g2)
        BY <2>2, <4>1, SetInPlace
      <4>3. InPlace(g3)
        BY <2>2, <4>2, SetInPlace
      <4>4. InPlace(g4)
        BY <2>2, <4>3, SetTopInPlace
      <4>6. /\ ~g1[o].brk
            /\ \A i \in 1 .. Depth : /\ g1[i].cnt = frames[i].cnt /\ g1[i].looped = frames[i].looped
                                     /\ g1[i].cmd = frames[i].cmd
                                     /\ i # o => g1[i].brk = frames[i].brk
        BY <2>2 DEF Stacks, Frame
      <4>7. /\ ~g2[o].cnt
            /\ \A i \in 1 .. Depth : /\ g2[i].brk = g1[i].brk /\ g2[i].looped = g1[i].looped
                                     /\ g2[i].cmd = g1[i].cmd
                                     /\ i # o => g2[i].cnt = g1[i].cnt
        <5>1. g1 \in Stacks(Depth)
          BY <4>1 DEF InPlace
        <5> HIDE DEF g1
        <5> QED BY <2>2, <5>1 DEF Stacks, Frame
      <4>8. /\ ~g3[Depth].looped
            /\ \A i \in 1 .. Depth : /\ g3[i].brk = g2[i].brk /\ g3[i].cnt = g2[i].cnt
                                     /\ g3[i].cmd = g2[i].cmd
                                     /\ i # Depth => g3[i].looped = g2[i].looped
        <5>1. g2 \in Stacks(Depth)
          BY <4>2 DEF InPlace
        <5> HIDE DEF g2
        <5> QED BY <2>2, <5>1 DEF Stacks, Frame
      <4>9. /\ g4[Depth].nop = 0
            /\ \A i \in 1 .. Depth : /\ g4[i].brk = g3[i].brk /\ g4[i].cnt = g3[i].cnt
                                     /\ g4[i].cmd = g3[i].cmd /\ g4[i].looped = g3[i].looped
        <5>1. g3 \in Stacks(Depth)
          BY <4>3 DEF InPlace
        <5> HIDE DEF g3
        <5> QED BY <2>2, <5>1 DEF Stacks, Frame
      <4>10. frames' = Advance(g4) /\ label' = NoName
        BY <2>27, <3>2 DEF Label
      <4> HIDE DEF g1, g2, g3, g4
      <4>11. InPlace(frames') /\ SameLocals(g4, frames') /\ frames'[Depth].cmd = g4[Depth].cmd + 1
        BY <4>4, <4>10, Moved
      <4>12. /\ frames'[Depth].cmd = Top.cmd + 1 /\ frames'[Depth].nop = 0 /\ ~frames'[Depth].looped
             /\ \A i \in 1 .. Depth : /\ i # Depth => frames'[i].looped = frames[i].looped
                                      /\ i # Top.loopOf => /\ frames'[i].brk = frames[i].brk
                                                           /\ frames'[i].cnt = frames[i].cnt
             /\ ~frames'[Top.loopOf].brk /\ ~frames'[Top.loopOf].cnt
        BY <2>2, <4>6, <4>7, <4>8, <4>9, <4>11 DEF SameLocals
      <4>13. Top.cmd \in Labels(prog, label)
        BY <3>1, <3>2 DEF Labels, NameAt
      <4>14. FlowOf(prog, c, frames', Depth, NoName)
        <5> HIDE DEF o
        <5> QED BY <2>1, <3>2, <4>11, <4>12, <4>13, FlowLanded
      <4> QED BY <2>3, <3>1, <4>10, <4>11, <4>14
    <3>3. CASE ~(label # NoName /\ label = NameAt(Top.cmd))
      <4>1. label # NoName => Top.cmd \notin Labels(prog, label)
        BY <3>3 DEF Labels, NameAt
      <4>2. frames' = Advance(Settled) /\ label' = label
        BY <2>27, <3>3 DEF Label
      <4> QED BY <2>10, <3>1, <4>1, <4>2 DEF Ends, OpenLoop, CloseLoop, Branch
    <3> QED BY <3>2, <3>3
  <2>28. CASE EndOfScript
    <3>1. Top.cmd \notin DOMAIN prog
      <4> SUFFICES ASSUME Top.cmd \in DOMAIN prog PROVE FALSE
        OBVIOUS
      <4>1. prog[Top.cmd].type = "None"
        BY <2>28 DEF EndOfScript, At, Here, TypeAt
      <4>2. prog[Top.cmd] \in Command
        BY <2>1, ElementOfSeq, LenProperties
      <4> QED BY <4>1, <4>2 DEF Command, CmdType, OpenLoop, CloseLoop, Branch, Jump
    <3>2. Shape(prog, c, frames, Depth)
      BY <2>1 DEF FlowOf
    <3>3. Top.cmd > Len(prog) /\ Enclosing(prog, c, Top.cmd) = {}
      <4>1. Top.start >= 1
        <5>1. CASE Depth = 1
          BY <2>2, <3>2, <5>1 DEF Shape
        <5>2. CASE Depth # 1
          <6>1. Depth \in 2 .. Depth
            BY <2>2, <5>2
          <6>2. Top.start - 1 \in Openers(prog)
            BY <2>2, <3>2, <6>1 DEF Shape
          <6> QED BY <2>1, <2>2, <6>2, NestedFacts
        <5> QED BY <5>1, <5>2
      <4>2. Top.cmd > Len(prog)
        BY <2>1, <2>2, <3>1, <4>1, LenProperties
      <4> QED BY <2>1, <2>2, <4>2, OutsideAll
    <3>4. Depth = 1
      <4> SUFFICES ASSUME Depth # 1 PROVE FALSE
        OBVIOUS
      <4>1. Depth \in 2 .. Depth
        BY <2>2
      <4> QED BY <2>2, <3>2, <3>3, <4>1 DEF Shape
    <3>5. CASE label = NoName
      BY <2>6, <2>28, <3>5 DEF EndOfScript
    <3>6. CASE label # NoName /\ Top.looped
      <4>1. Labels(prog, label) = {}
        <5> SUFFICES ASSUME NEW l \in Labels(prog, label) PROVE FALSE
          OBVIOUS
        <5>1. Awaits(prog, c, frames, Depth, l, 1)
          BY <2>1, <3>4, <3>6 DEF FlowOf, Search
        <5>2. l <= Len(prog) /\ l \in Nat
          BY <2>1, LenProperties DEF Labels
        <5> QED BY <2>1, <2>2, <3>3, <3>4, <3>6, <5>1, <5>2, LenProperties DEF Awaits
      <4>2. st' = "unwind" /\ label' = label
        BY <2>28, <3>6 DEF EndOfScript, Fail
      <4> QED BY <4>1, <4>2 DEF Done
    <3>7. CASE label # NoName /\ ~Top.looped /\ Exit
      BY <2>7, <3>7
    <3>8. CASE label # NoName /\ ~Top.looped /\ ~Exit
      <4> DEFINE g == [frames EXCEPT ![Depth].looped = TRUE]
      <4>1. frames' = Restart(g) /\ label' = label /\ st' = "run"
        BY <2>28, <3>8 DEF EndOfScript
      <4>2. InPlace(g)
        BY <2>1, <2>2, SetInPlace
      <4>3. \A i \in 1 .. Depth : /\ g[i].nop = frames[i].nop /\ g[i].brk = frames[i].brk
                                  /\ g[i].cnt = frames[i].cnt
        BY <2>2 DEF Stacks, Frame
      <4> HIDE DEF g
      <4>4. InPlace(frames') /\ SameLocals(g, frames') /\ frames'[Depth].cmd = Top.start
        BY <4>1, <4>2, Moved
      <4>5. Top.start = 1
        BY <2>2, <3>2, <3>4 DEF Shape
      <4>6. Enclosing(prog, c, frames'[Depth].cmd) = Enclosing(prog, c, Top.cmd)
        BY <2>1, <3>3, <4>4, <4>5, OutsideAll
      <4>7. \A l \in Labels(prog, label) : frames'[Depth].cmd <= l
        BY <2>1, <4>4, <4>5, LenProperties DEF Labels
      <4>8. /\ \A i \in 1 .. Depth : frames'[i].brk = frames[i].brk /\ frames'[i].cnt = frames[i].cnt
            /\ \A i \in 1 .. Depth - 1 : frames'[i].looped = frames[i].looped
            /\ Top.nop # 0 => frames'[Depth].nop # 0
        BY <2>2, <3>4, <4>3, <4>4 DEF SameLocals
      <4>9. FlowOf(prog, c, frames', Depth, label)
        BY <2>1, <3>8, <4>4, <4>6, <4>7, <4>8, FlowRescan
      <4> QED BY <2>3, <4>1, <4>4, <4>9
    <3> QED BY <3>5, <3>6, <3>7, <3>8
  <2> QED BY <2>11, <2>12, <2>13, <2>14, <2>15, <2>16, <2>17, <2>18, <2>19, <2>20, <2>22, <2>23,
             <2>24, <2>25, <2>26, <2>27, <2>28 DEF Step, Unwind
<1>4. Step /\ ~Unwind => st = "run"
  BY DEF Step, Skip, Execute, CleanExit, ForTo, BreakOrContinue, OpenLoopFrame, ScanLoopAgain,
         LeaveLoop, NextTurn, EnterBranch, IfReturn, EndIf, SkipFunction, CallFunction,
         EndFunction, Label, EndOfScript, At
<1> QED BY <1>1, <1>2, <1>3, <1>4 DEF Next
-----------------------------------------------------------------------------
(* The theorems about orderly scripts *)

FlowInv == \A close : Orderly(prog, close) => Flow(close)

\* Flow holds when the script starts.
LEMMA InitFlow ==
  ASSUME Init
  PROVE  FlowInv
<1> DEFINE f == frames[1]
<1>1. Depth = 1 /\ st = "run" /\ label = NoName /\ prog \in Seq(Command)
  BY ProgramsAssumption DEF Init, Depth
<1>2. /\ f.kind = "top" /\ f.start = 1 /\ f.cmd = 1 /\ f.nop = 0 /\ f.looped = FALSE
      /\ f.brk = FALSE /\ f.cnt = FALSE /\ f.loopOf = 1
  BY DEF Init
<1> HIDE DEF f
<1>3. ASSUME NEW c, Orderly(prog, c)
      PROVE  FlowOf(prog, c, frames, 1, NoName)
  <2>1. Enclosing(prog, c, 1) = {}
    BY <1>1, <1>3, OutsideAll DEF Orderly
  <2>2. Shape(prog, c, frames, 1)
    BY <1>2, <2>1 DEF Shape, f
  <2>3. Spread(frames, 1)
    BY <1>2 DEF Spread, f
  <2>4. Straight(prog, c, frames, 1)
    BY <1>2 DEF Straight, f
  <2> QED BY <2>2, <2>3, <2>4 DEF FlowOf
<1> QED BY <1>1, <1>3 DEF FlowInv, Flow

\* With it the invariant is inductive.
LEMMA StepFlow ==
  ASSUME StackInv, FlowInv, [Next]_vars
  PROVE  FlowInv'
<1>1. CASE Next
  <2>1. prog' = prog
    BY <1>1 DEF Next, Terminated, vars
  <2>2. ASSUME NEW c, Orderly(prog, c) PROVE Flow(c)'
    BY <1>1, <2>2, FlowStep DEF FlowInv
  <2> QED BY <2>1, <2>2 DEF FlowInv
<1>2. CASE UNCHANGED vars
  BY <1>2 DEF vars, FlowInv, Flow, Depth
<1> QED BY <1>1, <1>2

\* The part of the invariant that the others build on.
LEMMA StackAlways == Spec => []StackInv
<1>1. StackInv /\ SkipInv => StackInv
  OBVIOUS
<1> QED BY <1>1, Invariance, PTL

\* In every orderly script, whatever is pending will end where it should.
THEOREM FlowInvariance == Spec => []FlowInv
<1>1. Init => FlowInv
  BY InitFlow
<1>2. StackInv /\ FlowInv /\ [Next]_vars => FlowInv'
  BY StepFlow
<1> QED BY <1>1, <1>2, StackAlways, PTL DEF Spec

\* What FlowInv says of a run of an orderly script.
LEMMA FlowOfRun ==
  ASSUME StackInv, FlowInv, IsOrderly(prog)
  PROVE  \E c : /\ st = "run" => FlowOf(prog, c, frames, Depth, label)
                /\ st = "unwind" /\ label # NoName => Labels(prog, label) = {}
BY DEF FlowInv, Flow, IsOrderly

\* In an orderly script the stack is the nesting of its text, at every step: a frame stands
\* in the block that it was made for and in those around it, and in no other.
THEOREM StackIsNestingAlways == Spec => [](Covered(prog) => StackIsNesting)
<1>1. StackInv /\ FlowInv => (Covered(prog) => StackIsNesting)
  <2> SUFFICES ASSUME StackInv, FlowInv, Covered(prog), st = "run" PROVE StackIsNesting
    BY DEF StackIsNesting
  <2>1. FlowOf(prog, Matching(prog), frames, Depth, label)
    BY DEF FlowInv, Flow, Covered
  <2> QED BY <2>1 DEF FlowOf, Shape, StackIsNesting
<1> QED BY <1>1, StackAlways, FlowInvariance, PTL

\* In an orderly script a Continue makes its loop skip up to its end: no frame
\* above it, in a block or in a function, executes a command in between.
THEOREM ContinueSkipsRestAlways == Spec => [](IsOrderly(prog) => ContinueSkipsRest)
<1>1. StackInv /\ FlowInv => (IsOrderly(prog) => ContinueSkipsRest)
  <2> SUFFICES ASSUME StackInv, FlowInv, IsOrderly(prog), st = "run", label = NoName,
                      NEW i \in DOMAIN frames, frames[i].cnt
               PROVE  Skipping(Depth)
    BY DEF ContinueSkipsRest
  <2>1. PICK c : FlowOf(prog, c, frames, Depth, label)
    BY FlowOfRun
  <2>2. frames \in Stacks(Depth) /\ i \in 1 .. Depth
    BY RunType DEF Stacks
  <2>3. Straight(prog, c, frames, Depth)
    BY <2>1 DEF FlowOf
  <2>4. frames[Depth].loopOf = i
    BY <2>2, <2>3 DEF Straight, Pending
  <2> QED BY <2>4 DEF Skipping, Nop
<1> QED BY <1>1, StackAlways, FlowInvariance, PTL

\* In an orderly script the outermost level executes again once the label of a
\* goto has been met: no frame is left behind that skips for ever.
THEOREM JumpLandsForGoodAlways == Spec => [](IsOrderly(prog) => JumpLandsForGood)
<1>1. StackInv /\ FlowInv => (IsOrderly(prog) => JumpLandsForGood)
  <2> SUFFICES ASSUME StackInv, FlowInv, IsOrderly(prog), st = "run", label = NoName,
                      ~frames[1].brk, ~frames[1].cnt
               PROVE  frames[1].nop = 0
    BY DEF JumpLandsForGood
  <2>1. PICK c : FlowOf(prog, c, frames, Depth, label)
    BY FlowOfRun
  <2> QED BY <2>1 DEF FlowOf, Straight
<1> QED BY <1>1, StackAlways, FlowInvariance, PTL

\* In an orderly script a goto whose label exists meets it: the search ends the
\* script only when no label has that name.
THEOREM JumpFindsLabelAlways == Spec => [](IsOrderly(prog) => JumpFindsLabel)
<1>1. StackInv /\ FlowInv => (IsOrderly(prog) => JumpFindsLabel)
  <2> SUFFICES ASSUME StackInv, FlowInv, IsOrderly(prog), st = "unwind", label # NoName,
                      NEW p \in DOMAIN prog, TypeAt(p) = "Label"
               PROVE  NameAt(p) # label
    BY DEF JumpFindsLabel
  <2>1. Labels(prog, label) = {}
    BY FlowOfRun
  <2> QED BY <2>1 DEF Labels, TypeAt, NameAt
<1> QED BY <1>1, StackAlways, FlowInvariance, PTL
=============================================================================
