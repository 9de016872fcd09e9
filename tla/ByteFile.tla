------------------------------- MODULE ByteFile -------------------------------
(***************************************************************************)
(* What the manual promises of the files a script writes (readme.md, the   *)
(* commands Append, Log, Put and GoTo): a sequence of bytes with a         *)
(* position, and where each append mode places new bytes.  No buffers, no  *)
(* sizes, no moves of memory.                                              *)
(***************************************************************************)
EXTENDS Integers, Sequences

CONSTANTS
    Files,      \* the files of a script
    Byte, Zero, \* what they hold, and the byte 0
    Data,       \* the strings of bytes a command may write
    MaxSize     \* bound: the longest file

VARIABLES content, pos, mode, st

vars == <<content, pos, mode, st>>

Modes == {"none", "append", "overwrite", "insert", "before"}

\* The bytes d placed behind the first w bytes of c, which they replace or push on.
Placed(c, w, d, pushes) ==
    SubSeq(c, 1, w) \o d \o SubSeq(c, w + 1 + (IF pushes THEN 0 ELSE Len(d)), Len(c))

\* Where a mode places new bytes.
Place(f) ==
    IF mode = "append" THEN Len(content[f]) ELSE IF mode = "before" THEN 0 ELSE pos[f]

Written(f, d) == Placed(content[f], Place(f), d, mode \in {"append", "before", "insert"})

Padded(c, n) == c \o [i \in 1 .. n - Len(c) |-> Zero]

-----------------------------------------------------------------------------
Init ==
    /\ content = [f \in Files |-> <<>>]
    /\ pos = [f \in Files |-> 0]
    /\ mode = "none"
    /\ st = "run"

Append_ == mode' \in Modes /\ UNCHANGED <<content, pos, st>>

Put(f) ==
    /\ \E d \in Data :
          /\ content' = [content EXCEPT ![f] = Written(f, d)]
          /\ pos' = [pos EXCEPT ![f] = Place(f) + Len(d)]
    /\ UNCHANGED <<mode, st>>

\* A Log replaces the file, or adds to it in an append mode, and leaves the
\* position somewhere in it.
Log(f) ==
    /\ \E d \in Data :
          content' = [content EXCEPT ![f] = IF mode = "none" THEN d ELSE Written(f, d)]
    /\ \E p \in 0 .. Len(content'[f]) : pos' = [pos EXCEPT ![f] = p]
    /\ UNCHANGED <<mode, st>>

\* A Log of no bytes from behind the end of file g fills that gap, too.
LogNothing(f, g) ==
    /\ mode \in {"overwrite", "insert", "before"}
    /\ \E p \in 0 .. MaxSize : content' = [content EXCEPT ![g] = Padded(@, p)]
    /\ \E p \in 0 .. Len(content'[f]) : pos' = [pos EXCEPT ![f] = p]
    /\ UNCHANGED <<mode, st>>

Get(f) ==
    /\ \E p \in pos[f] .. Len(content[f]) : pos' = [pos EXCEPT ![f] = p]
    /\ UNCHANGED <<content, mode, st>>

\* A seek behind the end fills the gap with zeros where the mode allows it.
GoTo(f) ==
    /\ \E p \in 0 .. Len(content[f]) : pos' = [pos EXCEPT ![f] = p]
    /\ UNCHANGED <<content, mode, st>>

GoToBehind(f) ==
    /\ mode \in {"overwrite", "insert", "before"}
    /\ \E p \in 0 .. MaxSize :
          /\ p > Len(content[f])
          /\ content' = [content EXCEPT ![f] = Padded(@, p)]
          /\ pos' = [pos EXCEPT ![f] = p]
    /\ UNCHANGED <<mode, st>>

\* Bytes stored at an offset, the file padded with zeros up to it.
PutVarChr(f) ==
    /\ \E o \in 0 .. MaxSize, d \in Data :
          content' = [content EXCEPT ![f] = Placed(Padded(@, o), o, d, FALSE)]
    /\ UNCHANGED <<pos, mode, st>>

Restart ==
    /\ content' = [f \in Files |-> <<>>]
    /\ pos' = [f \in Files |-> 0]
    /\ mode' = "none"
    /\ UNCHANGED st

\* Any command may end the program.
Exit == st' = "exit" /\ UNCHANGED <<content, pos, mode>>

Next ==
    /\ st = "run"
    /\ \/ Append_ \/ Restart \/ Exit
       \/ \E f \in Files : \/ Put(f) \/ Log(f) \/ Get(f) \/ GoTo(f)
                           \/ GoToBehind(f) \/ PutVarChr(f)
                           \/ \E g \in Files : LogNothing(f, g)

Spec == Init /\ [][Next]_vars
=============================================================================
