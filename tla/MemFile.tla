------------------------------- MODULE MemFile -------------------------------
(***************************************************************************)
(* MEMORY_FILEs: buffers that a script reads, writes and seeks like files  *)
(* (g_memory_file[], file.c), and the append modes (g_append_mode).  A     *)
(* write first makes room, which moves bytes and leaves cells nobody has   *)
(* written, and then copies the new bytes to the position.                 *)
(*                                                                         *)
(* A buffer is modelled up to its size; the cells that growing it adds are *)
(* Junk, because they hold whatever the allocator or an earlier content of *)
(* the buffer left there.  Sizes are far from 2^32; an error of a file     *)
(* operation ends the program (option -. is not set).                      *)
(***************************************************************************)
EXTENDS Integers, Sequences

CONSTANTS
    Files,      \* numbers of memory files
    Byte, Zero, \* what they hold, and the byte 0
    Junk,       \* a cell nobody has written
    Data,       \* the strings of bytes a command may write
    Offsets,    \* the offsets of GoTo and PutVarChr
    MaxSize     \* bound: the longest file

ASSUME DataAssumption    == Data \subseteq Seq(Byte)
ASSUME ByteAssumption    == Zero \in Byte /\ Junk \notin Byte
ASSUME OffsetsAssumption == Offsets \subseteq Int
ASSUME MaxSizeAssumption == MaxSize \in Nat

VARIABLES
    mem,    \* g_memory_file[]: data # NULL, the bytes up to size, pos
    mode,   \* g_append_mode
    st      \* "run", "exit" (myexit)

vars == <<mem, mode, st>>

Modes == {"none", "append", "overwrite", "insert", "before"}

Cell    == Byte \cup {Junk}
MemFile == [open : BOOLEAN, bytes : Seq(Cell), pos : Nat]

TypeOK ==
    /\ mem \in [Files -> MemFile]
    /\ mode \in Modes
    /\ st \in {"run", "exit"}

-----------------------------------------------------------------------------
(* Memory *)

\* myalloc() and a new size.
Resized(b, n) == [i \in 1 .. n |-> IF i <= Len(b) THEN b[i] ELSE Junk]

\* Mutant: the space a seek adds is not cleared.
Cleared_not(b, n) == Resized(b, n)

\* memfile_resize(): growing clears the new bytes.
Cleared(b, n) == [i \in 1 .. n |-> IF i <= Len(b) THEN b[i] ELSE Zero]

\* mymemmove(data + to, data + from, n)
Moved(b, to, from, n) ==
    [i \in 1 .. Len(b) |-> IF to < i /\ i <= to + n THEN b[i - to + from] ELSE b[i]]

\* memcpy(data + at, d, n), as far as the file reaches
Copied(b, at, d) ==
    [i \in 1 .. Len(b) |-> IF at < i /\ i <= at + Len(d) THEN d[i - at] ELSE b[i]]

\* Mutant: the position is not set to the start in mode "before".
Room_keepsPos(m, n) ==
    LET size  == Len(m.bytes)
        grown == Resized(m.bytes, size + n)
    IN  IF mode = "append" THEN [m EXCEPT !.pos = size, !.bytes = grown]
        ELSE IF mode = "before" THEN [m EXCEPT !.bytes = Moved(grown, n, 0, size)]
        ELSE IF mode = "insert" THEN [m EXCEPT !.bytes = Moved(grown, m.pos + n, m.pos, size - m.pos)]
        ELSE [m EXCEPT !.bytes = IF m.pos + n > size THEN Resized(@, m.pos + n) ELSE @]

\* Room for n bytes at the position: fdnum_append_mode(), or without an
\* append mode the same growth in myfw().
Room(m, n) ==
    LET size  == Len(m.bytes)
        grown == Resized(m.bytes, size + n)
    IN  IF mode = "append" THEN [m EXCEPT !.pos = size, !.bytes = grown]
        ELSE IF mode = "before" THEN [m EXCEPT !.pos = 0, !.bytes = Moved(grown, n, 0, size)]
        ELSE IF mode = "insert" THEN [m EXCEPT !.bytes = Moved(grown, m.pos + n, m.pos, size - m.pos)]
        ELSE [m EXCEPT !.bytes = IF m.pos + n > size THEN Resized(@, m.pos + n) ELSE @]

\* myfw()
Written(m, d) ==
    LET r == Room(m, Len(d))
    IN  [r EXCEPT !.bytes = Copied(@, r.pos, d), !.pos = @ + Len(d)]

\* dumpa_memory_file(): there is no room made in mode "insert".  A file that
\* was never used takes over the buffer (takes) and keeps its position.
Dumped(m, d, takes) ==
    LET r == IF mode = "none" THEN [m EXCEPT !.pos = 0, !.bytes = Resized(@, Len(d))]
             ELSE IF mode = "insert" THEN m
             ELSE Room(m, Len(d))
    IN  IF takes /\ ~m.open
        THEN [r EXCEPT !.open = TRUE, !.bytes = Copied(@, 0, d)]
        ELSE [r EXCEPT !.open = TRUE, !.bytes = Copied(@, r.pos, d),
                       !.pos = IF mode = "none" THEN @ ELSE @ + Len(d)]

\* A position that myfseek() can reach.
Reachable(m, p) == p \in 0 .. Len(m.bytes) \/ mode = "append" \/ (mode # "none" /\ p >= 0)

\* Mutant: the position may stay behind the end.
Sought_noResize(m, p) ==
    IF p \in 0 .. Len(m.bytes) \/ mode # "append" THEN [m EXCEPT !.pos = p]
    ELSE [m EXCEPT !.pos = Len(m.bytes)]

\* myfseek(): pos is unsigned, so a negative position is one behind the end.
Sought(m, p) ==
    IF p \in 0 .. Len(m.bytes) THEN [m EXCEPT !.pos = p]
    ELSE IF mode = "append" THEN [m EXCEPT !.pos = Len(m.bytes)]
    ELSE [m EXCEPT !.open = TRUE, !.pos = p, !.bytes = Cleared(@, p)]

Fits(m) == Len(m.bytes) <= MaxSize

-----------------------------------------------------------------------------
Init ==
    /\ mem = [f \in Files |-> [open |-> FALSE, bytes |-> <<>>, pos |-> 0]]
    /\ mode = "none"
    /\ st = "run"

Exit == st' = "exit" /\ UNCHANGED <<mem, mode>>

\* Store m in file f and go on.
Set(f, m) ==
    /\ Fits(m)
    /\ mem' = [mem EXCEPT ![f] = m]
    /\ UNCHANGED <<mode, st>>

\* CMD_Append_func: without an argument it switches between append and none.
Append_ ==
    /\ \/ mode' = IF mode = "none" THEN "append" ELSE "none"
       \/ mode' \in {"append", "overwrite", "insert", "before"}
    /\ UNCHANGED <<mem, st>>

Put(f) ==
    IF mem[f].open THEN \E d \in Data : Set(f, Written(mem[f], d)) ELSE Exit

\* myfr(), with an error if the file is too short.
Get(f) ==
    \E n \in 0 .. MaxSize :
        IF mem[f].open /\ mem[f].pos + n <= Len(mem[f].bytes)
        THEN Set(f, [mem[f] EXCEPT !.pos = @ + n])
        ELSE Exit

\* CMD_GoTo_func: from the start, the position or the end.
GoTo(f) ==
    \E offset \in Offsets :
        LET m   == mem[f]
            end == Len(m.bytes) + (IF offset > 0 THEN -offset ELSE offset)
        IN  \E p \in {offset, m.pos + offset, end} :
                IF Reachable(m, p) THEN Set(f, Sought(m, p)) ELSE Exit

\* CMD_PutVarChr_func: an offset below 0 counts from the end; the file grows
\* (direct_var_alloc) and is cleared up to the new bytes.
PutVarChr(f) ==
    \E offset \in Offsets, d \in Data :
        LET m  == mem[f]
            at == IF offset < 0 THEN Len(m.bytes) + offset ELSE offset
        IN  IF at < 0 THEN Exit
            ELSE IF at + Len(d) > Len(m.bytes)
            THEN Set(f, [m EXCEPT !.open = TRUE, !.bytes = Copied(Cleared(@, at + Len(d)), at, d)])
            ELSE Set(f, [m EXCEPT !.bytes = Copied(@, at, d)])

\* Log MEMORY_FILE and CLog MEMORY_FILE from a file of the disk (takes), Set
\* MEMORY_FILE from a variable (not takes).
Dump(f) == \E d \in Data, takes \in BOOLEAN : Set(f, Dumped(mem[f], d, takes))

\* Log MEMORY_FILE from a memory file: dumpa() seeks the source, reads it,
\* writes the destination and moves the source's position back, which fails if
\* the source is the destination and has become shorter.
LogFrom(src, dst) ==
    \E offset \in Offsets, n \in 0 .. MaxSize :
        LET old    == mem[src].pos
            sought == [mem EXCEPT ![src] = Sought(@, offset)]
            d      == SubSeq(sought[src].bytes, sought[src].pos + 1, sought[src].pos + n)
            read   == [sought EXCEPT ![src].pos = @ + n]
            dumped == [read EXCEPT ![dst] = Dumped(@, d, TRUE)]
        IN  IF \/ ~Reachable(mem[src], offset)
               \/ ~sought[src].open \/ sought[src].pos + n > Len(sought[src].bytes)
               \/ ~Reachable(dumped[src], old)
            THEN Exit
            ELSE /\ d \in Data
                 /\ mem' = [dumped EXCEPT ![src] = Sought(@, old)]
                 /\ \A f \in Files : Fits(mem'[f])
                 /\ UNCHANGED <<mode, st>>

\* bms_init(1), before the next input file: sizes and positions are reset, the
\* buffers stay.
Restart ==
    /\ mem' = [f \in Files |-> [mem[f] EXCEPT !.bytes = <<>>, !.pos = 0]]
    /\ mode' = "none"
    /\ UNCHANGED st

Terminated == st = "exit" /\ UNCHANGED vars

Logging ==
    /\ st = "run"
    /\ \/ \E f \in Files : Dump(f)
       \/ \E src, dst \in Files : LogFrom(src, dst)

Other ==
    /\ st = "run"
    /\ \/ Append_ \/ Restart
       \/ \E f \in Files : Put(f) \/ Get(f) \/ GoTo(f) \/ PutVarChr(f)

Next == Logging \/ Other \/ Terminated

Spec == Init /\ [][Next]_vars

\* Scripts that do not Log into a memory file while the append mode is 2.
PlainNext == (mode # "insert" /\ Logging) \/ Other \/ Terminated

PlainSpec == Init /\ [][PlainNext]_vars

-----------------------------------------------------------------------------
\* No read ever returns a byte that nobody wrote: whatever the append mode
\* made room for is filled by the same command.
NothingUnwritten == \A f \in Files : \A i \in DOMAIN mem[f].bytes : mem[f].bytes[i] \in Byte

\* The position stays in the file, so the lengths that the next command
\* computes from size - pos are not negative.
PosInside == \A f \in Files : mem[f].pos <= Len(mem[f].bytes)

\* A buffer that does not exist has no bytes.
ClosedEmpty == \A f \in Files : ~mem[f].open => mem[f].bytes = <<>>

File == INSTANCE ByteFile WITH
            content <- [f \in Files |-> mem[f].bytes], pos <- [f \in Files |-> mem[f].pos]

\* readme.md, the arguments of Append: memory files hold what the manual says.
ImplementsByteFile == File!Spec
=============================================================================
