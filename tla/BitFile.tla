-------------------------------- MODULE BitFile --------------------------------
(***************************************************************************)
(* GetBits and PutBits (cmd.c:833, cmd.c:880) over the bit functions of    *)
(* file.c:1325-1500, on a memory file, next to the commands that work on   *)
(* bytes.  The file keeps the byte that was read last (bitchr), how much   *)
(* of it is used (bitpos) and the position behind it (bitoff); PutBits     *)
(* writes a byte back when it is full, and at the end.  One action per     *)
(* bit.                                                                    *)
(*                                                                         *)
(* bytes[p + 1] is the byte at the offset p.  A file of the disk in write  *)
(* mode does the same.                                                     *)
(***************************************************************************)
EXTENDS Integers, Sequences

CONSTANTS
    W,          \* bits of a byte (8)
    INTSZ,      \* up to so many bits the value is a number, else a string
    Sizes,      \* the numbers of bits that scripts ask for
    Modes,      \* the append modes
    MaxSize     \* bound: the longest file, in bytes

ASSUME WidthAssumption == W \in Nat \ {0} /\ INTSZ \in Nat /\ W <= INTSZ
ASSUME SizesAssumption == Sizes \subseteq Nat
ASSUME BoundAssumption == MaxSize \in Nat

Byte == [0 .. W - 1 -> {0, 1}]
Zero == [k \in 0 .. W - 1 |-> 0]

VARIABLES
    bytes, pos,                 \* memory_file_t: the contents and the position
    bitchr, bitpos, bitoff,     \* and FDBITS
    endian,                     \* g_endian
    mode,                       \* g_append_mode
    cmd,                        \* the command that runs: "none", "get", "put"
    n, i, num, bc, bp, rem,     \* the locals of fd_read_bits() and fd_write_bits()
    todo,                       \* bits of the pieces that follow (bits2str, str2bits)
    bits,                       \* history: the bits of the command so far
    moved,                      \* history: a byte command has moved since the last bit command
    st                          \* "run", "exit" (myexit)

file   == <<bytes, pos, bitchr, bitpos, bitoff>>
locals == <<n, i, num, bc, bp, rem, todo>>
vars   == <<file, endian, mode, cmd, locals, bits, moved, st>>

\* The types (num is what NumbersRight says of it); the bit position stays inside a byte.
TypeOK ==
    /\ bytes \in Seq(Byte) /\ pos \in 0 .. Len(bytes)
    /\ bitchr \in Byte /\ bitpos \in 0 .. W - 1 /\ bitoff \in Nat
    /\ endian \in {"little", "big"} /\ mode \in Modes
    /\ cmd \in {"none", "get", "put"}
    /\ n \in Nat /\ i \in 0 .. n /\ todo \in Nat
    /\ bc \in Byte /\ bp \in 0 .. W - 1 /\ rem \in BOOLEAN
    /\ bits \in Seq({0, 1}) /\ moved \in BOOLEAN
    /\ st \in {"run", "exit"}

-----------------------------------------------------------------------------
(* Helpers *)

\* The k-th bit to be used of a byte.
Nth(k) == IF endian = "little" THEN k ELSE W - 1 - k

\* 1 << k
Two[k \in Nat] == IF k = 0 THEN 1 ELSE 2 * Two[k - 1]

\* The length of the next piece of t bits: all of a number, a byte of a string.
Piece(t, whole) == IF whole \/ t < W THEN t ELSE W

\* myfputc(c): fdnum_append_mode() places the byte.
Put(b, p, c) ==
    IF mode = "append" THEN [bytes |-> Append(b, c), pos |-> Len(b) + 1]
    ELSE IF p < Len(b) THEN [bytes |-> [b EXCEPT ![p + 1] = c], pos |-> p + 1]
    ELSE [bytes |-> Append(b, c), pos |-> p + 1]

\* The byte in front of the position is written back (myfseek by -1, myfputc).
Flushed == IF rem THEN Put(bytes, pos - 1, bc) ELSE [bytes |-> bytes, pos |-> pos]

Exit == st' = "exit" /\ UNCHANGED <<file, endian, mode, cmd, locals, bits, moved>>

Idle == st = "run" /\ cmd = "none"

-----------------------------------------------------------------------------
(* The commands on bits *)

Init ==
    /\ bytes \in UNION {[1 .. k -> Byte] : k \in 0 .. MaxSize}
    /\ pos = 0 /\ bitchr = Zero /\ bitpos = 0 /\ bitoff = 0
    /\ endian \in {"little", "big"} /\ mode \in Modes
    /\ cmd = "none"
    /\ n = 0 /\ i = 0 /\ num = 0 /\ bc = Zero /\ bp = 0 /\ rem = FALSE /\ todo = 0
    /\ bits = <<>> /\ moved = FALSE
    /\ st = "run"

\* Mutant: the offset is not compared.
Start_anyOffset(c) ==
    /\ Idle
    /\ \E t \in Sizes :
          /\ n' = Piece(t, t <= INTSZ)
          /\ todo' = t - Piece(t, t <= INTSZ)
    /\ bc' = bitchr /\ bp' = bitpos
    /\ cmd' = c /\ i' = 0 /\ rem' = FALSE
    /\ bits' = <<>>
    /\ UNCHANGED <<file, endian, mode, moved, st>>

\* my_fdbits() delivers the byte and its bits, unless the offset has changed.
Start(c) ==
    /\ Idle
    /\ \E t \in Sizes :
          /\ n' = Piece(t, t <= INTSZ)
          /\ todo' = t - Piece(t, t <= INTSZ)
    /\ bc' = IF pos = bitoff THEN bitchr ELSE Zero
    /\ bp' = IF pos = bitoff THEN bitpos ELSE 0
    /\ cmd' = c /\ i' = 0 /\ rem' = FALSE
    /\ bits' = <<>>
    /\ UNCHANGED <<file, endian, mode, moved, st>>

GetBits == Start("get") /\ num' = 0

PutBits ==
    /\ Start("put")
    /\ num' \in 0 .. Two[n'] - 1
    /\ pos + (n' + todo' + W - 1) \div W <= MaxSize

\* A turn of the loop of fd_read_bits().
ReadBit ==
    /\ st = "run" /\ cmd = "get" /\ i < n
    /\ IF bp = 0 /\ pos = Len(bytes)
       THEN Exit
       ELSE /\ pos' = IF bp = 0 THEN pos + 1 ELSE pos
            /\ bc' = IF bp = 0 THEN bytes[pos + 1] ELSE bc
            /\ LET bit == bc'[Nth(bp)]
               IN  /\ num' = IF endian = "little" THEN num \div 2 + bit * Two[n - 1] ELSE num * 2 + bit
                   /\ bits' = Append(bits, bit)
            /\ bp' = (bp + 1) % W
            /\ i' = i + 1
            /\ UNCHANGED <<bytes, bitchr, bitpos, bitoff, endian, mode, cmd, n, rem, todo, moved, st>>

\* Mutant: the lowest bit is first, whatever g_endian.
Digit_lowFirst == (num \div Two[i]) % 2

\* The bit of num that is written next.
Digit == IF (num \div Two[IF endian = "little" THEN i ELSE n - i - 1]) % 2 = 1 THEN 1 ELSE 0

\* Mutant: a full byte is not written back before the next one is fetched.
WriteBit_noFlush ==
    /\ st = "run" /\ cmd = "put" /\ i < n
    /\ LET g == IF pos < Len(bytes) THEN [bytes |-> bytes, pos |-> pos + 1] ELSE Put(bytes, pos, Zero)
           old == IF bp # 0 THEN bc ELSE IF pos < Len(bytes) THEN bytes[pos + 1] ELSE Zero
       IN  /\ bytes' = IF bp = 0 THEN g.bytes ELSE bytes
           /\ pos' = IF bp = 0 THEN g.pos ELSE pos
           /\ bc' = [old EXCEPT ![Nth(bp)] = Digit]
    /\ bits' = Append(bits, Digit)
    /\ bp' = (bp + 1) % W
    /\ i' = i + 1 /\ rem' = TRUE
    /\ UNCHANGED <<bitchr, bitpos, bitoff, endian, mode, cmd, n, num, todo, moved, st>>

\* A turn of the loop of fd_write_bits(): a full byte is written back and the
\* next one fetched, or added.
WriteBit ==
    /\ st = "run" /\ cmd = "put" /\ i < n
    /\ LET f == Flushed
           g == IF f.pos < Len(f.bytes) THEN [bytes |-> f.bytes, pos |-> f.pos + 1]
                ELSE Put(f.bytes, f.pos, Zero)
           old == IF bp # 0 THEN bc ELSE IF f.pos < Len(f.bytes) THEN f.bytes[f.pos + 1] ELSE Zero
       IN  /\ bytes' = IF bp = 0 THEN g.bytes ELSE bytes
           /\ pos' = IF bp = 0 THEN g.pos ELSE pos
           /\ bc' = [old EXCEPT ![Nth(bp)] = Digit]
    /\ bits' = Append(bits, Digit)
    /\ bp' = (bp + 1) % W
    /\ i' = i + 1 /\ rem' = TRUE
    /\ UNCHANGED <<bitchr, bitpos, bitoff, endian, mode, cmd, n, num, todo, moved, st>>

\* The end of fd_read_bits() or fd_write_bits() and the next piece.
NextPiece ==
    /\ st = "run" /\ cmd # "none" /\ i = n /\ todo > 0
    /\ bytes' = Flushed.bytes /\ pos' = Flushed.pos
    /\ n' = Piece(todo, FALSE) /\ todo' = todo - Piece(todo, FALSE)
    /\ i' = 0 /\ rem' = FALSE
    /\ IF cmd = "get" THEN num' = 0 ELSE num' \in 0 .. Two[n'] - 1
    /\ UNCHANGED <<bitchr, bitpos, bitoff, endian, mode, cmd, bc, bp, bits, moved, st>>

\* The end of the command: my_fdbits() keeps the byte for the next one.
Finish ==
    /\ st = "run" /\ cmd # "none" /\ i = n /\ todo = 0
    /\ bytes' = Flushed.bytes /\ pos' = Flushed.pos
    /\ bitchr' = bc /\ bitpos' = bp /\ bitoff' = pos'
    /\ cmd' = "none" /\ moved' = FALSE
    /\ n' = 0 /\ i' = 0 /\ num' = 0 /\ bc' = Zero /\ bp' = 0 /\ rem' = FALSE
    /\ UNCHANGED <<todo, endian, mode, bits, st>>

-----------------------------------------------------------------------------
(* The commands on bytes *)

\* A command that leaves the file b and the position p, and FDBITS alone.
MoveTo(b, p) ==
    /\ bytes' = b /\ pos' = p
    /\ Len(b) <= MaxSize
    /\ moved' = TRUE
    /\ UNCHANGED <<bitchr, bitpos, bitoff, endian, mode, cmd, locals, bits, st>>

\* Get and Put of one byte; GoTo.
GetByte == Idle /\ IF pos < Len(bytes) THEN MoveTo(bytes, pos + 1) ELSE Exit

PutByte == Idle /\ \E c \in Byte : LET f == Put(bytes, pos, c) IN MoveTo(f.bytes, f.pos)

GoTo == Idle /\ \E p \in 0 .. Len(bytes) : MoveTo(bytes, p)

\* bms_init(1): the size and the position only.
Restart == Idle /\ MoveTo(<<>>, 0)

\* Log MEMORY_FILE (dumpa_memory_file): new contents, FDBITS are reset.
Log ==
    /\ Idle /\ mode = "none"
    /\ bytes' \in UNION {[1 .. k -> Byte] : k \in 0 .. MaxSize}
    /\ pos' = 0 /\ bitchr' = Zero /\ bitpos' = 0 /\ bitoff' = 0
    /\ moved' = TRUE
    /\ UNCHANGED <<endian, mode, cmd, locals, bits, st>>

\* PutVarChr: a byte is changed, nothing moves.
Poke(k) ==
    /\ Idle
    /\ \E c \in Byte : bytes' = [bytes EXCEPT ![k] = c]
    /\ UNCHANGED <<pos, bitchr, bitpos, bitoff, endian, mode, cmd, locals, bits, moved, st>>

Endian ==
    /\ Idle
    /\ endian' \in {"little", "big"}
    /\ UNCHANGED <<file, mode, cmd, locals, bits, moved, st>>

Terminated == st = "exit" /\ UNCHANGED vars

-----------------------------------------------------------------------------

\* The last bit command left a byte partly used, right in front of the position.
Pending == bitpos # 0 /\ pos = bitoff

OnBits  == GetBits \/ PutBits \/ ReadBit \/ WriteBit \/ NextPiece \/ Finish
OnBytes == GetByte \/ PutByte \/ GoTo \/ Restart \/ Log \/ Endian \/ Terminated

Next == OnBits \/ OnBytes \/ \E k \in DOMAIN bytes : Poke(k)

Spec == Init /\ [][Next]_vars

\* Scripts that use no bits after they came back to the very offset where bits
\* were used last, and do not change a byte that is partly used.
PlainNext ==
    \/ OnBits /\ (cmd = "none" => ~(Pending /\ moved))
    \/ OnBytes
    \/ \E k \in DOMAIN bytes : Poke(k) /\ ~(Pending /\ k = pos)

PlainSpec == Init /\ [][PlainNext]_vars

-----------------------------------------------------------------------------
(* Properties *)

\* What the file holds, with the byte that PutBits has not written back yet.
Contents == IF rem THEN [bytes EXCEPT ![pos] = bc] ELSE bytes

\* How many bits of the byte in front of the position are used.
Used == IF cmd # "none" THEN bp ELSE IF moved THEN 0 ELSE bitpos

Stream == INSTANCE BitStream WITH bytes <- Contents, at <- pos, used <- Used

\* readme.md:4299-4322: the bits that are read and written, and where, are
\* those of a stream without any cache.
ImplementsBitStream == Stream!Spec

\* The byte that the bits are taken from is the one in the file, although it is
\* cached from one command to the next and written back late.
CacheFresh ==
    /\ cmd = "none" /\ ~moved /\ bitpos # 0 => pos = bitoff /\ pos > 0 /\ bitchr = bytes[pos]
    /\ cmd # "none" /\ (bp # 0 \/ rem) => pos > 0
    /\ cmd # "none" /\ bp # 0 /\ ~rem => bc = bytes[pos]
    /\ rem => cmd = "put"

\* The number that a sequence of bits stands for.
Number(s) ==
    LET v[k \in 0 .. Len(s)] ==
            IF k = 0 THEN 0
            ELSE IF endian = "little" THEN v[k - 1] + s[k] * Two[k - 1]
            ELSE 2 * v[k - 1] + s[k]
    IN  v[Len(s)]

\* A number, or a byte of a string, is made of its bits in the order of g_endian,
\* across byte borders; so what PutBits has written GetBits reads.
NumbersRight ==
    cmd # "none" /\ i = n => num = Number(SubSeq(bits, Len(bits) - n + 1, Len(bits)))
=============================================================================
