------------------------------- MODULE BitStream -------------------------------
(***************************************************************************)
(* What the manual promises of GetBits and PutBits (readme.md:4299-4322):  *)
(* a file is a stream of bits.  There is a byte position and the number of *)
(* bits that were used of the byte in front of it; bit commands go on from *)
(* there, every other command that moves leaves no byte half used.         *)
(***************************************************************************)
EXTENDS Integers, Sequences

CONSTANT W      \* bits of a byte

VARIABLES
    bytes,      \* the file; a byte is a function from its bits, the lowest being 0
    at,         \* the byte position: bytes in front of it
    used,       \* bits used of the byte in front of the position, 0 if all or none
    endian,     \* "little": the lowest bit comes first, "big": the highest
    bits,       \* the bits that the last command has read or written
    st          \* "run", "exit"

vars == <<bytes, at, used, endian, bits, st>>

Byte == [0 .. W - 1 -> {0, 1}]
Zero == [k \in 0 .. W - 1 |-> 0]

\* The k-th bit to be used of a byte.
Nth(k) == IF endian = "little" THEN k ELSE W - 1 - k

\* The byte that the next bit belongs to, and the position behind it.
Next_ == IF used = 0 THEN at + 1 ELSE at

Init ==
    /\ bytes \in Seq(Byte)
    /\ at = 0 /\ used = 0
    /\ endian \in {"little", "big"}
    /\ bits = <<>>
    /\ st = "run"

Begin == bits' = <<>> /\ UNCHANGED <<bytes, at, used, endian, st>>

Exit == st' = "exit" /\ UNCHANGED <<bytes, at, used, endian, bits>>

ReadBit ==
    /\ Next_ \in DOMAIN bytes
    /\ bits' = Append(bits, bytes[Next_][Nth(used)])
    /\ at' = Next_ /\ used' = (used + 1) % W
    /\ UNCHANGED <<bytes, endian, st>>

\* Behind the end, a byte of zeros is added first.
WriteBit(b) ==
    /\ bytes' = LET f == IF Next_ \in DOMAIN bytes THEN bytes ELSE Append(bytes, Zero)
                IN  [f EXCEPT ![Next_] = [@ EXCEPT ![Nth(used)] = b]]
    /\ bits' = Append(bits, b)
    /\ at' = Next_ /\ used' = (used + 1) % W
    /\ UNCHANGED <<endian, st>>

\* Every command that works on bytes, with what it leaves.
MoveTo(b, p) ==
    /\ bytes' = b
    /\ at' = p /\ used' = 0
    /\ UNCHANGED <<endian, bits, st>>

ReadByte     == at < Len(bytes) /\ MoveTo(bytes, at + 1)
WriteByte(c) == MoveTo(IF at < Len(bytes) THEN [bytes EXCEPT ![at + 1] = c] ELSE Append(bytes, c), at + 1)
GoTo(p)      == p <= Len(bytes) /\ MoveTo(bytes, p)
Load(b)      == MoveTo(b, 0)

\* PutVarChr: a byte is changed, nothing moves.
Poke(i, c) ==
    /\ i \in DOMAIN bytes
    /\ bytes' = [bytes EXCEPT ![i] = c]
    /\ UNCHANGED <<at, used, endian, bits, st>>

Endian ==
    /\ endian' \in {"little", "big"}
    /\ UNCHANGED <<bytes, at, used, bits, st>>

Next ==
    \/ Begin \/ Exit \/ ReadBit \/ ReadByte \/ Endian
    \/ \E b \in {0, 1} : WriteBit(b)
    \/ \E c \in Byte : WriteByte(c) \/ (\E i \in DOMAIN bytes : Poke(i, c))
    \/ \E p \in 0 .. Len(bytes) : GoTo(p)
    \/ Load(bytes')

Spec == Init /\ [][Next]_vars
=============================================================================
