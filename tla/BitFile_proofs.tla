---------------------------- MODULE BitFile_proofs ----------------------------
(***************************************************************************)
(* Proofs about BitFile: whatever the width of a byte and however bit and  *)
(* byte commands mix, the cached byte is that of the file, outside of the  *)
(* append modes the file is the stream of bits of BitStream, and numbers   *)
(* are those that their bits make in the order of the endian.              *)
(***************************************************************************)
EXTENDS BitFile, TLAPS, WellFoundedInduction

Inv == TypeOK /\ CacheFresh

\* One byte written in place or added leaves a file, with the position in it.
LEMMA PutType ==
    ASSUME NEW b \in Seq(Byte), NEW p \in 0 .. Len(b), NEW c \in Byte
    PROVE  /\ Put(b, p, c).bytes \in Seq(Byte)
           /\ Put(b, p, c).pos \in 1 .. Len(Put(b, p, c).bytes)
           /\ Put(b, p, c).bytes[Put(b, p, c).pos] = c
<1>1. CASE mode = "append"
  <2>1. Append(b, c) \in Seq(Byte) /\ Len(Append(b, c)) = Len(b) + 1
    OBVIOUS
  <2>2. Append(b, c)[Len(b) + 1] = c
    OBVIOUS
  <2> QED  BY <1>1, <2>1, <2>2 DEF Put
<1>2. CASE mode # "append" /\ p < Len(b)
  <2>1. p + 1 \in DOMAIN b
    BY <1>2
  <2>2. [b EXCEPT ![p + 1] = c] \in Seq(Byte) /\ Len([b EXCEPT ![p + 1] = c]) = Len(b)
    BY <2>1
  <2>3. [b EXCEPT ![p + 1] = c][p + 1] = c
    BY <2>1
  <2> QED  BY <1>2, <2>1, <2>2, <2>3 DEF Put
<1>3. CASE mode # "append" /\ p = Len(b)
  <2>1. Append(b, c) \in Seq(Byte) /\ Len(Append(b, c)) = Len(b) + 1
    OBVIOUS
  <2>2. Append(b, c)[Len(b) + 1] = c
    OBVIOUS
  <2> QED  BY <1>3, <2>1, <2>2 DEF Put
<1> QED  BY <1>1, <1>2, <1>3

\* Writing a byte back keeps the position inside; the byte is in front of it.
LEMMA FlushType ==
    ASSUME TypeOK, CacheFresh
    PROVE  /\ Flushed.bytes \in Seq(Byte)
           /\ Flushed.pos \in 0 .. Len(Flushed.bytes)
           /\ rem => Flushed.pos > 0 /\ Flushed.bytes[Flushed.pos] = bc
           /\ ~rem => Flushed.pos = pos /\ Flushed.bytes = bytes
<1>1. CASE rem
  <2>1. pos - 1 \in 0 .. Len(bytes) /\ bytes \in Seq(Byte) /\ bc \in Byte
    BY <1>1 DEF TypeOK, CacheFresh
  <2> DEFINE f == Put(bytes, pos - 1, bc)
  <2>2. f.bytes \in Seq(Byte) /\ f.pos \in 1 .. Len(f.bytes) /\ f.bytes[f.pos] = bc
    BY <2>1, PutType
  <2>3. Flushed = f
    BY <1>1 DEF Flushed
  <2> HIDE DEF f
  <2> QED  BY <1>1, <2>2, <2>3
<1>2. CASE ~rem
  BY <1>2 DEF Flushed, TypeOK
<1> QED  BY <1>1, <1>2 DEF TypeOK

\* The next bit position is one of a byte.
LEMMA NextBit ==
    ASSUME NEW k \in 0 .. W - 1
    PROVE  (k + 1) % W \in 0 .. W - 1
  BY WidthAssumption

\* The bit that is used next is one of the byte.
LEMMA NthType ==
    ASSUME NEW k \in 0 .. W - 1
    PROVE  Nth(k) \in 0 .. W - 1
  BY WidthAssumption DEF Nth

LEMMA NoBits == <<>> \in Seq({0, 1}) /\ <<>> \in Seq(Byte) /\ Len(<<>>) = 0
  OBVIOUS

LEMMA ZeroType == Zero \in Byte
  BY DEF Zero, Byte

-----------------------------------------------------------------------------
(* The cache *)

LEMMA InvInit == Init => Inv
<1> SUFFICES ASSUME Init PROVE Inv
  OBVIOUS
<1>1. bytes \in Seq(Byte)
  BY BoundAssumption DEF Init
<1>2. 0 \in 0 .. W - 1 /\ Zero \in Byte
  BY WidthAssumption, ZeroType
<1>3. TypeOK
  <2>1. /\ pos = 0 /\ bitchr = Zero /\ bitpos = 0 /\ bitoff = 0
        /\ endian \in {"little", "big"} /\ mode \in Modes /\ cmd = "none"
        /\ n = 0 /\ i = 0 /\ bc = Zero /\ bp = 0 /\ rem = FALSE /\ todo = 0
        /\ bits = <<>> /\ moved = FALSE /\ st = "run"
    BY DEF Init
  <2>2. bitpos \in 0 .. W - 1 /\ bp \in 0 .. W - 1 /\ bitchr \in Byte /\ bc \in Byte
    BY <1>2, <2>1
  <2>3. pos \in 0 .. Len(bytes) /\ bitoff \in Nat /\ n \in Nat /\ i \in 0 .. n /\ todo \in Nat
    BY <1>1, <2>1
  <2>4. rem \in BOOLEAN /\ moved \in BOOLEAN /\ bits \in Seq({0, 1})
    BY <2>1, NoBits
  <2> QED  BY <1>1, <2>1, <2>2, <2>3, <2>4 DEF TypeOK
<1>4. CacheFresh
  BY DEF Init, CacheFresh
<1> QED  BY <1>3, <1>4 DEF Inv

\* A command on bits begins with the byte that is in front of the position.
LEMMA StartInv ==
    ASSUME Inv, NEW c \in {"get", "put"}, Start(c), ~(Pending /\ moved)
    PROVE  Inv'
<1>1. n' \in Nat /\ todo' \in Nat /\ 0 \in 0 .. n'
  <2>1. PICK t \in Sizes : n' = Piece(t, t <= INTSZ) /\ todo' = t - Piece(t, t <= INTSZ)
    BY DEF Start
  <2>2. t \in Nat
    BY SizesAssumption
  <2>3. Piece(t, t <= INTSZ) \in 0 .. t
    BY <2>2, WidthAssumption DEF Piece
  <2> QED  BY <2>1, <2>2, <2>3
<1>2. bc' \in Byte /\ bp' \in 0 .. W - 1
  BY ZeroType, WidthAssumption DEF Inv, TypeOK, Start
<1>3. TypeOK'
  BY <1>1, <1>2, NoBits DEF Inv, TypeOK, Start, Idle, file
<1>4. ASSUME bp' # 0 PROVE pos > 0 /\ bc' = bytes[pos]
  <2>1. pos = bitoff /\ bitpos # 0 /\ bc' = bitchr
    BY <1>4 DEF Start
  <2>2. ~moved /\ cmd = "none"
    BY <2>1 DEF Pending, Start, Idle
  <2> QED  BY <2>1, <2>2 DEF Inv, CacheFresh
<1>5. CacheFresh'
  BY <1>4 DEF CacheFresh, Start, file
<1> QED  BY <1>3, <1>5 DEF Inv

LEMMA ReadBitInv ==
    ASSUME Inv, ReadBit
    PROVE  Inv'
<1>1. CASE Exit
  BY <1>1 DEF Exit, Inv, TypeOK, CacheFresh, file, locals
<1>2. CASE ~(bp = 0 /\ pos = Len(bytes))
  <2>1. cmd = "get" /\ i < n /\ ~rem
    BY DEF ReadBit, Inv, CacheFresh
  <2>2. pos' \in 1 .. Len(bytes) /\ bc' = bytes[pos']
    <3>1. /\ pos' = (IF bp = 0 THEN pos + 1 ELSE pos)
          /\ bc' = (IF bp = 0 THEN bytes[pos + 1] ELSE bc)
      BY <1>2 DEF ReadBit
    <3>2. pos \in 0 .. Len(bytes) /\ Len(bytes) \in Nat
      BY DEF Inv, TypeOK
    <3>3. bp # 0 => pos > 0 /\ bc = bytes[pos]
      BY <2>1 DEF Inv, CacheFresh
    <3> QED  BY <1>2, <3>1, <3>2, <3>3
  <2>3. bc' \in Byte
    BY <2>2 DEF Inv, TypeOK
  <2>4. bp' \in 0 .. W - 1
    BY <1>2, NextBit DEF ReadBit, Inv, TypeOK
  <2>5. bits' \in Seq({0, 1})
    <3>1. Nth(bp) \in 0 .. W - 1
      BY NthType DEF Inv, TypeOK
    <3>2. bc'[Nth(bp)] \in {0, 1}
      BY <2>3, <3>1 DEF Byte
    <3>3. bits' = Append(bits, bc'[Nth(bp)]) /\ bits \in Seq({0, 1})
      BY <1>2 DEF ReadBit, Inv, TypeOK
    <3> QED  BY <3>2, <3>3
  <2>6. TypeOK'
    <3>1. i' = i + 1 /\ UNCHANGED <<bytes, bitchr, bitpos, bitoff, endian, mode, cmd, n, rem, todo, moved, st>>
      BY <1>2 DEF ReadBit
    <3> QED  BY <2>1, <2>2, <2>3, <2>4, <2>5, <3>1 DEF Inv, TypeOK
  <2>7. CacheFresh'
    BY <1>2, <2>1, <2>2 DEF ReadBit, Inv, TypeOK, CacheFresh
  <2> QED  BY <2>6, <2>7 DEF Inv
<1> QED  BY <1>1, <1>2 DEF ReadBit

LEMMA WriteBitInv ==
    ASSUME Inv, WriteBit
    PROVE  Inv'
<1> DEFINE f == Flushed
           g == IF f.pos < Len(f.bytes) THEN [bytes |-> f.bytes, pos |-> f.pos + 1]
                ELSE Put(f.bytes, f.pos, Zero)
           old == IF bp # 0 THEN bc ELSE IF f.pos < Len(f.bytes) THEN f.bytes[f.pos + 1] ELSE Zero
<1>1. /\ bytes' = IF bp = 0 THEN g.bytes ELSE bytes
      /\ pos' = IF bp = 0 THEN g.pos ELSE pos
      /\ bc' = [old EXCEPT ![Nth(bp)] = Digit]
  BY DEF WriteBit
<1>2. f.bytes \in Seq(Byte) /\ f.pos \in 0 .. Len(f.bytes)
  BY FlushType DEF Inv
<1> HIDE DEF f
<1>3. g.bytes \in Seq(Byte) /\ g.pos \in 1 .. Len(g.bytes)
  <2>1. CASE f.pos < Len(f.bytes)
    BY <1>2, <2>1
  <2>2. CASE ~(f.pos < Len(f.bytes))
    BY <1>2, <2>2, PutType, ZeroType
  <2> QED  BY <2>1, <2>2
<1>4. old \in Byte
  BY <1>2, ZeroType DEF Inv, TypeOK
<1> HIDE DEF g, old
<1>5. bytes' \in Seq(Byte) /\ pos' \in 1 .. Len(bytes')
  BY <1>1, <1>3 DEF WriteBit, Inv, TypeOK, CacheFresh
<1>6. Digit \in {0, 1}
  BY DEF Digit
<1>7. bc' \in Byte
  <2>1. Nth(bp) \in 0 .. W - 1
    BY NthType DEF Inv, TypeOK
  <2> QED  BY <1>1, <1>4, <1>6, <2>1 DEF Byte
<1>8. bp' \in 0 .. W - 1
  BY NextBit DEF WriteBit, Inv, TypeOK
<1>9. bits' \in Seq({0, 1})
  BY <1>6 DEF WriteBit, Inv, TypeOK
<1>10. TypeOK'
  BY <1>5, <1>7, <1>8, <1>9 DEF WriteBit, Inv, TypeOK
<1>11. CacheFresh'
  BY <1>5 DEF WriteBit, Inv, CacheFresh
<1> QED  BY <1>10, <1>11 DEF Inv

LEMMA NextPieceInv ==
    ASSUME Inv, NextPiece
    PROVE  Inv'
<1>1. n' \in Nat /\ todo' \in Nat /\ 0 \in 0 .. n'
  <2>1. Piece(todo, FALSE) \in 0 .. todo
    BY WidthAssumption DEF Piece, Inv, TypeOK
  <2>2. n' = Piece(todo, FALSE) /\ todo' = todo - Piece(todo, FALSE)
    BY DEF NextPiece
  <2>3. PICK k \in 0 .. todo : k = Piece(todo, FALSE)
    BY <2>1
  <2>4. n' = k /\ todo' = todo - k
    BY <2>2, <2>3
  <2>5. todo \in Nat
    BY DEF Inv, TypeOK
  <2>6. k \in Nat /\ todo - k \in Nat /\ 0 \in 0 .. k
    BY <2>5
  <2> QED  BY <2>4, <2>6
<1>2. /\ bytes' \in Seq(Byte) /\ pos' \in 0 .. Len(bytes')
      /\ rem => pos' > 0 /\ bytes'[pos'] = bc
      /\ ~rem => pos' = pos /\ bytes' = bytes
  BY FlushType DEF NextPiece, Inv
<1>3. TypeOK'
  BY <1>1, <1>2 DEF NextPiece, Inv, TypeOK
<1>4. CacheFresh'
  BY <1>2 DEF NextPiece, Inv, CacheFresh
<1> QED  BY <1>3, <1>4 DEF Inv

\* What a command on bits keeps for the next one is what it has written back.
LEMMA FinishInv ==
    ASSUME Inv, Finish
    PROVE  Inv'
<1>1. /\ bytes' \in Seq(Byte) /\ pos' \in 0 .. Len(bytes')
      /\ rem => pos' > 0 /\ bytes'[pos'] = bc
      /\ ~rem => pos' = pos /\ bytes' = bytes
  BY FlushType DEF Finish, Inv
<1>2. TypeOK'
  <2>1. /\ bitchr' = bc /\ bitpos' = bp /\ bitoff' = pos' /\ cmd' = "none" /\ moved' = FALSE
        /\ n' = 0 /\ i' = 0 /\ bc' = Zero /\ bp' = 0 /\ rem' = FALSE
        /\ UNCHANGED <<todo, endian, mode, bits, st>>
    BY DEF Finish
  <2>2. bitpos' \in 0 .. W - 1 /\ bp' \in 0 .. W - 1 /\ bitchr' \in Byte /\ bitoff' \in Nat
    BY <1>1, <2>1, WidthAssumption DEF Inv, TypeOK
  <2>3. n' \in Nat /\ i' \in 0 .. n'
    BY <2>1
  <2>4. bc' \in Byte /\ rem' \in BOOLEAN /\ moved' \in BOOLEAN
    BY <2>1, ZeroType
  <2> QED  BY <1>1, <2>1, <2>2, <2>3, <2>4 DEF Inv, TypeOK
<1>3. CacheFresh'
  BY <1>1 DEF Finish, Inv, CacheFresh, TypeOK
<1> QED  BY <1>2, <1>3 DEF Inv

\* A command on bytes leaves the cache alone, but no longer relies on it.
LEMMA MoveToInv ==
    ASSUME Inv, Idle, NEW b \in Seq(Byte), NEW p \in 0 .. Len(b), MoveTo(b, p)
    PROVE  Inv'
<1>1. TypeOK'
  BY DEF MoveTo, Idle, Inv, TypeOK, locals
<1>2. CacheFresh'
  BY DEF MoveTo, Idle, Inv, CacheFresh, locals
<1> QED  BY <1>1, <1>2 DEF Inv

LEMMA OnBytesInv ==
    ASSUME Inv, OnBytes
    PROVE  Inv'
<1> USE DEF Inv
<1>1. CASE GetByte
  <2>1. CASE Exit
    BY <2>1 DEF Exit, TypeOK, CacheFresh, file, locals
  <2>2. CASE pos < Len(bytes) /\ MoveTo(bytes, pos + 1)
    BY <1>1, <2>2, MoveToInv DEF GetByte, TypeOK
  <2> QED  BY <1>1, <2>1, <2>2 DEF GetByte
<1>2. CASE PutByte
  <2>1. PICK c \in Byte : MoveTo(Put(bytes, pos, c).bytes, Put(bytes, pos, c).pos)
    BY <1>2 DEF PutByte
  <2>2. /\ Put(bytes, pos, c).bytes \in Seq(Byte)
        /\ Put(bytes, pos, c).pos \in 0 .. Len(Put(bytes, pos, c).bytes)
    BY PutType DEF TypeOK
  <2> QED  BY <1>2, <2>1, <2>2, MoveToInv DEF PutByte
<1>3. CASE GoTo
  BY <1>3, MoveToInv DEF GoTo, TypeOK
<1>4. CASE Restart
  <2>1. <<>> \in Seq(Byte) /\ 0 \in 0 .. Len(<<>>)
    OBVIOUS
  <2>2. Idle /\ MoveTo(<<>>, 0)
    BY <1>4 DEF Restart
  <2> QED  BY <2>1, <2>2, MoveToInv
<1>5. CASE Log
  <2>1. bytes' \in Seq(Byte)
    BY <1>5, BoundAssumption DEF Log
  <2>2. TypeOK'
    BY <1>5, <2>1, ZeroType, WidthAssumption DEF Log, Idle, TypeOK, locals
  <2>3. CacheFresh'
    BY <1>5 DEF Log, Idle, CacheFresh, locals
  <2> QED  BY <2>2, <2>3
<1>6. CASE Endian
  BY <1>6 DEF Endian, Idle, TypeOK, CacheFresh, file, locals
<1>7. CASE Terminated
  BY <1>7 DEF Terminated, TypeOK, CacheFresh, vars, file, locals
<1> QED  BY <1>1, <1>2, <1>3, <1>4, <1>5, <1>6, <1>7 DEF OnBytes

LEMMA PokeInv ==
    ASSUME Inv, NEW k \in DOMAIN bytes, Poke(k), ~(Pending /\ k = pos)
    PROVE  Inv'
<1>1. PICK c \in Byte : bytes' = [bytes EXCEPT ![k] = c]
  BY DEF Poke
<1>2. bytes' \in Seq(Byte) /\ Len(bytes') = Len(bytes)
  BY <1>1 DEF Inv, TypeOK
<1>3. \A j \in DOMAIN bytes : j # k => bytes'[j] = bytes[j]
  BY <1>1 DEF Inv, TypeOK
<1>4. TypeOK'
  BY <1>2 DEF Poke, Idle, Inv, TypeOK, locals
<1>5. CacheFresh'
  BY <1>3 DEF Poke, Idle, Pending, Inv, TypeOK, CacheFresh, locals
<1> QED  BY <1>4, <1>5 DEF Inv

LEMMA InvStep ==
    ASSUME Inv, [PlainNext]_vars
    PROVE  Inv'
<1>1. CASE OnBits /\ (cmd = "none" => ~(Pending /\ moved))
  <2>1. CASE GetBits
    BY <1>1, <2>1, StartInv DEF GetBits, Start, Idle
  <2>2. CASE PutBits
    BY <1>1, <2>2, StartInv DEF PutBits, Start, Idle
  <2> QED
    BY <1>1, <2>1, <2>2, ReadBitInv, WriteBitInv, NextPieceInv, FinishInv DEF OnBits
<1>2. CASE OnBytes
  BY <1>2, OnBytesInv
<1>3. CASE \E k \in DOMAIN bytes : Poke(k) /\ ~(Pending /\ k = pos)
  BY <1>3, PokeInv
<1>4. CASE UNCHANGED vars
  BY <1>4 DEF Inv, TypeOK, CacheFresh, vars, file, locals
<1> QED  BY <1>1, <1>2, <1>3, <1>4 DEF PlainNext

\* The position, the cache and the locals of the bit functions keep their types,
\* for bytes of any width and files of any size.
THEOREM BitsTypeCorrect == PlainSpec => []TypeOK
<1>1. PlainSpec => []Inv
  BY InvInit, InvStep, PTL DEF PlainSpec
<1>2. Inv => TypeOK
  BY DEF Inv
<1> QED  BY <1>1, <1>2, PTL

\* The byte that GetBits and PutBits take from the cache is the one in the file,
\* in every append mode.
THEOREM BitsCacheFresh == PlainSpec => []CacheFresh
<1>1. PlainSpec => []Inv
  BY InvInit, InvStep, PTL DEF PlainSpec
<1>2. Inv => CacheFresh
  BY DEF Inv
<1> QED  BY <1>1, <1>2, PTL

-----------------------------------------------------------------------------
(* The stream of bits *)

\* Outside of the append modes the byte that is written back is the one the
\* position is behind, so the contents do not change.
LEMMA FlushIsContents ==
    ASSUME Inv, mode = "none"
    PROVE  Flushed.bytes = Contents /\ Flushed.pos = pos
<1>1. CASE rem
  <2>1. pos \in 1 .. Len(bytes)
    BY <1>1 DEF Inv, TypeOK, CacheFresh
  <2>2. pos - 1 < Len(bytes) /\ pos - 1 + 1 = pos
    BY <2>1
  <2> QED  BY <1>1, <2>1, <2>2 DEF Flushed, Put, Contents, Inv, TypeOK
<1>2. CASE ~rem
  BY <1>2 DEF Flushed, Contents
<1> QED  BY <1>1, <1>2 DEF Inv, TypeOK

\* Between the commands there is nothing left to write.
LEMMA IdleContents ==
    ASSUME Inv, cmd = "none"
    PROVE  ~rem /\ Contents = bytes
  BY DEF Inv, CacheFresh, Contents

LEMMA StartImplements ==
    ASSUME Inv, NEW c \in {"get", "put"}, Start(c), ~(Pending /\ moved)
    PROVE  Stream!Begin
<1>1. Contents' = Contents
  BY IdleContents DEF Start, Idle, file, Contents
<1>2. Used' = Used
  BY DEF Start, Idle, Used, Pending, Inv, TypeOK, CacheFresh
<1> QED  BY <1>1, <1>2 DEF Stream!Begin, Start, file

LEMMA ExitImplements ==
    ASSUME Exit
    PROVE  Stream!Exit
  BY DEF Exit, Stream!Exit, Contents, Used, file, locals

LEMMA ReadBitImplements ==
    ASSUME Inv, ReadBit
    PROVE  Stream!Exit \/ Stream!ReadBit
<1>1. CASE Exit
  BY <1>1, ExitImplements
<1>2. CASE ~(bp = 0 /\ pos = Len(bytes))
  <2>1. cmd = "get" /\ ~rem /\ ~rem' /\ cmd' = "get"
    BY <1>2 DEF ReadBit, Inv, CacheFresh
  <2>2. Contents = bytes /\ Contents' = bytes
    BY <1>2, <2>1 DEF Contents, ReadBit
  <2>3. Used = bp /\ Used' = bp'
    BY <2>1 DEF Used
  <2>4. pos' \in DOMAIN bytes /\ bc' = bytes[pos']
    BY <1>2, <2>1 DEF ReadBit, Inv, TypeOK, CacheFresh
  <2>5. Stream!Next_ = pos'
    BY <1>2, <2>3 DEF ReadBit, Stream!Next_
  <2>6. bits' = Append(bits, bytes[pos'][Nth(bp)]) /\ bp' = (bp + 1) % W
    BY <1>2, <2>4 DEF ReadBit
  <2>7. Stream!Nth(Used) = Nth(bp)
    BY <2>3 DEF Stream!Nth, Nth
  <2>8. UNCHANGED <<endian, st>>
    BY <1>2 DEF ReadBit
  <2> QED  BY <2>2, <2>3, <2>4, <2>5, <2>6, <2>7, <2>8 DEF Stream!ReadBit
<1> QED  BY <1>1, <1>2 DEF ReadBit

\* A bit in the byte that is partly used, or in the next one, or in one that is
\* added.
LEMMA WriteBitImplements ==
    ASSUME Inv, mode = "none", WriteBit
    PROVE  Stream!WriteBit(Digit)
<1> DEFINE z == [bc EXCEPT ![Nth(bp)] = Digit]
           next == IF pos < Len(bytes) THEN Contents[pos + 1] ELSE Zero
           y == [next EXCEPT ![Nth(bp)] = Digit]
<1>1. cmd = "put" /\ cmd' = "put" /\ rem' /\ bp' = (bp + 1) % W /\ bits' = Append(bits, Digit) /\ UNCHANGED <<endian, st>>
  BY DEF WriteBit
<1>2. Used = bp /\ Used' = bp'
  BY <1>1 DEF Used
<1>3. Stream!Nth(Used) = Nth(bp)
  BY <1>2 DEF Stream!Nth, Nth
<1>4. Contents' = [bytes' EXCEPT ![pos'] = bc']
  BY <1>1 DEF Contents
<1>5. bytes \in Seq(Byte) /\ pos \in 0 .. Len(bytes) /\ bc \in Byte
  BY DEF Inv, TypeOK
<1>6. Contents \in Seq(Byte) /\ Len(Contents) = Len(bytes) /\ DOMAIN Contents = DOMAIN bytes
  <2>1. CASE rem
    <3>1. pos \in 1 .. Len(bytes)
      BY <1>5, <2>1 DEF Inv, CacheFresh
    <3>2. /\ [bytes EXCEPT ![pos] = bc] \in Seq(Byte)
          /\ Len([bytes EXCEPT ![pos] = bc]) = Len(bytes)
          /\ DOMAIN [bytes EXCEPT ![pos] = bc] = DOMAIN bytes
      BY <1>5, <3>1
    <3> QED  BY <2>1, <3>2 DEF Contents
  <2>2. CASE ~rem
    BY <1>5, <2>2 DEF Contents
  <2> QED  BY <2>1, <2>2
<1>7. CASE bp # 0
  <2>1. bytes' = bytes /\ pos' = pos /\ bc' = z
    BY <1>7 DEF WriteBit
  <2>2. pos \in DOMAIN bytes
    BY <1>1, <1>5, <1>7 DEF Inv, CacheFresh
  <2>3. Contents[pos] = bc
    BY <1>1, <1>5, <1>7, <2>2 DEF Contents, Inv, CacheFresh
  <2>4. Stream!Next_ = pos
    BY <1>2, <1>7 DEF Stream!Next_
  <2>5. Contents' = [Contents EXCEPT ![pos] = z]
    BY <1>4, <1>5, <2>1, <2>2 DEF Contents
  <2>6. Contents' = [Contents EXCEPT ![pos] = [@ EXCEPT ![Nth(bp)] = Digit]]
    BY <2>3, <2>5
  <2>7. Stream!Next_ \in DOMAIN Contents
    BY <1>6, <2>2, <2>4
  <2> QED  BY <1>1, <1>2, <1>3, <2>1, <2>4, <2>6, <2>7 DEF Stream!WriteBit
<1>8. CASE bp = 0 /\ pos < Len(bytes)
  <2>1. bytes' = Contents /\ pos' = pos + 1 /\ bc' = [Contents[pos + 1] EXCEPT ![Nth(bp)] = Digit]
    BY <1>6, <1>8, FlushIsContents DEF WriteBit
  <2>2. pos + 1 \in DOMAIN Contents
    BY <1>5, <1>6, <1>8
  <2>3. Stream!Next_ = pos + 1
    BY <1>2, <1>8 DEF Stream!Next_
  <2>4. Contents' = [Contents EXCEPT ![pos + 1] = [@ EXCEPT ![Nth(bp)] = Digit]]
    BY <1>4, <2>1, <2>2
  <2> QED  BY <1>1, <1>2, <1>3, <2>1, <2>2, <2>3, <2>4 DEF Stream!WriteBit
<1>9. CASE bp = 0 /\ pos = Len(bytes)
  <2> DEFINE b == Append(Contents, Zero)
  <2>1. bytes' = b /\ pos' = pos + 1 /\ bc' = [Zero EXCEPT ![Nth(bp)] = Digit]
    <3>1. Put(Contents, pos, Zero) = [bytes |-> b, pos |-> pos + 1]
      BY <1>6, <1>9 DEF Put
    <3>2. Flushed.bytes = Contents /\ Flushed.pos = pos /\ ~(pos < Len(Contents))
      BY <1>5, <1>6, <1>9, FlushIsContents
    <3>3. /\ bytes' = Put(Contents, pos, Zero).bytes
          /\ pos' = Put(Contents, pos, Zero).pos
          /\ bc' = [Zero EXCEPT ![Nth(bp)] = Digit]
      BY <1>9, <3>2 DEF WriteBit
    <3> QED  BY <3>1, <3>3
  <2>2. pos + 1 \in DOMAIN b /\ b[pos + 1] = Zero /\ pos + 1 \notin DOMAIN Contents
    BY <1>5, <1>6, <1>9, ZeroType
  <2>3. Stream!Next_ = pos + 1
    BY <1>2, <1>9 DEF Stream!Next_
  <2>4. Contents' = [b EXCEPT ![pos + 1] = [@ EXCEPT ![Nth(bp)] = Digit]]
    BY <1>4, <2>1, <2>2
  <2>5. Stream!Zero = Zero
    BY DEF Stream!Zero, Zero
  <2> HIDE DEF b
  <2>6. (IF Stream!Next_ \in DOMAIN Contents THEN Contents ELSE Append(Contents, Stream!Zero)) = b
    BY <2>2, <2>3, <2>5 DEF b
  <2> QED  BY <1>1, <1>2, <1>3, <2>1, <2>3, <2>4, <2>6 DEF Stream!WriteBit
<1> QED  BY <1>5, <1>7, <1>8, <1>9

\* Writing back and keeping the byte is no step of the stream.
LEMMA FlushImplements ==
    ASSUME Inv, mode = "none", NextPiece \/ Finish
    PROVE  UNCHANGED Stream!vars
<1>1. bytes' = Flushed.bytes /\ pos' = Flushed.pos /\ ~rem' /\ UNCHANGED <<endian, bits, st>>
  BY DEF NextPiece, Finish
<1>2. Contents' = Contents /\ pos' = pos
  BY <1>1, FlushIsContents DEF Contents
<1>3. Used' = Used
  <2>1. CASE NextPiece
    BY <2>1 DEF NextPiece, Used
  <2>2. CASE Finish
    BY <2>2 DEF Finish, Used
  <2> QED  BY <2>1, <2>2
<1> QED  BY <1>1, <1>2, <1>3 DEF Stream!vars

LEMMA MoveToImplements ==
    ASSUME Inv, Idle, NEW b, NEW p, MoveTo(b, p)
    PROVE  Stream!MoveTo(b, p)
<1>1. cmd = "none" /\ cmd' = "none" /\ moved' /\ rem' = rem
  BY DEF Idle, MoveTo, locals
<1>2. ~rem
  BY <1>1, IdleContents
<1>3. Contents' = b /\ Used' = 0 /\ pos' = p
  BY <1>1, <1>2 DEF MoveTo, Contents, Used
<1> QED  BY <1>3 DEF Stream!MoveTo, MoveTo

LEMMA OnBytesImplements ==
    ASSUME Inv, mode = "none", OnBytes
    PROVE  [Stream!Next]_(Stream!vars)
<1> USE DEF Stream!Next
<1>1. CASE GetByte
  <2>1. CASE Exit
    BY <2>1, ExitImplements
  <2>2. CASE Idle /\ pos < Len(bytes) /\ MoveTo(bytes, pos + 1)
    <3>1. Contents = bytes
      BY <2>2, IdleContents DEF Idle
    <3>2. Stream!MoveTo(bytes, pos + 1)
      BY <2>2, MoveToImplements
    <3> QED  BY <2>2, <3>1, <3>2 DEF Stream!ReadByte
  <2> QED  BY <1>1, <2>1, <2>2 DEF GetByte
<1>2. CASE PutByte
  <2>1. PICK c \in Byte : MoveTo(Put(bytes, pos, c).bytes, Put(bytes, pos, c).pos)
    BY <1>2 DEF PutByte
  <2>2. Contents = bytes
    BY <1>2, IdleContents DEF PutByte, Idle
  <2>3. Stream!MoveTo(Put(bytes, pos, c).bytes, Put(bytes, pos, c).pos)
    BY <1>2, <2>1, MoveToImplements DEF PutByte
  <2>4. /\ Put(bytes, pos, c).bytes = IF pos < Len(bytes) THEN [bytes EXCEPT ![pos + 1] = c] ELSE Append(bytes, c)
        /\ Put(bytes, pos, c).pos = pos + 1
    BY DEF Put
  <2>5. Stream!WriteByte(c)
    BY <2>2, <2>3, <2>4 DEF Stream!WriteByte
  <2>6. c \in Stream!Byte
    BY DEF Stream!Byte, Byte
  <2> QED  BY <2>5, <2>6
<1>3. CASE GoTo
  <2>1. PICK p \in 0 .. Len(bytes) : MoveTo(bytes, p)
    BY <1>3 DEF GoTo
  <2>2. Contents = bytes
    BY <1>3, IdleContents DEF GoTo, Idle
  <2>3. Stream!MoveTo(bytes, p)
    BY <1>3, <2>1, MoveToImplements DEF GoTo
  <2>4. p <= Len(bytes)
    BY <2>1 DEF Inv, TypeOK
  <2>5. Stream!GoTo(p)
    BY <2>2, <2>3, <2>4 DEF Stream!GoTo
  <2> QED  BY <2>1, <2>2, <2>5
<1>4. CASE Restart
  <2>1. Stream!MoveTo(<<>>, 0)
    BY <1>4, MoveToImplements DEF Restart
  <2>2. Contents' = <<>>
    BY <2>1 DEF Stream!MoveTo
  <2> QED  BY <2>1, <2>2 DEF Stream!Load
<1>5. CASE Log
  <2>1. ~rem /\ rem' = rem /\ cmd = "none" /\ cmd' = cmd
    BY <1>5, IdleContents DEF Log, Idle, locals
  <2>2. Contents' = bytes' /\ Used' = 0
    BY <1>5, <2>1 DEF Contents, Used, Log
  <2>3. Stream!MoveTo(Contents', 0)
    BY <1>5, <2>2 DEF Stream!MoveTo, Log
  <2> QED  BY <2>3 DEF Stream!Load
<1>6. CASE Endian
  <2>1. Stream!Endian
    BY <1>6 DEF Endian, Stream!Endian, Contents, Used, file, locals
  <2> QED  BY <2>1
<1>7. CASE Terminated
  BY <1>7 DEF Terminated, Stream!vars, Contents, Used, vars, file, locals
<1> QED  BY <1>1, <1>2, <1>3, <1>4, <1>5, <1>6, <1>7 DEF OnBytes

LEMMA PokeImplements ==
    ASSUME Inv, NEW k \in DOMAIN bytes, Poke(k)
    PROVE  \E c \in Stream!Byte : k \in DOMAIN Contents /\ Stream!Poke(k, c)
<1>1. PICK c \in Byte : bytes' = [bytes EXCEPT ![k] = c]
  BY DEF Poke
<1>2. ~rem /\ Contents = bytes /\ rem' = rem
  BY IdleContents DEF Poke, Idle, locals
<1>3. Contents' = [Contents EXCEPT ![k] = c]
  BY <1>1, <1>2 DEF Contents
<1>4. Used' = Used
  BY DEF Poke, Used, locals
<1>5. c \in Stream!Byte
  BY DEF Stream!Byte, Byte
<1> QED  BY <1>2, <1>3, <1>4, <1>5 DEF Stream!Poke, Poke

LEMMA InitImplements == Init => Stream!Init
<1> SUFFICES ASSUME Init PROVE Stream!Init
  OBVIOUS
<1>1. bytes \in Seq(Byte)
  BY BoundAssumption DEF Init
<1>2. Contents = bytes /\ Used = 0
  BY DEF Init, Contents, Used
<1>3. Stream!Byte = Byte
  BY DEF Stream!Byte, Byte
<1> QED  BY <1>1, <1>2, <1>3 DEF Init, Stream!Init

LEMMA StepImplements ==
    ASSUME Inv, mode = "none", [PlainNext]_vars
    PROVE  [Stream!Next]_(Stream!vars)
<1>1. CASE OnBits /\ (cmd = "none" => ~(Pending /\ moved))
  <2>1. CASE GetBits \/ PutBits
    BY <1>1, <2>1, StartImplements DEF GetBits, PutBits, Start, Idle, Stream!Next
  <2>2. CASE ReadBit
    BY <2>2, ReadBitImplements DEF Stream!Next
  <2>3. CASE WriteBit
    <3>1. Digit \in {0, 1}
      BY DEF Digit
    <3> QED  BY <2>3, <3>1, WriteBitImplements DEF Stream!Next
  <2>4. CASE NextPiece \/ Finish
    BY <2>4, FlushImplements
  <2> QED  BY <1>1, <2>1, <2>2, <2>3, <2>4 DEF OnBits
<1>2. CASE OnBytes
  BY <1>2, OnBytesImplements
<1>3. CASE \E k \in DOMAIN bytes : Poke(k) /\ ~(Pending /\ k = pos)
  BY <1>3, PokeImplements DEF Stream!Next
<1>4. CASE UNCHANGED vars
  BY <1>4 DEF Stream!vars, Contents, Used, vars, file, locals
<1> QED  BY <1>1, <1>2, <1>3, <1>4 DEF PlainNext

\* The bits that GetBits and PutBits read and write are those of a stream without
\* a cache, for bytes of any width, files of any size and any order of commands
\* that does not return to a byte that is partly used (readme.md:4299-4322).
THEOREM BitsAreAStream ==
    ASSUME Modes = {"none"}
    PROVE  PlainSpec => ImplementsBitStream
<1>1. PlainSpec => []Inv
  BY InvInit, InvStep, PTL DEF PlainSpec
<1>2. Inv => mode = "none"
  BY DEF Inv, TypeOK
<1>3. Inv /\ [PlainNext]_vars => [Stream!Next]_(Stream!vars)
  BY <1>2, StepImplements
<1> QED
  BY <1>1, <1>3, InitImplements, PTL DEF PlainSpec, ImplementsBitStream, Stream!Spec
-----------------------------------------------------------------------------
(* Induction *)

\* A set of natural numbers that is not empty has a least one.
LEMMA NatLeast ==
    ASSUME NEW S, S \subseteq Nat, S # {}
    PROVE  \E x \in S : \A y \in S : x <= y
<1> DEFINE R == OpToRel(<, Nat)
<1>1. IsWellFoundedOn(R, Nat)
  BY NatLessThanWellFounded
<1>2. \A x, y \in Nat : x < y => <<x, y>> \in R
  BY DEF OpToRel
<1> HIDE DEF R
<1>3. PICK x \in S : \A y \in S : ~(<<y, x>> \in R)
  BY <1>1, WFMin
<1>4. ASSUME NEW y \in S PROVE x <= y
  <2>1. ~(<<y, x>> \in R) /\ x \in Nat /\ y \in Nat
    BY <1>3
  <2>2. ~(y < x)
    BY <1>2, <2>1
  <2> QED  BY <2>1, <2>2
<1> QED  BY <1>4

\* Induction, for a set instead of a predicate.
LEMMA NatInduct ==
    ASSUME NEW S, 0 \in S, \A k \in Nat : k \in S => k + 1 \in S
    PROVE  Nat \subseteq S
<1> SUFFICES ASSUME ~(Nat \subseteq S) PROVE FALSE
  OBVIOUS
<1>1. PICK x \in Nat \ S : \A y \in Nat \ S : x <= y
  BY NatLeast
<1>2. x \in Nat /\ x \notin S /\ x # 0
  BY <1>1
<1>3. x - 1 \in Nat /\ x - 1 \notin Nat \ S
  BY <1>1, <1>2
<1>4. (x - 1) + 1 \in S
  BY <1>3
<1> QED  BY <1>2, <1>4

\* f is what len turns of F make of x.
Turns(f, F, x, len) ==
    /\ f \in [0 .. len -> Int] /\ f[0] = x
    /\ \A k \in 0 .. len - 1 : f[k + 1] = F[<<k, f[k]>>]

LEMMA TurnsAgree ==
    ASSUME NEW F, NEW x, NEW len \in Nat, NEW more \in Nat, len <= more,
           NEW f, NEW g, Turns(f, F, x, len), Turns(g, F, x, more)
    PROVE  \A k \in 0 .. len : f[k] = g[k]
<1> DEFINE S == {k \in Nat : k <= len => f[k] = g[k]}
<1>1. 0 \in S
  BY DEF Turns
<1>2. ASSUME NEW k \in Nat, k \in S PROVE k + 1 \in S
  <2>1. CASE k + 1 <= len
    <3>1. k \in 0 .. len - 1 /\ k \in 0 .. more - 1 /\ f[k] = g[k]
      BY <1>2, <2>1
    <3>2. f[k + 1] = F[<<k, f[k]>>] /\ g[k + 1] = F[<<k, g[k]>>]
      BY <3>1 DEF Turns
    <3> QED  BY <3>1, <3>2
  <2>2. CASE ~(k + 1 <= len)
    BY <2>2
  <2> QED  BY <2>1, <2>2
<1> HIDE DEF S
<1>3. Nat \subseteq S
  BY <1>1, <1>2, NatInduct
<1> QED  BY <1>3 DEF S

LEMMA TurnsExist ==
    ASSUME NEW F \in [Nat \X Int -> Int], NEW x \in Int
    PROVE  \A len \in Nat : \E f : Turns(f, F, x, len)
<1> DEFINE S == {len \in Nat : \E f : Turns(f, F, x, len)}
<1>1. 0 \in S
  <2>1. Turns([k \in 0 .. 0 |-> x], F, x, 0)
    BY DEF Turns
  <2> QED  BY <2>1
<1>2. ASSUME NEW len \in Nat, len \in S PROVE len + 1 \in S
  <2>1. PICK f : Turns(f, F, x, len)
    BY <1>2
  <2> DEFINE g == [k \in 0 .. len + 1 |-> IF k <= len THEN f[k] ELSE F[<<len, f[len]>>]]
  <2>2. f \in [0 .. len -> Int] /\ f[len] \in Int /\ F[<<len, f[len]>>] \in Int
    BY <2>1 DEF Turns
  <2>3. g \in [0 .. len + 1 -> Int] /\ g[0] = x
    BY <2>1, <2>2 DEF Turns
  <2>4. ASSUME NEW k \in 0 .. (len + 1) - 1 PROVE g[k + 1] = F[<<k, g[k]>>]
    <3>1. /\ k \in 0 .. len + 1 /\ k + 1 \in 0 .. len + 1 /\ k <= len
          /\ k = len \/ (k \in 0 .. len - 1 /\ k + 1 <= len)
      OBVIOUS
    <3>2. g[k] = f[k] /\ g[k + 1] = IF k + 1 <= len THEN f[k + 1] ELSE F[<<len, f[len]>>]
      BY <3>1
    <3> HIDE DEF g
    <3>3. CASE k = len
      <4>1. ~(k + 1 <= len)
        BY <3>3
      <4> QED  BY <3>2, <3>3, <4>1
    <3>4. CASE k \in 0 .. len - 1 /\ k + 1 <= len
      <4>1. f[k + 1] = F[<<k, f[k]>>]
        BY <2>1, <3>4 DEF Turns
      <4> QED  BY <3>2, <3>4, <4>1
    <3> QED  BY <3>1, <3>3, <3>4
  <2> HIDE DEF g
  <2>5. Turns(g, F, x, len + 1)
    BY <2>3, <2>4 DEF Turns
  <2> QED  BY <2>5
<1> HIDE DEF S
<1>3. Nat \subseteq S
  BY <1>1, <1>2, NatInduct
<1> QED  BY <1>3 DEF S

\* A function may be defined from its value at 0 and that of the number before.
LEMMA Recursion ==
    ASSUME NEW F \in [Nat \X Int -> Int], NEW x \in Int
    PROVE  \E f \in [Nat -> Int] : f[0] = x /\ \A k \in Nat : f[k + 1] = F[<<k, f[k]>>]
<1> DEFINE g(len) == CHOOSE f : Turns(f, F, x, len)
           h == [k \in Nat |-> g(k)[k]]
<1>1. \A len \in Nat : Turns(g(len), F, x, len)
  BY TurnsExist
<1> HIDE DEF g
<1>2. h \in [Nat -> Int]
  BY <1>1 DEF Turns
<1>3. h[0] = x
  BY <1>1 DEF Turns
<1>4. ASSUME NEW k \in Nat PROVE h[k + 1] = F[<<k, h[k]>>]
  <2>1. Turns(g(k), F, x, k) /\ Turns(g(k + 1), F, x, k + 1)
    BY <1>1
  <2>2. g(k)[k] = g(k + 1)[k]
    <3>1. k \in 0 .. k /\ k <= k + 1 /\ k + 1 \in Nat
      OBVIOUS
    <3> QED  BY <2>1, <3>1, TurnsAgree
  <2>3. k \in 0 .. (k + 1) - 1
    OBVIOUS
  <2>4. g(k + 1)[k + 1] = F[<<k, g(k + 1)[k]>>]
    BY <2>1, <2>3 DEF Turns
  <2> QED  BY <2>2, <2>4
<1> HIDE DEF h
<1> QED  BY <1>2, <1>3, <1>4

-----------------------------------------------------------------------------
(* The powers of two *)

LEMMA TwoUnfolds ==
    /\ Two[0] = 1
    /\ \A k \in Nat : Two[k] \in Nat \ {0} /\ Two[k + 1] = 2 * Two[k]
<1> DEFINE F == [p \in Nat \X Int |-> 2 * p[2]]
<1>1. F \in [Nat \X Int -> Int] /\ 1 \in Int
  OBVIOUS
<1>2. \A k \in Nat : \A y \in Int : F[<<k, y>>] = 2 * y
  OBVIOUS
<1> HIDE DEF F
<1>3. PICK f \in [Nat -> Int] : f[0] = 1 /\ \A k \in Nat : f[k + 1] = F[<<k, f[k]>>]
  BY <1>1, Recursion, Zenon
<1>4. f = [k \in Nat |-> IF k = 0 THEN 1 ELSE 2 * f[k - 1]]
  <2>1. ASSUME NEW k \in Nat PROVE f[k] = IF k = 0 THEN 1 ELSE 2 * f[k - 1]
    <3>1. CASE k = 0
      BY <1>3, <3>1
    <3>2. CASE k # 0
      <4>1. k - 1 \in Nat /\ (k - 1) + 1 = k /\ f[k - 1] \in Int
        BY <1>3, <3>2
      <4>2. f[(k - 1) + 1] = F[<<k - 1, f[k - 1]>>]
        BY <1>3, <4>1
      <4> QED  BY <1>2, <3>2, <4>1, <4>2
    <3> QED  BY <3>1, <3>2
  <2> QED  BY <2>1
<1>5. Two = [k \in Nat |-> IF k = 0 THEN 1 ELSE 2 * Two[k - 1]]
  BY <1>4 DEF Two
<1>6. Two[0] = 1 /\ \A k \in Nat : Two[k + 1] = 2 * Two[k]
  BY <1>5
<1> DEFINE S == {k \in Nat : Two[k] \in Nat \ {0}}
<1>7. 0 \in S /\ \A k \in Nat : k \in S => k + 1 \in S
  BY <1>6
<1> HIDE DEF S
<1>8. Nat \subseteq S
  BY <1>7, NatInduct
<1> QED  BY <1>6, <1>8 DEF S

LEMMA TwoType == \A k \in Nat : Two[k] \in Nat /\ Two[k] \in Int
  BY TwoUnfolds

LEMMA TwoAdds ==
    ASSUME NEW a \in Nat
    PROVE  \A b \in Nat : Two[a + b] = Two[a] * Two[b]
<1> DEFINE S == {b \in Nat : Two[a + b] = Two[a] * Two[b]}
<1>1. 0 \in S
  BY TwoUnfolds
<1>2. ASSUME NEW b \in Nat, b \in S PROVE b + 1 \in S
  <2>1. a + b \in Nat /\ a + (b + 1) = (a + b) + 1
    OBVIOUS
  <2>2. /\ Two[(a + b) + 1] = 2 * Two[a + b] /\ Two[b + 1] = 2 * Two[b]
        /\ Two[a] \in Nat /\ Two[b] \in Nat
    BY <2>1, TwoUnfolds
  <2>3. Two[a + b] = Two[a] * Two[b]
    BY <1>2
  <2>4. \A x, y \in Nat : 2 * (x * y) = x * (2 * y)
    OBVIOUS
  <2> QED  BY <2>1, <2>2, <2>3, <2>4
<1> HIDE DEF S
<1>3. Nat \subseteq S
  BY <1>1, <1>2, NatInduct
<1> QED  BY <1>3 DEF S

-----------------------------------------------------------------------------
(* The number that a sequence of bits stands for *)

\* v is what the first bits of s stand for, as many as it is applied to.
Values(v, e, s) ==
    v = [k \in 0 .. Len(s) |->
            IF k = 0 THEN 0
            ELSE IF e = "little" THEN v[k - 1] + s[k] * Two[k - 1]
            ELSE 2 * v[k - 1] + s[k]]

\* Number, for a given endian.
Valued(e, s) == (CHOOSE v : Values(v, e, s))[Len(s)]

LEMMA NumberValued == \A s : Number(s) = Valued(endian, s)
  BY DEF Number, Valued, Values

LEMMA ValuesExist ==
    ASSUME NEW e, NEW s \in Seq({0, 1})
    PROVE  \E v : Values(v, e, s)
<1>0. ASSUME NEW k \in Nat PROVE Two[k] \in Int
  BY TwoType, Zenon
<1> DEFINE bit(k) == IF k \in DOMAIN s THEN s[k] ELSE 0
           turn(k, y) == IF e = "little" THEN y + bit(k + 1) * Two[k] ELSE 2 * y + bit(k + 1)
           F == [p \in Nat \X Int |-> turn(p[1], p[2])]
<1>1. ASSUME NEW k \in Nat PROVE bit(k + 1) \in Int
  OBVIOUS
<1> HIDE DEF bit
<1>2. ASSUME NEW k \in Nat, NEW y \in Int PROVE turn(k, y) \in Int
  <2>1. PICK b \in Int : b = bit(k + 1)
    BY <1>1
  <2>2. PICK t \in Int : t = Two[k]
    BY <1>0
  <2>3. y + b * t \in Int /\ 2 * y + b \in Int
    OBVIOUS
  <2> QED  BY <2>1, <2>2, <2>3
<1> HIDE DEF turn
<1>3. F \in [Nat \X Int -> Int]
  BY <1>2
<1>4. \A k \in Nat : \A y \in Int : F[<<k, y>>] = turn(k, y)
  OBVIOUS
<1> HIDE DEF F
<1>5. 0 \in Int
  OBVIOUS
<1>6. PICK f \in [Nat -> Int] : f[0] = 0 /\ \A k \in Nat : f[k + 1] = F[<<k, f[k]>>]
  BY <1>3, <1>5, Recursion, Zenon
<1> DEFINE v == [k \in 0 .. Len(s) |-> f[k]]
<1>7. ASSUME NEW k \in 0 .. Len(s)
      PROVE  v[k] = IF k = 0 THEN 0
                    ELSE IF e = "little" THEN v[k - 1] + s[k] * Two[k - 1]
                    ELSE 2 * v[k - 1] + s[k]
  <2>1. CASE k = 0
    BY <1>6, <2>1
  <2>2. CASE k # 0
    <3>1. /\ k - 1 \in Nat /\ (k - 1) + 1 = k /\ k - 1 \in 0 .. Len(s) /\ f[k - 1] \in Int
          /\ k \in DOMAIN s
      BY <1>6, <2>2
    <3>2. f[k] = turn(k - 1, f[k - 1])
      BY <1>4, <1>6, <3>1
    <3>3. bit((k - 1) + 1) = s[k]
      BY <3>1 DEF bit
    <3>4. f[k] = IF e = "little" THEN f[k - 1] + s[k] * Two[k - 1] ELSE 2 * f[k - 1] + s[k]
      BY <3>2, <3>3 DEF turn
    <3>5. v[k] = f[k] /\ v[k - 1] = f[k - 1]
      BY <3>1
    <3> QED  BY <2>2, <3>4, <3>5
  <2> QED  BY <2>1, <2>2
<1>8. Values(v, e, s)
  BY <1>7 DEF Values
<1> QED  BY <1>8

\* The value of k + 1 bits from that of k.
Turned(v, e, s, k) == IF e = "little" THEN v[k] + s[k + 1] * Two[k] ELSE 2 * v[k] + s[k + 1]

LEMMA ValuesUnfold ==
    ASSUME NEW e, NEW s \in Seq({0, 1}), NEW v, Values(v, e, s)
    PROVE  v[0] = 0 /\ \A k \in Nat : k < Len(s) => v[k + 1] = Turned(v, e, s, k)
<1> DEFINE rhs(k) == IF e = "little" THEN v[k - 1] + s[k] * Two[k - 1] ELSE 2 * v[k - 1] + s[k]
<1>1. v = [k \in 0 .. Len(s) |-> IF k = 0 THEN 0 ELSE rhs(k)]
  BY DEF Values
<1> HIDE DEF rhs
<1>2. Len(s) \in Nat
  OBVIOUS
<1>3. v[0] = 0
  BY <1>1, <1>2
<1>4. ASSUME NEW k \in Nat, k < Len(s) PROVE v[k + 1] = Turned(v, e, s, k)
  <2>1. k + 1 \in 0 .. Len(s) /\ k + 1 # 0 /\ (k + 1) - 1 = k
    BY <1>2, <1>4
  <2>2. v[k + 1] = rhs(k + 1)
    BY <1>1, <2>1
  <2> QED  BY <2>1, <2>2 DEF rhs, Turned
<1> QED  BY <1>3, <1>4

\* What follows does not matter to the first bits.
LEMMA ValuesAgree ==
    ASSUME NEW e, NEW s \in Seq({0, 1}), NEW more \in Seq({0, 1}), Len(more) = Len(s) + 1,
           \A k \in 1 .. Len(s) : more[k] = s[k],
           NEW v, NEW w, Values(v, e, s), Values(w, e, more)
    PROVE  v[Len(s)] \in Nat /\ w[Len(s)] = v[Len(s)]
<1> DEFINE S == {k \in Nat : k <= Len(s) => v[k] \in Nat /\ w[k] = v[k]}
<1>1. Len(more) = Len(s) + 1 /\ Len(s) \in Nat
  OBVIOUS
<1>2. \A k \in 1 .. Len(s) : more[k] = s[k] /\ s[k] \in Nat
  OBVIOUS
<1>3. 0 \in S
  <2>1. v[0] = 0
    BY ValuesUnfold
  <2>2. w[0] = 0
    BY <1>1, ValuesUnfold
  <2> QED  BY <2>1, <2>2
<1>4. ASSUME NEW k \in Nat, k \in S PROVE k + 1 \in S
  <2>1. CASE k + 1 <= Len(s)
    <3>1. k + 1 \in 1 .. Len(s) /\ k < Len(s) /\ k < Len(more)
      BY <1>1, <2>1
    <3>2. v[k] \in Nat /\ w[k] = v[k]
      BY <1>1, <1>4, <2>1
    <3>3. v[k + 1] = Turned(v, e, s, k)
      BY <3>1, ValuesUnfold
    <3>4. w[k + 1] = Turned(w, e, more, k)
      BY <3>1, ValuesUnfold
    <3>5. w[k + 1] = v[k + 1]
      BY <1>2, <3>1, <3>2, <3>3, <3>4 DEF Turned
    <3>6. s[k + 1] \in Nat /\ Two[k] \in Nat
      BY <1>2, <3>1, TwoUnfolds
    <3>7. \A x, y, z \in Nat : x + y * z \in Nat /\ 2 * x + y \in Nat
      OBVIOUS
    <3>8. v[k + 1] \in Nat
      BY <3>2, <3>3, <3>6, <3>7 DEF Turned
    <3> QED  BY <3>5, <3>8
  <2>2. CASE ~(k + 1 <= Len(s))
    BY <2>2
  <2> QED  BY <2>1, <2>2
<1> HIDE DEF S
<1>5. Nat \subseteq S
  BY <1>3, <1>4, NatInduct
<1> QED  BY <1>1, <1>5 DEF S

LEMMA ValuedIs ==
    ASSUME NEW e, NEW s \in Seq({0, 1})
    PROVE  \E v : Values(v, e, s) /\ Valued(e, s) = v[Len(s)]
<1> DEFINE v == CHOOSE u : Values(u, e, s)
<1>1. Values(v, e, s)
  BY ValuesExist
<1>2. Valued(e, s) = v[Len(s)]
  BY DEF Valued
<1> QED  BY <1>1, <1>2

\* A further bit is added on top, or behind.
LEMMA ValuedAppend ==
    ASSUME NEW e, NEW s \in Seq({0, 1}), NEW b \in {0, 1}
    PROVE  /\ Valued(e, s) \in Nat
           /\ Valued(e, Append(s, b)) =
                 IF e = "little" THEN Valued(e, s) + b * Two[Len(s)] ELSE 2 * Valued(e, s) + b
<1> DEFINE more == Append(s, b)
<1>1. more \in Seq({0, 1}) /\ Len(more) = Len(s) + 1 /\ Len(s) \in Nat
  OBVIOUS
<1>2. more[Len(s) + 1] = b /\ \A k \in 1 .. Len(s) : more[k] = s[k]
  OBVIOUS
<1> HIDE DEF more
<1>3. PICK v : Values(v, e, s) /\ Valued(e, s) = v[Len(s)]
  BY ValuedIs
<1>4. PICK w : Values(w, e, more) /\ Valued(e, more) = w[Len(more)]
  BY <1>1, ValuedIs
<1>5. v[Len(s)] \in Nat /\ w[Len(s)] = v[Len(s)]
  BY <1>1, <1>2, <1>3, <1>4, ValuesAgree
<1>6. Len(s) < Len(more)
  BY <1>1
<1>7. w[Len(s) + 1] = Turned(w, e, more, Len(s))
  BY <1>1, <1>4, <1>6, ValuesUnfold
<1>8. Valued(e, more) = IF e = "little" THEN Valued(e, s) + b * Two[Len(s)]
                        ELSE 2 * Valued(e, s) + b
  BY <1>1, <1>2, <1>3, <1>4, <1>5, <1>7 DEF Turned
<1> QED  BY <1>3, <1>5, <1>8 DEF more

LEMMA ValuedEmpty == \A e : Valued(e, <<>>) = 0
<1> SUFFICES ASSUME NEW e PROVE Valued(e, <<>>) = 0
  OBVIOUS
<1>1. <<>> \in Seq({0, 1}) /\ Len(<<>>) = 0
  OBVIOUS
<1>2. PICK v : Values(v, e, <<>>) /\ Valued(e, <<>>) = v[Len(<<>>)]
  BY <1>1, ValuedIs
<1>3. v[0] = 0
  BY <1>1, <1>2, ValuesUnfold
<1> QED  BY <1>1, <1>2, <1>3

-----------------------------------------------------------------------------
(* The digits of a number *)

\* The last len bits of s.
LastBits(s, len) == SubSeq(s, Len(s) - len + 1, Len(s))

LEMMA LastBitsAppend ==
    ASSUME NEW s \in Seq({0, 1}), NEW len \in Nat, len <= Len(s), NEW b \in {0, 1}
    PROVE  /\ LastBits(s, len) \in Seq({0, 1}) /\ Len(LastBits(s, len)) = len
           /\ LastBits(Append(s, b), len + 1) = Append(LastBits(s, len), b)
<1> DEFINE old == SubSeq(s, Len(s) - len + 1, Len(s))
           more == Append(s, b)
           new == SubSeq(more, Len(s) + 1 - (len + 1) + 1, Len(s) + 1)
<1>1. more \in Seq({0, 1}) /\ Len(more) = Len(s) + 1 /\ Len(s) \in Nat /\ more[Len(s) + 1] = b
  OBVIOUS
<1>2. \A k \in 1 .. Len(s) : more[k] = s[k]
  OBVIOUS
<1>3. /\ old \in Seq({0, 1}) /\ Len(old) = len
      /\ \A k \in 1 .. len : old[k] = s[Len(s) - len + k]
  OBVIOUS
<1> HIDE DEF more
<1>4. /\ new \in Seq({0, 1}) /\ Len(new) = len + 1
      /\ \A k \in 1 .. len + 1 : new[k] = more[Len(s) - len + k]
  BY <1>1
<1> HIDE DEF new, old
<1>5. /\ Append(old, b) \in Seq({0, 1}) /\ Len(Append(old, b)) = len + 1
      /\ \A k \in 1 .. len : Append(old, b)[k] = old[k]
      /\ Append(old, b)[len + 1] = b
  BY <1>3
<1>6. ASSUME NEW k \in 1 .. len + 1 PROVE new[k] = Append(old, b)[k]
  <2>0. k = len + 1 \/ k \in 1 .. len
    OBVIOUS
  <2>1. CASE k = len + 1
    <3>1. Len(s) - len + k = Len(s) + 1
      BY <1>1, <2>1
    <3> QED  BY <1>1, <1>4, <1>5, <2>1, <3>1
  <2>2. CASE k \in 1 .. len
    <3>1. Len(s) - len + k \in 1 .. Len(s)
      BY <1>1, <2>2
    <3> QED  BY <1>2, <1>3, <1>4, <1>5, <2>2, <3>1
  <2> QED  BY <2>0, <2>1, <2>2
<1> DEFINE app == Append(old, b)
<1>7. app \in Seq({0, 1}) /\ Len(app) = len + 1
  BY <1>5
<1>8. \A k \in 1 .. len + 1 : new[k] = app[k]
  BY <1>6
<1> HIDE DEF app
<1>9. new = app
  BY <1>4, <1>7, <1>8
<1>10. LastBits(s, len) = old
  BY DEF LastBits, old
<1>11. LastBits(more, len + 1) = new
  BY <1>1 DEF LastBits, new
<1>12. LastBits(more, len + 1) = Append(old, b)
  BY <1>9, <1>11 DEF app
<1> QED  BY <1>3, <1>10, <1>12 DEF more

LEMMA ProductIsNat == ASSUME NEW a \in Nat, NEW b \in Nat PROVE a * b \in Nat
  BY Z3

\* The quotient and the rest of a division are the only ones.
LEMMA DivUnique ==
    ASSUME NEW x \in Nat, NEW d \in Nat \ {0}, NEW q \in Nat, NEW r \in 0 .. d - 1, x = d * q + r
    PROVE  x \div d = q /\ x % d = r
<1>1. \A k, l \in Nat : k < l => d * l >= d * k + d
  <2>1. ASSUME NEW k \in Nat, NEW l \in Nat, k < l PROVE d * l >= d * k + d
    <3>1. PICK t \in Nat : l = k + 1 + t
      BY <2>1
    <3>2. d * (k + 1 + t) = d * k + d + d * t
      OBVIOUS
    <3>3. d * t >= 0
      BY ProductIsNat
    <3> QED  BY <3>1, <3>2, <3>3
  <2> QED  BY <2>1
<1>2. PICK k \in Nat : k = x \div d
  OBVIOUS
<1>3. PICK l \in 0 .. d - 1 : l = x % d
  OBVIOUS
<1>4. x = d * k + l
  BY <1>2, <1>3
<1>5. ~(k < q) /\ ~(q < k)
  BY <1>1, <1>4
<1> QED  BY <1>2, <1>3, <1>4, <1>5

LEMMA DivIs ==
    ASSUME NEW x \in Nat, NEW d \in Nat \ {0}
    PROVE  \E q \in Nat : \E r \in 0 .. d - 1 : q = x \div d /\ r = x % d /\ x = d * q + r
<1>1. PICK q \in Nat : q = x \div d
  OBVIOUS
<1>2. PICK r \in 0 .. d - 1 : r = x % d
  OBVIOUS
<1>3. x = d * q + r
  BY <1>1, <1>2
<1> QED  BY <1>1, <1>2, <1>3

\* The digit of the weight d, and those below or above it.
LEMMA Digits ==
    ASSUME NEW x \in Nat, NEW d \in Nat \ {0}
    PROVE  LET b == (x \div d) % 2
           IN  /\ b \in {0, 1}
               /\ x % (2 * d) = (x % d) + b * d
               /\ x \div d = 2 * (x \div (2 * d)) + b
<1> DEFINE b == (x \div d) % 2
<1>1. PICK q \in Nat : \E r \in 0 .. d - 1 : q = x \div d /\ r = x % d /\ x = d * q + r
  BY DivIs
<1>2. PICK r \in 0 .. d - 1 : r = x % d /\ x = d * q + r
  BY <1>1
<1>3. x = d * q + r
  BY <1>2
<1>4. PICK h \in Nat : h = q \div 2
  BY <1>1
<1>5. b \in {0, 1} /\ q = 2 * h + b
  BY <1>1, <1>4
<1> HIDE DEF b
<1>6. CASE b = 0
  <2>1. q = 2 * h
    BY <1>5, <1>6
  <2>2. x = (2 * d) * h + r /\ r \in 0 .. 2 * d - 1 /\ 2 * d \in Nat \ {0}
    BY <1>3, <2>1
  <2>3. x \div (2 * d) = h /\ x % (2 * d) = r
    BY <2>2, DivUnique
  <2> QED  BY <1>1, <1>2, <1>6, <2>1, <2>3 DEF b
<1>7. CASE b = 1
  <2>1. q = 2 * h + 1
    BY <1>5, <1>7
  <2>2. x = (2 * d) * h + (d + r) /\ d + r \in 0 .. 2 * d - 1 /\ 2 * d \in Nat \ {0}
    BY <1>3, <2>1
  <2>3. x \div (2 * d) = h /\ x % (2 * d) = d + r
    BY <2>2, DivUnique
  <2>4. b * d = d
    BY <1>7
  <2>5. b \in {0, 1} /\ x % (2 * d) = (x % d) + b * d /\ x \div d = 2 * (x \div (2 * d)) + b
    BY <1>1, <1>2, <1>7, <2>1, <2>3, <2>4
  <2> QED  BY <2>5 DEF b
<1> QED  BY <1>5, <1>6, <1>7

LEMMA LessNothing == \A x \in Nat : x - 0 = x
  OBVIOUS

LEMMA ModOne == ASSUME NEW x \in Nat PROVE x % 1 = 0
<1>1. x = 1 * x + 0 /\ 0 \in 0 .. 1 - 1 /\ 1 \in Nat \ {0}
  OBVIOUS
<1> QED  BY <1>1, DivUnique

LEMMA DivOne == ASSUME NEW x \in Nat PROVE x \div 1 = x
<1>1. x = 1 * x + 0 /\ 0 \in 0 .. 1 - 1 /\ 1 \in Nat \ {0}
  OBVIOUS
<1> QED  BY <1>1, DivUnique

LEMMA DivBig == ASSUME NEW x \in Nat, NEW d \in Nat, x < d PROVE x \div d = 0 /\ x % d = x
<1>1. x = d * 0 + x /\ x \in 0 .. d - 1 /\ d \in Nat \ {0} /\ 0 \in Nat
  OBVIOUS
<1> QED  BY <1>1, DivUnique

-----------------------------------------------------------------------------
(* The numbers of a command *)

\* The bits of the piece so far.
Recent == LastBits(bits, i)

\* Reading, the number is made of the bits so far, in little endian still too far
\* to the left; writing, the bits so far are its lowest or its highest digits.
NumInv ==
    /\ i <= Len(bits)
    /\ cmd # "none" => num \in Nat
    /\ cmd = "get" => num = IF endian = "little" THEN Valued(endian, Recent) * Two[n - i]
                            ELSE Valued(endian, Recent)
    /\ cmd = "put" => /\ num < Two[n]
                      /\ Valued(endian, Recent) = IF endian = "little" THEN num % Two[i]
                                                  ELSE num \div Two[n - i]

LEMMA NumBegins ==
    ASSUME bits' \in Seq({0, 1}), i' = 0, n' \in Nat, endian' = endian,
           cmd' # "none" => num' \in Nat,
           cmd' = "get" => num' = 0,
           cmd' = "put" => num' < Two[n']
    PROVE  NumInv'
<1>1. LastBits(bits', 0) = <<>> /\ Len(bits') \in Nat
  BY DEF LastBits
<1>2. Recent' = <<>>
  BY <1>1 DEF Recent
<1>3. Valued(endian, Recent)' = 0
  BY <1>2, ValuedEmpty
<1>4. PICK k \in Nat : k = n'
  OBVIOUS
<1>5. Two[0] = 1 /\ Two[k] \in Nat /\ k - 0 = k
  BY LessNothing, TwoUnfolds, Zenon
<1>6. Two[n' - i'] = Two[k] /\ Two[i'] = 1 /\ Two[n'] = Two[k]
  BY <1>4, <1>5
<1>7. 0 * Two[k] = 0
  BY <1>5
<1>8. cmd' = "get" => num' = IF endian' = "little" THEN Valued(endian, Recent)' * Two[n' - i']
                             ELSE Valued(endian, Recent)'
  BY <1>3, <1>6, <1>7
<1>9. ASSUME cmd' = "put"
      PROVE  /\ num' < Two[n']
             /\ Valued(endian, Recent)' = IF endian' = "little" THEN num' % Two[i']
                                          ELSE num' \div Two[n' - i']
  <2>1. PICK x \in Nat : x = num'
    BY <1>9
  <2>2. x < Two[k]
    BY <1>6, <1>9, <2>1
  <2>3. x % 1 = 0 /\ x \div Two[k] = 0
    BY <1>5, <2>2, ModOne, DivBig
  <2>4. num' % Two[i'] = 0 /\ num' \div Two[n' - i'] = 0
    BY <1>6, <2>1, <2>3
  <2> QED  BY <1>3, <1>9, <2>4
<1> QED  BY <1>1, <1>8, <1>9 DEF NumInv

\* A turn of the loop: one more bit, which is a digit.
LEMMA TurnFacts ==
    ASSUME TypeOK, NumInv, i < n, NEW bit \in {0, 1}, bits' = Append(bits, bit), i' = i + 1,
           endian' = endian, n' = n
    PROVE  /\ i' <= Len(bits')
           /\ Valued(endian, Recent) \in Nat
           /\ Valued(endian, Recent)' =
                 IF endian = "little" THEN Valued(endian, Recent) + bit * Two[i]
                 ELSE 2 * Valued(endian, Recent) + bit
<1>1. bits \in Seq({0, 1}) /\ i \in Nat /\ i <= Len(bits)
  BY DEF TypeOK, NumInv
<1>2. /\ Recent \in Seq({0, 1}) /\ Len(Recent) = i
      /\ LastBits(Append(bits, bit), i + 1) = Append(Recent, bit)
  BY <1>1, LastBitsAppend DEF Recent
<1>3. Recent' = Append(Recent, bit)
  BY <1>2 DEF Recent
<1>4. Len(Append(bits, bit)) = Len(bits) + 1 /\ Len(bits) \in Nat
  BY <1>1
<1>5. i' <= Len(bits')
  BY <1>1, <1>4
<1>6. /\ Valued(endian, Recent) \in Nat
      /\ Valued(endian, Append(Recent, bit)) =
            IF endian = "little" THEN Valued(endian, Recent) + bit * Two[Len(Recent)]
            ELSE 2 * Valued(endian, Recent) + bit
  BY <1>2, ValuedAppend
<1> QED  BY <1>2, <1>3, <1>5, <1>6

\* The weights of a turn.
LEMMA Weights ==
    ASSUME NEW k \in Nat, NEW len \in Nat, k < len
    PROVE  /\ len - k \in Nat /\ len - (k + 1) \in Nat /\ len - 1 \in Nat
           /\ Two[k] \in Nat \ {0} /\ Two[len - (k + 1)] \in Nat \ {0} /\ Two[len - 1] \in Nat
           /\ Two[k + 1] = 2 * Two[k]
           /\ Two[len - k] = 2 * Two[len - (k + 1)]
           /\ Two[len - 1] = Two[k] * Two[len - (k + 1)]
<1> DEFINE rest == len - (k + 1)
<1>1. rest \in Nat /\ len - 1 = k + rest /\ len - k = rest + 1
  OBVIOUS
<1> HIDE DEF rest
<1>2. Two[k + rest] = Two[k] * Two[rest] /\ Two[rest + 1] = 2 * Two[rest] /\ Two[k + 1] = 2 * Two[k]
  BY <1>1, TwoAdds, TwoUnfolds
<1>3. Two[k] \in Nat \ {0} /\ Two[rest] \in Nat \ {0} /\ Two[k + rest] \in Nat
  BY <1>1, TwoUnfolds
<1> QED  BY <1>1, <1>2, <1>3 DEF rest

LEMMA ReadBitNum ==
    ASSUME Inv, NumInv, ReadBit
    PROVE  NumInv'
<1>1. CASE Exit
  BY <1>1 DEF Exit, NumInv, Recent, file, locals
<1>2. CASE ~(bp = 0 /\ pos = Len(bytes))
  <2>1. cmd = "get" /\ i < n /\ ~rem /\ n \in Nat /\ i \in Nat
    BY DEF ReadBit, Inv, TypeOK, CacheFresh
  <2> DEFINE bit == bc'[Nth(bp)]
  <2>2. bit \in {0, 1}
    <3>1. bc' \in Byte
      BY <1>2, ReadBitInv DEF Inv, TypeOK
    <3>2. Nth(bp) \in 0 .. W - 1
      BY NthType DEF Inv, TypeOK
    <3> QED  BY <3>1, <3>2 DEF Byte
  <2>3. /\ num' = IF endian = "little" THEN num \div 2 + bit * Two[n - 1] ELSE num * 2 + bit
        /\ bits' = Append(bits, bit) /\ i' = i + 1 /\ UNCHANGED <<endian, cmd, n>>
    BY <1>2 DEF ReadBit
  <2> HIDE DEF bit
  <2> DEFINE v == Valued(endian, Recent)
             t == Two[n - (i + 1)]
  <2>4. /\ i' <= Len(bits') /\ v \in Nat
        /\ v' = IF endian = "little" THEN v + bit * Two[i] ELSE 2 * v + bit
    BY <2>1, <2>2, <2>3, TurnFacts DEF Inv
  <2>5. num = IF endian = "little" THEN v * Two[n - i] ELSE v
    BY <2>1 DEF NumInv
  <2>6. /\ Two[i] \in Nat /\ t \in Nat /\ Two[n - i] = 2 * t /\ Two[n - 1] = Two[i] * t
    BY <2>1, Weights
  <2>7. Two[n' - i'] = t
    BY <2>3
  <2>8. cmd' = "get"
    BY <2>1, <2>3
  <2>9. num' = IF endian = "little" THEN v' * t ELSE v'
    <3>1. CASE endian = "little"
      <4>1. PICK x \in Nat : x = v * t
        BY <2>4, <2>6, ProductIsNat
      <4>2. v * (2 * t) = 2 * x
        BY <2>4, <2>6, <4>1
      <4>3. num = 2 * x
        BY <2>5, <2>6, <3>1, <4>2
      <4>4. num \div 2 = x
        BY <4>1, <4>3
      <4>5. num' = x + bit * (Two[i] * t) /\ v' = v + bit * Two[i]
        BY <2>3, <2>4, <2>6, <3>1, <4>4
      <4>6. \A a, b, c, d \in Nat : a * d + b * (c * d) = (a + b * c) * d
        OBVIOUS
      <4> QED  BY <2>2, <2>4, <2>6, <3>1, <4>1, <4>5, <4>6
    <3>2. CASE endian # "little"
      BY <2>3, <2>4, <2>5, <3>2
    <3> QED  BY <3>1, <3>2
  <2>10. v' \in Nat
    <3>1. bit * Two[i] \in Nat
      BY <2>2, <2>6, ProductIsNat
    <3> QED  BY <2>2, <2>4, <3>1
  <2>11. num' \in Nat
    BY <2>6, <2>9, <2>10, ProductIsNat
  <2> QED  BY <2>3, <2>4, <2>7, <2>8, <2>9, <2>11 DEF NumInv
<1> QED  BY <1>1, <1>2 DEF ReadBit

LEMMA WriteBitNum ==
    ASSUME Inv, NumInv, WriteBit
    PROVE  NumInv'
<1>1. cmd = "put" /\ i < n /\ n \in Nat /\ i \in Nat
  BY DEF WriteBit, Inv, TypeOK
<1>2. Digit \in {0, 1}
  BY DEF Digit
<1>3. bits' = Append(bits, Digit) /\ i' = i + 1 /\ UNCHANGED <<endian, cmd, n, num>>
  BY DEF WriteBit
<1> DEFINE v == Valued(endian, Recent)
           t == Two[n - (i + 1)]
<1>4. /\ i' <= Len(bits') /\ v \in Nat
      /\ v' = IF endian = "little" THEN v + Digit * Two[i] ELSE 2 * v + Digit
  BY <1>1, <1>2, <1>3, TurnFacts DEF Inv
<1>5. num \in Nat /\ num < Two[n] /\ v = IF endian = "little" THEN num % Two[i] ELSE num \div Two[n - i]
  BY <1>1 DEF NumInv
<1>6. /\ Two[i] \in Nat \ {0} /\ t \in Nat \ {0} /\ Two[n - i] = 2 * t /\ Two[i + 1] = 2 * Two[i]
  BY <1>1, Weights
<1> HIDE DEF t
<1>7. v' = IF endian = "little" THEN num % Two[i + 1] ELSE num \div t
  <2>1. CASE endian = "little"
    <3>1. /\ (num \div Two[i]) % 2 \in {0, 1}
          /\ num % (2 * Two[i]) = (num % Two[i]) + ((num \div Two[i]) % 2) * Two[i]
      BY <1>5, <1>6, Digits
    <3>2. Digit = (num \div Two[i]) % 2
      BY <2>1, <3>1 DEF Digit
    <3> QED  BY <1>4, <1>5, <1>6, <2>1, <3>1, <3>2
  <2>2. CASE endian # "little"
    <3>1. (num \div t) % 2 \in {0, 1} /\ num \div t = 2 * (num \div (2 * t)) + ((num \div t) % 2)
      BY <1>5, <1>6, Digits
    <3>2. n - i - 1 = n - (i + 1)
      BY <1>1
    <3>3. Digit = IF (num \div t) % 2 = 1 THEN 1 ELSE 0
      BY <2>2, <3>2 DEF Digit, t
    <3>4. Digit = (num \div t) % 2
      BY <3>1, <3>3
    <3>5. v = num \div (2 * t) /\ v' = 2 * v + Digit
      BY <1>4, <1>5, <1>6, <2>2
    <3> QED  BY <2>2, <3>1, <3>4, <3>5
  <2> QED  BY <2>1, <2>2
<1>8. Two[n' - i'] = t /\ Two[i'] = Two[i + 1] /\ cmd' = "put"
  BY <1>1, <1>3 DEF t
<1> QED  BY <1>3, <1>4, <1>5, <1>7, <1>8 DEF NumInv

\* A number that is written has no more bits than are asked for.
LEMMA NumStep ==
    ASSUME Inv, NumInv, [PlainNext]_vars
    PROVE  NumInv'
<1>1. Inv'
  BY InvStep
<1>2. CASE GetBits \/ PutBits
  <2>1. /\ i' = 0 /\ endian' = endian
        /\ (cmd' = "get" /\ num' = 0) \/ (cmd' = "put" /\ num' \in 0 .. Two[n'] - 1)
    <3>1. CASE GetBits
      BY <3>1 DEF GetBits, Start
    <3>2. CASE PutBits
      BY <3>2 DEF PutBits, Start
    <3> QED  BY <1>2, <3>1, <3>2
  <2>2. n' \in Nat /\ bits' \in Seq({0, 1})
    BY <1>1 DEF Inv, TypeOK
  <2>3. Two[n'] \in Nat
    BY <2>2, TwoType
  <2> QED  BY <2>1, <2>2, <2>3, NumBegins
<1>3. CASE NextPiece
  <2>1. /\ bits' = bits /\ i' = 0 /\ endian' = endian /\ cmd' = cmd /\ cmd # "none"
        /\ IF cmd = "get" THEN num' = 0 ELSE num' \in 0 .. Two[n'] - 1
    BY <1>3 DEF NextPiece
  <2>2. n' \in Nat /\ bits' \in Seq({0, 1})
    BY <1>1 DEF Inv, TypeOK
  <2>3. Two[n'] \in Nat
    BY <2>2, TwoType
  <2> QED  BY <2>1, <2>2, <2>3, NumBegins
<1>4. CASE Finish
  <2>1. i' = 0 /\ cmd' = "none"
    BY <1>4 DEF Finish
  <2>2. Len(bits') \in Nat
    BY <1>1 DEF Inv, TypeOK
  <2> QED  BY <2>1, <2>2 DEF NumInv
<1>5. CASE ReadBit
  BY <1>5, ReadBitNum
<1>6. CASE WriteBit
  BY <1>6, WriteBitNum
<1>7. CASE OnBytes \/ \E k \in DOMAIN bytes : Poke(k)
  <2>1. UNCHANGED <<cmd, i, n, num, bits>> /\ (endian' = endian \/ cmd = "none")
    BY <1>7 DEF OnBytes, GetByte, PutByte, GoTo, Restart, Log, Endian, Terminated, Poke,
                MoveTo, Exit, Idle, locals, vars
  <2>2. CASE endian' = endian
    BY <2>1, <2>2 DEF NumInv, Recent
  <2>3. CASE cmd = "none"
    BY <2>1, <2>3 DEF NumInv
  <2> QED  BY <2>1, <2>2, <2>3
<1>8. CASE UNCHANGED vars
  BY <1>8 DEF NumInv, Recent, vars, file, locals
<1> QED  BY <1>2, <1>3, <1>4, <1>5, <1>6, <1>7, <1>8 DEF PlainNext, OnBits

LEMMA NumInit == Init => NumInv
<1> SUFFICES ASSUME Init PROVE NumInv
  OBVIOUS
<1>1. i = 0 /\ bits = <<>> /\ cmd = "none"
  BY DEF Init
<1> QED  BY <1>1, NoBits DEF NumInv

LEMMA NumIsNumber == ASSUME Inv, NumInv PROVE NumbersRight
<1> SUFFICES ASSUME cmd # "none", i = n
             PROVE  num = Number(SubSeq(bits, Len(bits) - n + 1, Len(bits)))
  BY DEF NumbersRight
<1> DEFINE v == Valued(endian, Recent)
<1>1. SubSeq(bits, Len(bits) - n + 1, Len(bits)) = Recent
  BY DEF Recent, LastBits
<1>2. Number(Recent) = v
  BY NumberValued
<1>3. /\ n \in Nat /\ i \in Nat /\ cmd \in {"get", "put"} /\ bits \in Seq({0, 1}) /\ i <= Len(bits)
      /\ num \in Nat
  BY DEF Inv, TypeOK, NumInv
<1>4. Two[n - i] = 1
  BY <1>3, TwoUnfolds
<1>5. v \in Nat
  BY <1>3, LastBitsAppend, ValuedAppend DEF Recent
<1>6. CASE cmd = "get"
  <2>1. num = IF endian = "little" THEN v * Two[n - i] ELSE v
    BY <1>6 DEF NumInv
  <2>2. v * 1 = v
    BY <1>5
  <2> QED  BY <1>1, <1>2, <1>4, <2>1, <2>2
<1>7. CASE cmd = "put"
  <2>1. v = IF endian = "little" THEN num % Two[n] ELSE num \div 1
    BY <1>4, <1>7 DEF NumInv
  <2>2. num < Two[n] /\ Two[n] \in Nat
    BY <1>3, <1>7, TwoUnfolds DEF NumInv
  <2>3. num % Two[n] = num /\ num \div 1 = num
    BY <1>3, <2>2, DivBig, DivOne
  <2> QED  BY <1>1, <1>2, <2>1, <2>3
<1> QED  BY <1>3, <1>6, <1>7

\* readme.md:4299-4322: a number, or a byte of a string, that GetBits reads or PutBits
\* writes is made of its bits in the order of g_endian, wherever in the bytes they
\* are, for bytes and numbers of any width.
THEOREM NumbersAreRight == PlainSpec => []NumbersRight
<1>1. Init => Inv /\ NumInv
  BY InvInit, NumInit
<1>2. Inv /\ NumInv /\ [PlainNext]_vars => Inv' /\ NumInv'
  BY InvStep, NumStep
<1>3. Inv /\ NumInv => NumbersRight
  BY NumIsNumber
<1> QED  BY <1>1, <1>2, <1>3, PTL DEF PlainSpec
=============================================================================
