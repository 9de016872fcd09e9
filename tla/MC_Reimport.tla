----------------------------- MODULE MC_Reimport -----------------------------
(***************************************************************************)
(* Archives of up to three small files, and the scripts that read them: a  *)
(* table with offsets and sizes, also in units of 2 cells, also from a     *)
(* base, and files one behind the other.                                   *)
(***************************************************************************)
EXTENDS Reimport

Values == [o |-> 0, s |-> 0, k |-> 2, b |-> 1, p |-> 1, d |-> 3]

Read(v)       == [op |-> "get", var |-> v, at |-> Here, size |-> v, name |-> ""]
ReadAt(v, w)  == [Read(v) EXCEPT !.at = w]
Calc(v, f, w) == [op |-> "math", var |-> v, by |-> [op |-> f, by |-> w], size |-> v, name |-> ""]
Save(v)       == [op |-> "savepos", var |-> v, size |-> v, name |-> ""]
Jump(v)       == [op |-> "goto", var |-> v, size |-> v, name |-> ""]
Import(n)     == [op |-> "log", name |-> n, var |-> "o", size |-> "s"]

Entry(n)     == <<Read("o"), Read("s"), Import(n)>>
UnitEntry(n) == <<Read("o"), Calc("o", "*", "k"), Read("s"), Import(n)>>
BaseEntry(n, f) == <<Read("o"), Calc("o", "*", "k"), Calc("o", f, "b"), Read("s"), Import(n)>>
Behind(n)    == <<Read("s"), Save("o"), Import(n), Calc("o", "+", "s"), Jump("o")>>

Chain == Behind("f") \o Behind("g") \o Behind("h")
\* An offset that counts from 3 cells before the archive.
Down  == <<Read("o"), Calc("o", "-", "d"), Read("s"), Import("f"), Jump("o"), Read("s")>>

\* The offset is read at p; the script stays at the start, where the size is.
Apart == <<ReadAt("o", "p"), Read("s"), Import("f")>>

PlainArchives  == {<<4, 2, 6, 1, 11, 12, 21>>, <<5, 1, 4, 1, 21, 11>>, <<6, 2, 4, 0, 9, 9, 11, 12>>}
UnitArchives   == {<<2, 2, 3, 1, 11, 12, 21>>, <<3, 1, 2, 1, 21, 9, 11, 9, 9>>}
BaseArchives   == {<<2, 1, 3, 2, 9, 11, 9, 21, 22>>}
LessArchives   == {<<3, 1, 4, 2, 9, 11, 9, 21, 22>>}
ChainArchives  == {<<2, 11, 12, 1, 21, 2, 31, 32>>, <<0, 3, 21, 22, 23, 0>>}
SingleArchives == {<<2, 1, 11>>, <<3, 2, 9, 11, 12, 9>>, <<2, 0>>}
ApartArchives  == {<<1, 3, 9, 11, 9>>, <<2, 5, 9, 9, 9, 11, 12>>}
DownArchives   == {<<6, 1, 9, 11>>, <<5, 2, 11, 12>>, <<7, 1, 9, 9, 11>>, <<2, 1, 11>>, <<5, 2>>}

Contentss == {<<>>, <<1>>, <<1, 2>>, <<1, 2, 3>>}
FoldersOf(names, contents) == UNION {[s -> contents] : s \in SUBSET names}

Two == FoldersOf({"f", "g"}, Contentss)

Plain == [script |-> Entry("f") \o Entry("g"), mode |-> 1, void |-> FALSE, answers |-> {"skip", "quit"},
          stops |-> TRUE, archives |-> PlainArchives, folders |-> Two]

\* The user edits a file that is too big, or forces it.
Retry == [Plain EXCEPT !.script = Entry("f"), !.answers = {"retry", "quit"},
                       !.archives = SingleArchives, !.folders = FoldersOf({"f"}, Contentss)]
Other == [Retry EXCEPT !.script = Apart, !.archives = ApartArchives]
Force == [Plain EXCEPT !.answers = {"force"}, !.stops = FALSE]

\* Mode 1 with -0 on archives that are partly damaged.
Void == [Retry EXCEPT !.script = Down, !.void = TRUE, !.archives = DownArchives]

Units == [Plain EXCEPT !.script = UnitEntry("f") \o UnitEntry("g"), !.mode = 2,
                       !.archives = UnitArchives]
Based == [Units EXCEPT !.script = BaseEntry("f", "+") \o BaseEntry("g", "+"), !.archives = BaseArchives]
Less  == [Units EXCEPT !.script = BaseEntry("f", "-") \o BaseEntry("g", "-"), !.archives = LessArchives]

\* Files one behind the other: in mode 2 some that are not smaller than the old
\* ones, in mode 3 any; mode 3 moves the data in place, and a run has to end.
Chain2 == [Units EXCEPT !.script = Chain, !.archives = ChainArchives,
                        !.folders = FoldersOf({"f", "g", "h"}, {<<1, 2, 3>>})]
Chain3 == [Chain2 EXCEPT !.mode = 3, !.stops = FALSE,
                         !.folders = FoldersOf({"f", "g", "h"}, {<<>>, <<1, 2>>, <<1, 2, 3>>})]

AllJobs == [plain |-> Plain, retry |-> Retry, force |-> Force, other |-> Other, void |-> Void,
            units |-> Units, based |-> Based, less |-> Less, chain2 |-> Chain2, chain3 |-> Chain3]

ASSUME TablesAssumption == TableScripts
ASSUME PlainAssumption == \A a \in PlainArchives : Separate(Plain.script, a)
==============================================================================
