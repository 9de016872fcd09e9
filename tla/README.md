# TLA+ models of QuickBMS

QuickBMS extracts files from archives with scripts (`*.bms`). It reads a
script once, turns it into an array of commands and interprets that array over
an input file, over each file of an input folder, or once per request of its
web API. The whole program is C, single threaded but for the IPC mode
(`src/src/*.c`, about 55,000 lines; the rest of the tree is third-party code).

This directory holds TLA+ modules translated from that code, TLC
configurations that check them on small instances, and proofs checked by TLAPS.
Each module has a type invariant `TypeOK`; where it is proved and says nothing
else about the code, no run repeats it.

## 1. The system

| Part | Code | State | Operations | Interacts with |
|---|---|---|---|---|
| Script parser | `bms.c:1713-2906` | `g_command[]`, indices into `g_variable[]` | one branch per command word; desugars `For`, `While`, `Case`, `Elif`, `Else`, `Append` | fills what the interpreter runs |
| Interpreter | `bms.c:26-529`, `cmd.c:6385-6499`, `CMD_Label_func` | per activation: `cmd`, `nop`, `invoked_label_loop`, `this_if`, `this_break`, `this_continue` and four pointers; the C stack | one `case` per command | calls every `CMD_*_func` |
| Variables | `var.c` | `g_variable[]` (replaced by a copy during a call) | add, get, copy, sub-variables `NAME[EXPR]` | parser (indices), all commands, CallFunction |
| Arrays | `cmd.c:6097-6384` | `g_array[]`: elements, allocated elements | Get, Put, Sort, Search | variables |
| Conditions and math | `cmd.c:145-556`, `cmd.c:1431` ff. | none | `check_condition`, `math_operations`, XMath | variables |
| Files | `file.c` | `g_filenumber[]`, `g_memory_file[]`: data, position, size, bit buffer; `g_append_mode`, `g_endian` | open, close, seek, read, write, bits, append modes | io/*, FileXOR |
| Extraction, reimport | `file.c:1551-3735`, `perform.c` | the variables' `reimport` records, counters | Log, CLog, dumpa, reimport, reimport2 | files, variables |
| Session | `quickbms.c`, `bms_init`, `bms_finish` | all globals, list of input files | the `redo` loop, one run of the script per input file | everything |
| Web API, IPC | `ipc.c` | a thread per pipe, the web server's connection, the lent request buffer | a command or a run of the script per request | all globals, without a lock |
| Special filenumbers | `io/*.c` | a handle per filenumber | stream read, write, seek | files |
| Outputs | `quickiso.c`, `quickzip.c`, `hexhtml.c`, `files_tree.c` | open output | append an extracted file | extraction |
| Compression, encryption, DLLs | `perform.c`, `unz.c`, `myenc.c`, `sign_ext.c` | keys and contexts | a call per algorithm | third-party code |

What is hard in each:

* **Interpreter.** There is no jump table. `Break`, `Continue`, a false `For`
  condition and a refused branch only raise flags; the commands that follow are
  walked over with `nop` set until the right activation of `start_bms()` ends.
  The flags live in the C frames and are shared by pointers, partly inherited by
  value. Correct means: each jump lands where the text of the script says,
  nothing in between is executed, no pointer dangles, and every skip and every
  search of a label ends.
* **Parser.** One word becomes several commands; the loop and branch brackets
  of the commands have to match those of the text.
* **Variables.** Indices are fixed when the script is parsed and used with
  whichever table is current: the main one or the copy of a function call.
* **Arrays.** Negative indices, growth, several arrays sorted together.
* **Conditions.** Compound conditions are reduced in place.
* **Files.** Two representations (C file, memory buffer) behind one number,
  four append modes, a position that a seek can move behind the end, a bit
  buffer beside the byte position.
* **Reimport.** Offsets and sizes are written back into the archive at the
  place they were read from, through the inverse of the math done on them.
* **Session.** What one run leaves behind for the next.
* **Web API, IPC.** Requests of several threads use the same globals, one after
  the other or at once, and may be given up anywhere; one connection waits for
  another.

There are no threads, locks or messages between the parts of a running script;
the difficult orders are those of commands, of nested activations, and of
several runs in one process. Only the IPC mode has threads, and clients.

## 2. The interpreter

| Module | What it is |
|---|---|
| `BmsScript` | a script: `prog` stands for `g_command[]`, and the blocks found in its text |
| `BmsInterp` | `start_bms()`: the stack `frames` of its activations, `label` (`*invoked_label`) and `st` |
| `BmsStructured` | the abstract specification: a program counter and a stack of calls; jumps go straight to their destination |
| `BmsRefine` | the refinement mapping from `BmsInterp` to `BmsStructured`, property `ImplementsStructured` |
| `BmsOrderly` | the scripts whose jumps are carried out as they read (`IsOrderly`) |
| `BmsInterp_proofs` | the theorems |
| `BmsParser` | the commands that `parse_bms()` makes of each line that moves the flow |
| `ScriptGen`, `MC_Blocks`, `MC_Goto`, `MC_Jumps` | enumerate scripts, line by line, for TLC |

One frame is one activation: `cmd`, `start` (`startcmd`), `nop`, `looped`
(`invoked_label_loop`), `ifDone`/`brk`/`cnt` (`this_if`, `this_break`,
`this_continue`), and `ifOf`/`loopOf`, the frames that the pointers `invoked_if`
and `invoked_break`/`invoked_continue` lead to. Positions count from 1; position
`cmd` of the code is `cmd + 1` here. One action is one turn of the `for(;;)` of
`start_bms()` (the recomputation of `nop` at its head included), or one return:

| Action | Code |
|---|---|
| `Skip` | `if(nop) break;` of every command that has it |
| `Execute`, `CleanExit` | the call of a `CMD_*_func` and its error return |
| `ForTo`, `BreakOrContinue` | the flags they raise |
| `OpenLoopFrame`, `EnterBranch`, `CallFunction` | the recursive calls |
| `ScanLoopAgain`, `LeaveLoop`, `NextTurn` | `BMS_END_OF_LOOP` and the end of Next, Prev and While |
| `IfReturn`, `EndIf`, `EndFunction`, `EndOfScript`, `Unwind` | the returns |
| `SkipFunction` | a StartFunction met by the flow |
| `Label` | the arrival of a goto |

Abstractions. The value of a condition and the success of a command are free
choices (a command may fail at any time), so all paths of a script are explored.
All commands that do not move the flow are `Stmt`. `Prev` is `Next` (they differ
in arithmetic). A failing `Next` calculation is left out: `CMD_Next_func` and
`CMD_Prev_func` return 0 or end the process. `CallDLL` and inline code that
calls back are left out. `start_bms()` tests no depth; what ends a recursion is
the C stack, whose exhaustion kills the process (`st = "exit"`). `MaxDepth` stands for
its size and is not a property of the code: no invariant or theorem rests on it. A
function that is missing ends the process before its arguments are bound, which
nobody sees any more.

### Properties

* `ImplementsStructured`: every behaviour is one of the structured language.
  While frames skip, the mapped program counter already stands at the
  destination of the outermost frame that skips. One wrong flag sends it to a
  place the abstract machine cannot step to.
* `DeadBlocksStayDead`: after a Break, a false loop condition or a refused
  branch, nothing of that block is executed at any depth until it is left.
* `ContinueSkipsRest`: nothing is executed while a Continue of an open loop is
  pending.
* `JumpLandsForGood`, `JumpFindsLabel`: `Break NAME` "works like goto in C".
* `FramesMatchBlocks`, `LinksOK`: the stack mirrors the blocks of the text, and
  the pointers between frames lead to live frames of the right loop.
* `StackIsNesting`: the command each frame stands on lies, in the text, in the block
  that the frame was made for and in those around it, and in no other. A frame that missed the
  end of its block would show here, and so the C stack grows with the nesting and
  with calls, not with the turns of a loop.
* `SkipInv`: with `StackInv`, the inductive invariant of the proofs.
* `SearchEnds`, `SkipEnds`: liveness.

### Runs

| Run | Instance | Why it is enough |
|---|---|---|
| `blocks` | every script of loops, If/Elif/Else chains, Break, Continue of size 5, plain and as a loop body; every function body of size 3 that may call itself, called from a loop and after it, `MaxDepth` 9; scripts that end the process, and one for each other word of the parser | three levels of nesting, every order of two jumps around two blocks, recursion up to the limit, breaking a caller's loop through two calls |
| `goto` | every script of size 5 with at most one label and jumps to it, under fairness | the label before, behind, outside or inside a loop, missing, found on the second walk; an endless search needs one label and one loop |
| `jumps_branch` | one script | violation, below |

The scripts are put together from lines, which `BmsParser` turns into commands:
a For becomes a Math, the For and its condition, an Else ends the branch in
front of it. `Case` becomes a whole, empty If: it decides nothing.

Named bounds: `MaxDepth` (frames of the C stack) and `MaxSize` (of a script
body: a leaf counts 1, a pair of brackets 2). Loops may turn for ever, so no
bound on turns is needed: the state space is finite without one.

Three shapes are left out of the passing runs, because the code disagrees with
the manual there (disagreements 1 to 3): a Continue with a loop behind it in the
same loop (`ContinueBeforeLoop`), jumps into a branch, and jumps backwards inside
a block that is no loop (`Supported` in `MC_Goto`) or inside a function.

Fairness. `FairSpec` adds `WF_vars(Next)`: `start_bms()` is one thread that waits
for nobody, so it always takes its next step. Nothing is assumed about the
conditions: a loop may turn for ever, and the liveness properties only speak of
skips and searches, which the code has to end alone.

### What is proved

`BmsInterp_proofs` proves, for every set of scripts, every nesting and every
`MaxDepth` (the assumptions are those on the constants in `BmsScript` and
`BmsInterp`):

* `TypeCorrect`: `Spec => []TypeOK`, the types of the locals only;
* `StackMirrorsBlocks`: `Spec => []FramesMatchBlocks`;
* `DeadBlocksStayDeadAlways`: `Spec => []DeadBlocksStayDead`;
* `PointersStayInside`: `Spec => []LinksOK`;
* `Invariance`: `Spec => [](StackInv /\ SkipInv)`, from which these follow;
* `ContinueSkipsRestAlways`, `JumpLandsForGoodAlways`, `JumpFindsLabelAlways`:
  `Spec => [](IsOrderly(prog) => ...)`, from `FlowInvariance`;
* `StackIsNestingAlways`: `Spec => [](Covered(prog) => StackIsNesting)`, from `Shape`, a
  part of it; `Covered` is orderly with the blocks that the text shows (`Matching`).

`DeadBlocksStayDead` is not inductive: a frame below the top may be dead because
of a flag the top cannot see. The strengthening says how a skip spreads. If
frame *i* is dead, so is every frame above it (`SkipsSpread`): a loop frame
inherits a Break by value, every other frame shares the pointer, and a refused
branch hands on `nop = 1`. Frames that share their loop skip together, which is
what keeps the reset at the end of a Continue from waking a dead frame: that
needs `OneFlag` (a frame that skips for a Continue is not under a Break). All
this is about frames found through indices, so `LinksOK` (every index leads to a
frame on the stack, to the innermost loop) and `FramesMatchBlocks` (a frame
never returns before its start, so a return always advances its caller) come
first as `StackInv`. Each action changes the stack in one of five ways, and the
lemmas are stated for those: store and advance, raise a flag, push, pop, restart.

The three on jumps are false of some scripts (disagreements 1 to 3), and `IsOrderly`
leaves out what makes them so. A script is orderly when

* its blocks nest and functions are on the outermost level (`Nested`), which
  `parse_bms()` does not check;
* no loop stands behind a Continue in the loop it continues, nor behind a call
  when a function continues the loop of its caller (`ContinuesLast`);
* a goto leads out of blocks only, backwards to a loop or to the outermost level,
  and the script has no functions it could skip over (`JumpsOutward`).

`CoveredAssumption` of `MC_Goto` and `MC_Blocks` has TLC confirm that every script of
the two runs is orderly, but for those of `Unfinished`: so the theorems say of
scripts of any size what the runs check up to a size. The invariant, `FlowInv`, is
about the stack and the text together. Each frame stands in the blocks of the frames
below it (`Shape`), so the command that ends a block always ends the frame that
this block opened. While no label is searched (`Straight`), a pending Continue has its
loop on top of the stack and no loop in front of it in the text (`Pending`): the
defect of disagreement 1 is that a For met while skipping copies the flag into a frame of
its own and takes it back there. While a label is searched (`Search`), some
frame is where every label of that name will be met, at the latest on
its second walk, and the frames below that one have raised nothing and skip
nothing (`Awaits`); the arrival therefore clears all there is to clear, and an end
of the script that is reached twice proves that there is no such label.

Only model-checked: the refinement, and liveness (outside the prover's reach).

## 3. Memory files

| Module | What it is |
|---|---|
| `MemFile` | `g_memory_file[]` and `g_append_mode`: the commands that read, write and seek memory files, down to the moves of bytes in their buffers |
| `ByteFile` | the abstract specification: a sequence of bytes, a position, and where the manual places new bytes in each append mode |
| `MemFile_proofs` | the theorems |
| `MC_MemFile` | the instance for TLC |

`mem[f]` is one `memory_file_t`: `open` says `data # NULL`, `bytes` are the
buffer up to `size`, `pos` is the position. `mode` is `g_append_mode`.

| Operator or action | Code |
|---|---|
| `Resized`, `Cleared` | `myalloc` with a new size, `memfile_resize` |
| `Room`, `Written`, `Put` | `fdnum_append_mode`, `myfw`, the Put commands |
| `Dumped`, `Dump` | `dumpa_memory_file`, called by Log and CLog from a disk file (`takes`: the buffer may be taken over) and by Set |
| `LogFrom` | `dumpa` from one memory file into another or the same |
| `Reachable`, `Sought`, `GoTo` | `myfseek`, with the position as an unsigned number |
| `Get`, `PutVarChr`, `Append_`, `Restart` | `myfr`, `CMD_PutVarChr_func`, `CMD_Append_func`, `bms_init(1)` |

Abstractions. A cell that growing a buffer adds is `Junk`: the allocator, or what
the buffer held before its size shrank, left something there. What a disk file
or a variable delivers is any member of `Data`. An error of a file operation
ends the program (`st = "exit"`); option `-.`, which goes on, is not modelled.
Sizes are far from 2^32. A Log from a memory file to a disk file is no action: it does to
its source what `LogFrom` does. Compression between the read and the write of a Log
changes the data only and is left out.

### Properties

* `ImplementsByteFile`: contents and positions are always those of `ByteFile`.
* `NothingUnwritten`: no `Junk` below the size, whatever the order of seeks,
  appends, shrinking and growing: each mode grows a buffer in its own way.
* `PosInside`: a position never leaves its file; `myfr` and `Log` compute
  `size - pos` in unsigned numbers.

`ByteFile` has one action that no manual asks for: `LogNothing`. A Log of no
bytes from behind the end of a memory file, in a mode other than append, seeks
there first and pads the *source* with zeros.

### Runs

`memfile` checks two files of at most `MaxSize` = 3 bytes from {0, x}, data of up
to 2 bytes, offsets -2..3. Three bytes are enough for a piece in front of, inside
and behind what a command writes, and one offset leads behind the longest file on
either side. The files are interchangeable (symmetry). `PlainSpec` leaves out
Log in insert mode, where code and manual disagree (disagreement 4).

### What is proved

`MemFile_proofs` proves `MemTypeCorrect`, `MemNothingUnwritten` and
`MemPosInside` for `PlainSpec`, any set of files, bytes, offsets, data and sizes.
The assumptions are those on the constants: data are sequences of bytes, `Junk`
is not a byte, offsets are integers. The invariant `IInv` says of each file that
its bytes are written, that the position is inside, and that a file without a
buffer is empty: a Log that takes over a buffer copies to the start whatever the
position says, which is right only because an unused file has position 0. The
argument goes through one lemma (`RoomType`): in every mode, making room leaves
a hole exactly at the position, as long as the new bytes. In insert mode, Log
makes no room, so the theorems exclude it, as the run does.

`MemImplementsByteFile` proves the refinement for the same instances: `PlainSpec =>
ImplementsByteFile`, command by command, each mapped to the abstract one of its name
or to a stutter. Two steps map to another one: a seek that pads the source of a Log
and reads nothing is `LogNothing`, and in overwrite mode a Log of a memory file into
itself, which writes behind what it has read, is one that `ByteFile` has already
as `PutVarChr`.

## 4. Arrays

| Module | What it is |
|---|---|
| `BmsArray` | `g_array[]`: PutArray, GetArray, SearchArray, SortArray |
| `BmsArray_proofs` | the theorems |
| `MC_Array` | the instance for TLC |

`arr[x]` are the elements of `g_array[x].var`, `room[x]` its
`allocated_elements`; elements count from 1 here and from 0 in a script. `sort`
holds the locals of `CMD_SortArray_func` while it runs. `got` is what a command
delivers into variables of the script.

| Action or operator | Code |
|---|---|
| `PutArray`; `Place`, `Roomy`, `Grown`, `Copied` | `CMD_PutArray_func`; the index, the allocation, the cleared elements, `variable_copy` |
| `GetArray`; `From` | `CMD_GetArray_func` |
| `SearchArray`; `Same` | `CMD_SearchArray_func` |
| `SortArray`, `SortScan`, `SortPlace`; `Less`, `Moves`, `Swapped` | `CMD_SortArray_func`: its start, a turn of the inner loop, the end of a turn of the outer one; `SortArray_swap` |
| `Restart` | `bms_init(1)`: no array has elements any more, the buffers stay |

Abstractions. A value is a number, a text or `Hole`, an element that was cleared
and never put. `Rank` is the order of `mystricmp` over texts, decimal numbers
(`myitoa`) and `Hole`; numbers compare with each other modulo `Wrap`. An
element nobody has cleared is `Junk`, and a value put there stays `Junk`:
`variable_copy()` with `keep_content` reuses the pointers it finds in it. The
limit of 4 GB and a failing `realloc` are left out; so is the one element that the code
allocates beyond `room`, which makes `RoomEnough` stricter by that. `sort.old` is a history
variable: what the arrays held when the sort began.

### Properties

* `NothingStale`: no element is `Junk`, although PutArray may skip elements and
  the reset leaves full buffers behind.
* `RoomEnough`: no array reaches behind its allocation, which outlives the
  elements.
* `TypeOK` also says that SortArray points into the array it sorts.
* `SortAscends`: an array of one kind ends in ascending order, numbers unsigned.
  In a mixed array `Less` is no order (9 < 10 as numbers, "10" < "9" as texts),
  and nothing is promised.
* `SortKeepsRows`: one permutation explains the sorted array and, with ALL,
  every array that is at least as long; no other array changes.

### Runs

`arrays` checks two arrays of at most `MaxElements` = 3 elements, blocks of one
element, indices -3..2, the numbers -1 and 5 and a text between them in
alphabetical order, so that a number can be the greatest as a number and the
least as a text. Three elements are the fewest with an exchange that another
exchange follows; two arrays can be shorter, longer or as long as each other.

### What is proved

`BmsArray_proofs` proves `ArrayTypeCorrect`, `ArrayNothingStale`,
`ArrayRoomEnough`, `ArraySortHalfway` (`SortInv`), `ArraySortAscends` and
`ArraySortKeepsRows` for any number of arrays of any length, any values, order of texts, number width, block size and
indices; the assumptions are those on the constants in `BmsArray`. `IInv` joins
the state invariants with `SortInv`, because SortAscends and SortKeepsRows speak
of a single step, the last one: what leads up to it has to be remembered.
`SortInv` says that some permutation of the old rows yields the present ones
(an exchange after it is a permutation again, `SwapPermuted`), that the elements
in front of `i` are final, and that `best` is the least of those compared. For
the order, `Key` maps the elements of one kind to integers, on which SMT argues
(`LessIsOrder`, `ScanLeast`, `PlacePrefix`). That SortArray ends at all is not
proved; its loops are bounded by the length of the array.

## 5. Bits

| Module | What it is |
|---|---|
| `BitFile` | GetBits and PutBits over the bit functions of `file.c:1325-1500`, next to the commands on bytes |
| `BitStream` | the abstract specification: a byte position and the bits used of the byte in front of it, without a cache |
| `BitFile_proofs` | the theorems |
| `MC_Bits` | the instance for TLC |

`bytes` and `pos` are the memory file, `bitchr`, `bitpos`, `bitoff` what it keeps
between two bit commands: the byte read last, how much of it is used, and the
position behind it. `n` to `rem` are the locals of `fd_read_bits()` and
`fd_write_bits()`; one action is one bit, or one command on bytes.

| Action | Code |
|---|---|
| `GetBits`, `PutBits` (`Start`, `Piece`) | `CMD_GetBits_func`, `CMD_PutBits_func`, `my_fdbits`: up to `INTSZ` bits are a number, more are a string made in pieces |
| `ReadBit`, `WriteBit`, `NextPiece`, `Finish` | a turn of the loops, the next piece, storing the byte back |
| `GetByte`, `PutByte`, `Poke`, `GoTo`, `Log`, `Restart`, `Endian` | what other commands do to the file and to the cache |

Properties: `ImplementsBitStream` (the bits, and where they are, are those of a
stream without a cache, although PutBits writes a byte late and GetBits reads
ahead), `CacheFresh` (the cached byte is the one in the file) and `NumbersRight`
(a number is made of its bits in the order of `g_endian`, across bytes).

Run `bits`: bytes of `W` = 2 bits, so that borders come often, numbers of 1 bit
and strings of 3, which is more than a byte and more than `INTSZ` = 2, files of
up to 3 bytes, no append mode. `PlainSpec` leaves out what the code gets wrong:
bits used after a command on bytes has come back to the very position where bits
were used last, and a PutVarChr into a byte that is partly used (disagreements 8
and 9); append modes are disagreement 10.

Proved for `PlainSpec`, bytes of any width, files of any size and any sizes of
numbers: `BitsTypeCorrect` and `BitsCacheFresh`, in every append mode, and
`BitsAreAStream`, the refinement, without append modes: every step of the code
maps to one of the stream or to a stutter. `CacheFresh` is the invariant it rests on: mapping the cache
away is right only if the cache is the file's byte. `NumbersAreRight` proves
`NumbersRight`, for numbers of any length over any number of bytes: the invariant
`NumInv` says what the bits so far amount to in the middle of a command: the number
read up to now, or the part of the one to be written that is done. Numbers are a recursive function over the bits, and the
induction over it goes through a least element (`WFMin`).

## 6. Conditions

| Module | What it is |
|---|---|
| `BmsCond` | `check_condition()` for a condition in several parts |
| `BmsCond_proofs`, `MC_Cond` | the theorems, the instance for TLC |

`Judge` is a turn of the first loop, which appends a result and an operator;
`Reduce` combines two neighbours in place; `Shift` ends a pass, after which both
lists move up by one; `Return`. How one condition compares its variables is a
free truth value; what an operator makes of two truth values is not (`Holds`).
`left` is a history: the value from left to right.

Each pass reads results that the pass before has overwritten, and applies the
last operator again. That is harmless if a second application changes nothing
(`Absorbing`: `&`, `|`, not `^`). `LeftToRight` says so of the result and
`PassInv` of every list in the middle of a pass; both are proved for commands of
any length and any operators (`CondLeftToRight`, `CondPasses`, with
`CondTypeCorrect` and `AndOrAbsorbing`). The run `conditions` checks up to five
conditions, one more than the manual allows, joined by `&`, `|`, `^` and `<`.
What `^` does instead is disagreement 7.

## 7. Variables and calls

| Module | What it is |
|---|---|
| `BmsCall` | `g_variable[]` and what `CMD_Function_func` does to it: copies, arguments, handing back |
| `BmsEnv` | the abstract specification: environments of names, a call binds all arguments at once |
| `BmsCall_proofs`, `MC_Vars` | the theorems, the instance for TLC |

`tables` are the table and the copies it was taken from, `calls` the activations
with the indices of what was passed (`args[][0]`) and of the variables that hold
it (`args[][1]`, `at`). `Bind` and `HandBack` treat one argument, `Leave` frees the
copy. A Write of a constant asks the user once (`forced`).

Properties: `ImplementsEnv` (copying by index, one after the other, is a call by
names), `IndicesStable` (the index the parser gave to a name, or a call to its
argument, means that name in every copy, in a table that may run full),
`OthersRestored` (KEEP_VAR 0 leaves no trace but in what was passed).

`BmsEnv` hands the arguments back with and without KEEP_VAR (`Handed`), as
`cmd.c:6478-6487` does: it is the code said in names, not the manual, which speaks of no
argument that comes back (`readme.md:4094-4097`, `4108`). For them the code does
not do what the manual says of a call without KEEP_VAR (disagreement 11).

Run `vars`: two functions that call each other and themselves, two calls deep,
of two and one arguments, with and without KEEP_VAR, a literal and a variable
that is also an argument, and a table of three slots that is full after the first
new argument. `PlainSpec` leaves out a call that passes the function's own
arguments in another order and a text with a zero byte (disagreements 12, 13).
`vars_literal` is a violation (disagreement 14).

`BmsCall_proofs` proves `CallTypes`, `CallIndicesStable` and `CallOthersRestored`
of `Spec`, so with the calls that `PlainSpec` leaves out, for every script, any
functions, depth of calls and size of the table, from the assumptions on the
constants in `BmsCall` (the names of the script are distinct and fit in the table).
The inductive invariant `IInv` says of every table that the parser's
indices fit it and no name is there twice (`Good`), counts the copies by the calls
with KEEP_VAR 0 (`Lev`), lets every call's notes name variables of its own table
(`Noted`), and freezes the table below a copy but for what the last call hands
back (`Frozen`): `OthersRestored` looks at one step only and needs the whole life of
the copy. `CallImplementsEnv` proves the refinement, `PlainSpec => ImplementsEnv`, under
the same assumptions: no name is twice in a table, so the slot that the mapping
chooses for a name is the one whose index the code holds, in every copy; and
arguments bound one after the other give what binding them all at once gives, because
in `PlainSpec` none of those still to be read is written in between.

## 8. Reimport

| Module | What it is |
|---|---|
| `Reimport` | the script that extracted an archive runs over it again and writes: Get, Math, SavePos, GoTo and Log in the three modes, one write per step |
| `ArchiveFiles` | the abstract specification: a table of named files, of which a run replaces those in the folder |
| `Reimport_proofs`, `MC_Reimport` | the theorems, the instance for TLC |

The archive is a sequence of cells and a field is one cell. `ref` is
`variable_reimport_t`: where Get has read a variable, and the Math done on it
since. `log` are the locals of `dumpa()`. A run of the program is one pass over
the script; `Again` starts it anew, also in the middle of a Log (`Stops`), since a
user may end it and begin again. `job` is what the user has started: the script,
the mode, option -0, and how questions are answered.

| Action | Code |
|---|---|
| `Get`, `Math`, `SavePos`, `GoTo` | the commands, with `add_var_reimport` and the history of `CMD_Math_func` |
| `Log`, `Ask`, `WriteHere`, `Skip` | `dumpa` in write mode, `ask_force_reimport` |
| `Clear`, `AppendSpace`, `WriteOffset`, `WriteData`, `WriteSize` | the writes of reimport2, `dumpa_reimport2` |
| `StartShift`, `MoveChunk`, `EndShift` | `dumpa_shrink_enlarge` of reimport3 |

Abstractions: scripts are straight, a loop over a table being written out; no
compression, encryption, append mode, SLog, ImpType or memory files. A Get with an
offset of its own reads there and seeks back (`Exec`, `cmd.c:924-975`); what is noted
of the variable is the position before it (`Get`, disagreement 20). Math whose operand
is the variable itself is undone with the value it has before; the code stores each step of
it in the variable and reads the operand again (`file.c:1925-1926`). The build is
the one with 4 GB files, where a seek below 0 fails. What the script finds in an
archive is defined by running it over the cells (`Outcome`, `Files`).

`FieldsMatch` holds for scripts that read the fields of a table (`TableScripts`: each
field where the script is, before its Log, at most eight steps of Math with constants),
and the theorems on contents for files that share no cells (`InPlace`, `Separate`). TLC
asserts both of the jobs (of the job `plain`, for `Separate`).

Properties:

* `Recovered`: a run that gets to its end has put every file of the folder into
  the archive and changed no other, whatever the runs before it left half done.
* `LeftOriginal`: a file that is not in the folder can be extracted as before,
  also between two writes of another one.
* `FieldsMatch`: what was noted about the offset and the size of a Log is a field
  of the archive from which the Math leads to the value.
* `WritesOwn`: outside of reimport3 a Log changes its own cells only.
* `KeepsPlace`: the script goes on where it was.
* `VoidWritesNothing`: -0 in mode 1.
* `ImplementsTable`: every step replaces one file of the table, or, if the run
  stops there, breaks that one.

Run `reimport`: ten jobs, among them offsets in units and from a base (Math and its
inverse, with + and -, unsigned numbers below `M` = 65536), files one behind the other in modes 2 and 3, damaged archives, a user
who forces, retries or quits; every folder of files of 0 to 3 cells; three runs,
so that a second may stop at what the first has left. `BUFSZ` = 2 makes chunks
that overlap their target. reimport3 runs to its end in the model: it moves data
in place, the manual asks for a backup, and no later run can tell what was moved. An old file
that would end below 0 is not moved.
Several places are left out of these jobs: disagreements 16 to 20.

Proved in `Reimport_proofs`, for every script, archive and folder, all answers, and
wherever a run stops:

* `ReimportTypes` (the invariant `Inv`, all modes), `ReimportWritesOwn` (`WritesOwn`),
  `ReimportKeepsPlace` (`KeepsPlace`). While a Log is under way the archive stands at
  the place where the file is to be written, and what reimport3 moves lies in the
  archive and behind the file.
* `VoidLeavesArchive` (`VoidWritesNothing`) and `VoidKeepsFiles`: with -0 in mode 1
  nothing is written, so `Recovered` and `LeftOriginal` hold even where files overlap.
* `FieldsAreMatched`: `TableScripts` implies `FieldsMatch` in modes 2 and 3, over any
  number of runs. What is noted of a variable between commands was read by a Get before
  `pc` (`WasRead`), with no more Math than fits (`FewSteps`) and by constants
  (`Constant`), and gives the value that the variable has (`Follows`).
* `ReinjectorRecovers` (`Recovered`), `ReinjectorLeavesOriginal` (`LeftOriginal`) and
  `ReinjectorImplementsTable` (the refinement), mode 1 under `InPlace`: for files that
  share no cells with each other nor with what Get reads, and a user who neither
  forces nor edits. An archive that is `Alike` in what Get reads is read alike
  (`AlikeOutcomes`, by induction over the commands), so a run over an archive that was
  left half done finds the same places. The invariant `RunInv` says that the script is where the
  extraction was (`Follow`) and that the cells of each Log behind `pc` are what is
  wanted, those of a later one wanted or original (`Cells`).

Checked by TLC only: `Recovered`, `LeftOriginal` and `ImplementsTable` in modes 2 and 3,
where fields and files move, and in mode 1 for a user who edits a file.

## 9. IPC mode

| Module | What it is |
|---|---|
| `Ipc` | option -W: the pipe and mailslot threads and the web server, over the globals they share; instantiated by its `MC_Ipc*.cfg` |
| `Ipc_proofs` | the theorems |

`comtype`, `cipher`, `cmds`, `redirect` and `lent` are globals of the interpreter:
the algorithm, the context of the cipher, the commands, what stands for
filenumber 0, and the memory files that hold the content of a request. `silent` are the peers that
neither send nor read nor leave any more. `at` is
the place of each pipe thread and `sent` the command it has read. `web` is the main
thread, which serves one connection after the other; `queue` is the backlog of
`accept()`. `answer` is a history.

| Action | Code |
|---|---|
| `Connect`, `ReadCommand`, `PipeInit`, `PipeParse`, `ReadInput` | a pipe's request, step by step (`ipc.c:1388-1429`) |
| `DispatchComType`, `ReadSize`, `PipeCompress`, `PipeCrypt`, `NoAnswer` | `ipc.c:1431-1470` |
| `Written`, `ReadFails` | the answer has been read or the client has left; the `goto quit` of each read |
| `Accept`, `ReadHeader`, `ReadBody`, `Reply`, `Timeout`, `HangsUp` | a connection (`ipc.c:1551-1565`, `750-832`, `1035-1096`) |
| `PipeSilent`, `WebSilent` | a peer falls silent, at a read or at the write of its answer |
| `Standstill` | every thread waits for a silent peer and every client for the main thread |
| `SetComType`, `Decompress`; `CryptInit`, `SetCipher`, `Decrypt`; `ScriptInit`, `ScriptParse`; `Lend`, `Run`, `GiveBack` | /compress, /crypt, /script, /file in `ipc_handle_command` |

A step is what a thread does between two reads, or two calls that touch the
globals. A script and a pipe's command are one command each: ComType,
Encryption, or the one-argument Open that redirects filenumber 0. An answer is
the algorithm or the cipher it was made with.

Properties: `WebAsAsked` (the web server answers with what it was asked for, whatever
one before has set, whether that was answered or given up), `PipesForget` (a pipe's
answer is made with what the pipe itself asks for or with the default, never with what
another request has set; that it is always the default is disagreement 21), `FileSeesItsInput` (when the script of a /file starts, filenumber 0
is a memory file with the content of that request) and `EveryoneServed` (below).

| Run | Instance | What it shows |
|---|---|---|
| `ipc` | a pipe and a client, two algorithms, two ciphers, requests one at a time, connections of up to two requests | all orders of requests, a redirection that outlives its script included |
| `ipc_together` | a pipe and two clients, one algorithm and cipher, requests at the same time, connections of up to two requests, no redirection | the reset of a pipe in the middle of a /file does not reach its content, which lies in the memory file that `bms.c:2975` stops in front of; everyone is served although others fall silent |

`Together` says whether requests overlap. The manual asks for one at a time
(`readme.md:4962`), and the first run keeps to it. Overlapping requests race on the
globals; only `FileSeesItsInput` is claimed of them, which rests on the one
memory file that no pipe's reset reaches, and `EveryoneServed`, which does not depend on
the globals. `MaxKeep` bounds the
requests in a connection: a client that goes on for ever would keep the others
out (disagreement 23), and two are enough for one to follow another. `Redirects`
are the filenumbers that a script's Open may put in place of 0; 0 itself, which takes
the redirection back, is left out (disagreement 24).

Fairness: each pipe thread and the main thread make their next step
(`WF_vars(Serve(p))`, `WF_vars(Connection \/ Handle)`). Nothing is assumed of a peer:
wherever a thread waits for one, that it falls silent is among the steps, and after
that the thread waits for ever, for no read or write has a timeout (`ipc.c:688`, `810`,
`1071`, `1405-1434`) but that of a header (`timeout()`, `ipc.c:771`), whose clock runs.
So `EveryoneServed` promises what the code can: a client that connects gets its turn and
loses its connection in the end, unless the client in front of it (or itself) stops in a
body or before it has read its answer (`HeldUp`), when all wait for ever (`Standstill`); and
a pipe listens again unless its own client falls silent, whatever happens to the
others. A header that comes in byte by byte starts the timeout anew with each byte; in
the model a header is one step, so who begins one ends it or falls silent.

Proved for any number of pipes and clients, any algorithms and files: `IpcTypes`
(with `Held`, that a handler has a request of its own kind); with one request at
a time, `IpcPipesForget` and `IpcWebAsAsked`; and `IpcFileSeesItsInput`, if no
script takes the redirection back, and for overlapping requests if none
redirects (`NoneToZero`). The invariant says for each place of a thread what is
already its own: the algorithm from `SetComType` on, the cipher between
`SetCipher` and `Decrypt`, zlib and no cipher from a pipe's `bms_init(1)` on; that
at most one thread that can still move is at such a place (`Alone`: one whose peer is silent will
never answer, and does not count); and that the memory file lent is
the one that filenumber 0 stands for. `EveryoneServed` is liveness and stays with
TLC.

## 10. Where code and manual disagree

Two have a run of their own, which TLC ends with the counterexample. The others
were met while translating; the passing runs leave their cases out, as said above.

1. In `For / If / Continue / EndIf / Do / print / While / Next` the nested loop
   inherits the pending Continue, takes it for its own at its end and executes
   its body (`bms.c:54`), while `readme.md:1122` promises "the Continue
   instruction for skipping the remaining part of the cycle".
2. Run `jumps_branch`: a jump to a label inside an If that encloses the jump
   leaves the frames below the label skipping (`bms.c:461` clears only its own
   `nop`), while `readme.md:4625` says "it works like goto in C".
3. A jump backwards inside a function leaves the function at `bms.c:369` and ends
   the script.
4. `dumpa_memory_file` (`file.c:1557`) has no branch for the insert mode. A Log
   into a memory file then overwrites what is at the position, and what reaches
   behind the end is cut off, while `readme.md:3311` promises "size = position +
   data + remaining" for the Log commands.
5. The first Log into an unused memory file leaves its position at 0
   (`file.c:1584`), later ones in append mode behind their bytes; the comment at
   `file.c:1596` says "just like a normal file".
6. A GetArray of several variables with an index in front of the first element
   delivers the number of elements to the first variable and reads no other
   (`cmd.c:6132`), while `readme.md:4033` says "it's the same of" one getarray
   per variable.
7. The reduction applies the last operator again in every pass, so `0 ^ 1 ^ 0` yields 0 (`cmd.c:537`), while `readme.md:1791` allows
   several conditions and `readme.md:1812` lists `^` as logical XOR.
8. `readme.md:4302-4305` says that the bit position is reset when a command moves
   the file; GetBits compares offsets only (`cmd.c:847`), so a GoTo that comes
   back goes on in the middle of the old byte.
9. `file.c:1330` calls `bitchr` "the current byte read from the file"; a PutVarChr
   that changed the byte is not seen (`cmd.c:846`), and PutBits writes the old
   bits back over it.
10. `readme.md:3292-3293` names the commands that Append affects, PutBits not
    among them; in append mode PutBits adds a copy of the byte behind the end
    instead of writing it back (`file.c:1419`).
11. `readme.md:4094-4097` says that without KEEP_VAR "the variables will be
    restored to their backup" (and `4108` that there is no return value); those that were
    passed get what the function has made of its arguments (`cmd.c:6483`).
12. A function that calls itself with its own arguments in another order gets the
    same value twice (`cmd.c:6453`), against `readme.md:4119-4120`.
13. A text with a zero byte loses what is behind it by being passed
    (`cmd.c:6454`), while `readme.md:4089-4091` speaks of a backup.
14. Run `vars_literal`: a function that changes an argument passed as the literal
    123 makes every 123 of the script something else (`cmd.c:6483`); `defs.h:331`
    and `var.c:936` call literals "fixed" and "like read-only".
15. After "retry the reimporting" (`file.c:1818`) the script
    goes on at the data of the file, since the position is not set back
    (`file.c:1824`).
16. `readme.md:218` calls -0 "useful for testing"; reimport2 clears the old place
    and rewrites the fields all the same (`file.c:3227`).
17. Two entries of a table that share their data: importing one of them with a
    bigger file clears the data of the other (`file.c:3227`), which
    `bms.c:3097` reports as "left original".
18. A size in units is cut: no multiple is looked for, as it is for an offset
    (`file.c:1920`), while `readme.md:413-429` allows Math on size fields.
19. A variable that Get has read and SavePos has set since still counts as read
    from its field (`cmd.c:1089`), so reimport2 overwrites something else.
20. Get with an offset of its own notes the position before it seeks there
    (`cmd.c:926`), so reimport2 rewrites the wrong cell.
21. `readme.md:4955` says that IPC "supports the encryption command
    too"; a pipe parses its command and never runs it (`ipc.c:1445`, `1450`), so
    every algorithm is zlib and data to decrypt comes back unchanged.
22. /file is "based on the script previously provided"
    (`readme.md:4959`); a /crypt or a pipe in between has written its command over
    that script (`cmd.c:7674`, `ipc.c:1411`).
23. The test of `web_ipc_no_keepalive` is inverted (`ipc.c:1086`): a
    client is told "close" and served on, against `ipc.c:59` and `ipc.c:230`.
24. An Open of one argument redirects filenumber 0, which
    `bms_init` leaves alone in this mode (`bms.c:2955`); after `Open 0` no /file
    finds its input.

In one place the manual is more careful than the code: it allows a single Math on
a field, and up to eight are undone, the last first.

## 11. Plan

What comes next, most important first:

1. `Session`: the `redo` loop over several input files: what `bms_init(1)`
   resets, and that variables and the memory file with the highest number stay.
2. `DiskFile`: C files, truncation and option `-.` beside `MemFile`, against the
   same `ByteFile`; FileXOR, whose key follows the position.
3. Sizes near 2^32 in `MemFile` (`file.c:985`).
4. `BmsStructured` over the lines of a script instead of its commands, so that
   the parser is part of the refinement.
5. Proofs of the steps of `ImplementsStructured`, action by action, for orderly
   scripts (`FlowInv` says where the frames stand); of `Recovered` and
   `ImplementsTable` in mode 2.

Not provable here and left to TLC: liveness (`SearchEnds`, `SkipEnds`,
`EveryoneServed`), where a proof would need fairness and ENABLED. The induction theorems
of the library that take a predicate cannot be used, so recursive functions
(`Valued`, `Outcome`, `Applied`) are reasoned about by a least counterexample.

## 12. Not modelled

Compression, encryption, DLL calls, inline C, disassembly, audio, video, window
messages, the ISO, ZIP, HTML and tree outputs, codepages, and all third-party
code: pure functions of bytes or operating system calls, without a protocol of
their own. They are more than nine tenths of the tree. Of the IPC mode, /tree, /math,
/endian, /calldll, /quit, the pages and the text of HTTP are left out, and scripts
that grow the memory file they are lent. The session and the disk files do have a
protocol and are planned. `PROJECT.json` lists each
part with its reason.
