------------------------------ MODULE Reimport ------------------------------
(***************************************************************************)
(* Reimporting: the script that has extracted an archive runs again over   *)
(* it, in write mode, and every Log puts a file of the folder back         *)
(* (dumpa() with g_reimport, file.c:3003-3309).  reimport2 rewrites the    *)
(* fields of the offset and the size where Get has found them              *)
(* (add_var_reimport(), dumpa_reimport2()); reimport3 moves what is behind *)
(* a file without an offset (dumpa_shrink_enlarge()).                      *)
(*                                                                         *)
(* The archive is a sequence of cells: a field is one cell.  Every write   *)
(* is a step of its own, so that a run may stop between any two.  The      *)
(* script is straight: a loop over the table is written out.  Left out:    *)
(* compression and encryption, append mode, SLog, ImpType, memory files,   *)
(* sizes below 0 and the options -Z, -#, -O and -. .  The build is          *)
(* quickbms_4gb_files, where a seek below 0 fails.                         *)
(***************************************************************************)
EXTENDS Integers, Sequences, SequencesExt

CONSTANTS
    Jobs,       \* scripts, the options they run with, and what they run on
    Value,      \* what the variables hold first: the constants of the script
    Contents,   \* what a file may be edited to
    Filler,     \* option -b
    M,          \* 2^32: the values of an unsigned number
    BUFSZ,      \* QUICKBMS_CACHED_IO_SIZE
    MaxRuns     \* bound: runs

Var == DOMAIN Value

ASSUME ValueAssumption == Value \in [Var -> Int]
ASSUME ScriptAssumption ==
    \A j \in DOMAIN Jobs : LET s == Jobs[j].script IN
        /\ s \in Seq({s[k] : k \in DOMAIN s})
        /\ \A k \in DOMAIN s :
              /\ s[k].op \in {"get", "math", "savepos", "goto", "log"}
              /\ s[k].var \in Var /\ s[k].size \in Var
              /\ s[k].op = "get" => s[k].at \in Var \cup {""}
              /\ s[k].op = "math" => s[k].by \in [op : {"+", "-", "*"}, by : Var]
ASSUME FilesAssumption ==
    /\ \A c \in Contents : c \in Seq(Int)
    /\ \A j \in DOMAIN Jobs :
          /\ \A a \in Jobs[j].archives : a \in Seq(Int)
          /\ \A f \in Jobs[j].folders : f \in [DOMAIN f -> Seq(Int)]
ASSUME NumberAssumption == BUFSZ \in Nat \ {0} /\ M \in Nat \ {0} /\ Filler \in Int /\ MaxRuns \in Nat

MAX_REIMPORT_MATH_OPS == 8

Here == ""      \* Get without an offset
None == -1      \* BMS_TYPE_NONE

VARIABLES
    job,        \* what the user has started: it stays the same
    archive,    \* the file, opened with "r+b"
    folder,     \* the files to be imported, by name
    m,          \* the position in the archive and the variables of the script
    ref,        \* variable_reimport_t: where a variable was read, and the Math on it
    pc,         \* the command
    step,       \* "next", the stage of a Log, or "exit" (myexit)
    log,        \* locals of dumpa()
    runs,
    before,     \* history: the archive when the Log began
    first       \* history: the files of the archive before the first run

vars == <<job, archive, folder, m, ref, pc, step, log, runs, before, first>>

Script   == Jobs[job].script
MODE     == Jobs[job].mode      \* 1, 2 or 3, as in Reimport MODE
VoidDump == Jobs[job].void      \* option -0
Answers  == Jobs[job].answers   \* what the user answers: "skip", "quit", "retry", "force"
Stops    == Jobs[job].stops     \* whether a run may stop between two writes

-----------------------------------------------------------------------------
(* The archive as the script sees it *)

\* '/' of unsigned numbers, and by zero.
Quotient(x, y) == IF y % M = 0 THEN 0 ELSE (x % M) \div (y % M)

\* math_operations(); the operand is a variable, a constant too.
Apply(val, x, o) ==
    CASE o.op = "+" -> x + val[o.by]
      [] o.op = "-" -> x - val[o.by]
      [] o.op = "*" -> x * val[o.by]
      [] o.op = "/" -> Quotient(x, val[o.by])

\* math_opbck, and math_op, from the last to the first.
Applied(val, x, ops) ==
    LET y[k \in 0 .. Len(ops)] == IF k = 0 THEN x ELSE Apply(val, y[k - 1], ops[k])
    IN  y[Len(ops)]

RevOp(o) == [o EXCEPT !.op = CASE @ = "+" -> "-" [] @ = "-" -> "+" [] @ = "*" -> "/"]

Undone(val, x, ops) == Applied(val, x, Reverse([k \in DOMAIN ops |-> RevOp(ops[k])]))

\* Where Get reads.
At(s, c) == IF c.at = Here THEN s.pos ELSE s.val[c.at]

Fails(a, s, c) ==
    \/ c.op = "get" /\ At(s, c) \notin 0 .. Len(a) - 1
    \/ c.op = "goto" /\ s.val[c.var] < 0

Put(a, p, s) ==
    IF s = <<>> THEN a
    ELSE [k \in 1 .. (IF Len(a) > p + Len(s) THEN Len(a) ELSE p + Len(s)) |->
             IF k > p /\ k <= p + Len(s) THEN s[k - p]
             ELSE IF k <= Len(a) THEN a[k] ELSE 0]

Fill(n, x) == [k \in 1 .. n |-> x]

\* The position and the variables after a command of the script.  A Get with its own
\* offset seeks back to where it was.
Exec(a, s, c) ==
    CASE c.op = "get"     -> [pos |-> IF c.at = Here THEN s.pos + 1 ELSE s.pos,
                              val |-> [s.val EXCEPT ![c.var] = a[At(s, c) + 1]]]
      [] c.op = "math"    -> [s EXCEPT !.val[c.var] = Apply(s.val, @, c.by)]
      [] c.op = "savepos" -> [s EXCEPT !.val[c.var] = s.pos]
      [] c.op = "goto"    -> [s EXCEPT !.pos = s.val[c.var]]
      [] c.op = "log"     -> s

Fresh == [pos |-> 0, val |-> Value]

\* A command of an extraction, which reads on unless it fails.
Extract(a, r, c) ==
    LET o == r.s.val[c.var]
        n == r.s.val[c.size]
    IN  IF ~r.ok \/ Fails(a, r.s, c) THEN [r EXCEPT !.ok = FALSE]
        ELSE IF c.op = "log" /\ o >= 0 /\ n >= 0 /\ o + n <= Len(a)
        THEN [r EXCEPT !.out = [f \in DOMAIN r.out \cup {c.name} |->
                                   IF f = c.name THEN SubSeq(a, o + 1, o + n) ELSE r.out[f]]]
        ELSE [r EXCEPT !.s = Exec(a, @, c)]

\* What the first k commands of a script do.  (There is one outcome; it is kept in a
\* set, so that it is evaluated once.)
Outcome(s, a, k) ==
    LET after[i \in 0 .. k] ==
            IF i = 0 THEN {[s |-> Fresh, out |-> <<>>, ok |-> TRUE]}
            ELSE {Extract(a, r, s[i]) : r \in after[i - 1]}
    IN  CHOOSE r \in after[k] : TRUE

\* The files that the script extracts; one that cannot be read is not among them.
Files(a) == Outcome(Script, a, Len(Script)).out

-----------------------------------------------------------------------------

NoField == [at |-> None, ops |-> <<>>]

NoLog == [name |-> "", oldoff |-> 0, offset |-> 0, old |-> 0, data |-> <<>>,
          from |-> 0, tmpoff |-> 0, forced |-> FALSE]

Begin ==
    /\ m = Fresh
    /\ ref = [v \in Var |-> NoField]
    /\ pc = 1 /\ step = "next"
    /\ log = NoLog

Init ==
    /\ job \in DOMAIN Jobs
    /\ archive \in Jobs[job].archives /\ folder \in Jobs[job].folders
    /\ Begin
    /\ runs = 1
    /\ before = archive
    /\ first = Files(archive)

Cmd == Script[pc]

Now(op) == step = "next" /\ pc <= Len(Script) /\ Cmd.op = op

Exit == step' = "exit" /\ UNCHANGED <<archive, folder, m, ref, pc, log, runs, before, first>>

Do == m' = Exec(archive, m, Cmd) /\ pc' = pc + 1 /\ UNCHANGED <<archive, folder, step, log, runs, before, first>>

\* Mutant: the Math of what the variable was before is kept.
Get_keepsMath ==
    /\ Now("get")
    /\ \/ Fails(archive, m, Cmd) /\ Exit
       \/ /\ ~Fails(archive, m, Cmd) /\ Do
          /\ ref' = [ref EXCEPT ![Cmd.var].at = IF At(m, Cmd) + 1 = m.pos THEN None ELSE m.pos]

\* add_var_reimport(), before the seek back: the offset is the position before Get has
\* moved to its own, and counts as none if Get now stands there.
Get ==
    /\ Now("get")
    /\ \/ Fails(archive, m, Cmd) /\ Exit
       \/ /\ ~Fails(archive, m, Cmd) /\ Do
          /\ ref' = [ref EXCEPT ![Cmd.var] =
                 [at |-> IF At(m, Cmd) + 1 = m.pos THEN None ELSE m.pos, ops |-> <<>>]]

\* The history of a variable that was read.
Math ==
    /\ Now("math") /\ Do
    /\ ref' = IF ref[Cmd.var].at # None /\ Len(ref[Cmd.var].ops) < MAX_REIMPORT_MATH_OPS
              THEN [ref EXCEPT ![Cmd.var].ops = Append(@, Cmd.by)] ELSE ref

SavePos == Now("savepos") /\ Do /\ UNCHANGED ref

GoTo ==
    /\ Now("goto")
    /\ \/ Fails(archive, m, Cmd) /\ Exit
       \/ ~Fails(archive, m, Cmd) /\ Do /\ UNCHANGED ref

-----------------------------------------------------------------------------
(* A Log *)

\* Mutant: the position is not set back.
Leave_noSeek(p) ==
    /\ m' = m
    /\ pc' = pc + 1 /\ step' = "next"
    /\ log' = NoLog

\* The next command, at position p.
Leave(p) ==
    /\ m' = [m EXCEPT !.pos = p]
    /\ pc' = pc + 1 /\ step' = "next"
    /\ log' = NoLog

\* The file is read; a shorter one is filled up (old_zsize).
Opened(n, oldoff, offset, old, from) ==
    /\ log' = [name |-> n, oldoff |-> oldoff, offset |-> offset, old |-> old,
               data |-> folder'[n], from |-> from, tmpoff |-> 0, forced |-> FALSE]
    /\ m' = [m EXCEPT !.pos = offset]
    /\ step' = "fit"

\* A file that is not in the folder is left original.
Log ==
    /\ Now("log")
    /\ UNCHANGED <<archive, folder, ref, runs, first>>
    /\ LET n == Cmd.name
           o == m.val[Cmd.var]
           s == m.val[Cmd.size]
       IN  \/ n \notin DOMAIN folder /\ Leave(m.pos)
           \/ /\ n \in DOMAIN folder /\ o >= 0
              /\ Opened(n, m.pos, o, s, m.pos)
              /\ UNCHANGED pc
           \/ /\ n \in DOMAIN folder /\ o < 0
              /\ step' = "exit"
              /\ UNCHANGED <<m, pc, log>>
    /\ before' = archive

Skip == Leave(log.oldoff) /\ UNCHANGED <<archive, folder, ref, runs, before, first>>

Size == Len(log.data)

HasField(v) == ref[v].at # None

\* What is written in the place of the old file.
Padded == log.data \o Fill(log.old - Size, 0)

\* ask_force_reimport()
Ask ==
    /\ step = "fit" /\ MODE = 1 /\ Size > log.old /\ ~log.forced
    /\ \/ (VoidDump \/ "skip" \in Answers) /\ Skip
       \/ ~VoidDump /\ "quit" \in Answers /\ Exit
       \/ /\ ~VoidDump /\ "force" \in Answers
          /\ log' = [log EXCEPT !.forced = TRUE]
          /\ UNCHANGED <<archive, folder, m, ref, pc, step, runs, before, first>>
       \/ /\ ~VoidDump /\ "retry" \in Answers
          /\ \E c \in Contents : folder' = [folder EXCEPT ![log.name] = c]
          /\ Opened(log.name, m.pos, log.offset, log.old, log.from)
          /\ UNCHANGED <<archive, ref, pc, runs, before, first>>

\* Mutant: -0 is not tested.
Write_always(s) ==
    /\ archive' = Put(archive, m.pos, s)
    /\ Leave(log.oldoff)
    /\ UNCHANGED <<folder, ref, runs, before, first>>

\* myfw() of the file; reimport2 goes on with the fields.
Write(s) ==
    /\ archive' = IF VoidDump THEN archive ELSE Put(archive, m.pos, s)
    /\ IF MODE = 1 THEN Leave(log.oldoff)
       ELSE /\ m' = [m EXCEPT !.pos = IF VoidDump THEN @ ELSE @ + Len(s)]
            /\ step' = "size"
            /\ UNCHANGED <<pc, log>>
    /\ UNCHANGED <<folder, ref, runs, before, first>>

Shifts == MODE = 3 /\ ~HasField(Cmd.var) /\ Size # log.old

\* It fits, or was forced.
WriteHere ==
    /\ step = "fit" /\ ~Shifts
    /\ Size <= log.old \/ log.forced
    /\ Write(Padded)

\* Mutant: a bigger file without a field is written all the same.
Clear_goesOn ==
    /\ step = "fit" /\ ~Shifts /\ MODE # 1 /\ Size > log.old
    /\ step' = "data"
    /\ UNCHANGED <<archive, folder, m, ref, pc, log, runs, before, first>>

\* reimport2: the old place is overwritten, the file goes to the end of the archive.
Clear ==
    /\ step = "fit" /\ ~Shifts /\ MODE # 1 /\ Size > log.old
    /\ \/ ~HasField(Cmd.var) /\ Skip
       \/ /\ HasField(Cmd.var)
          /\ archive' = Put(archive, m.pos, Fill(log.old, Filler))
          /\ step' = "append"
          /\ UNCHANGED <<folder, m, ref, pc, log, runs, before, first>>

\* What becomes of an offset in the field, by the Math and back.
Aligned(x, ops) == Applied(m.val, Undone(m.val, x, ops), ops)

\* Mutant: the last cell of the archive is taken too.
AppendSpace_over ==
    /\ step = "append"
    /\ m' = [m EXCEPT !.pos = Len(archive) - 1]
    /\ log' = [log EXCEPT !.offset = Len(archive) - 1]
    /\ step' = "offset"
    /\ UNCHANGED <<archive, folder, ref, pc, runs, before, first>>

\* The first offset from the end that does not fall before it; the search goes
\* through as many as there are cells (bound).
AppendSpace ==
    /\ step = "append"
    /\ LET e == Len(archive)
           ops == ref[Cmd.var].ops
       IN  \E x \in e .. 2 * e :
              /\ Aligned(x, ops) >= e /\ \A y \in e .. x - 1 : Aligned(y, ops) < e
              /\ archive' = archive \o Fill(Aligned(x, ops) - e, 0)
              /\ m' = [m EXCEPT !.pos = Aligned(x, ops)]
              /\ log' = [log EXCEPT !.offset = Aligned(x, ops)]
    /\ step' = "offset"
    /\ UNCHANGED <<folder, ref, pc, runs, before, first>>

\* dumpa_reimport2(): the Math is undone, the last first; the position is restored.
Rewritten(v, x) == Put(archive, ref[v].at, <<Undone(m.val, x, ref[v].ops)>>)

WriteOffset ==
    /\ step = "offset"
    /\ archive' = Rewritten(Cmd.var, log.offset)
    /\ m' = [m EXCEPT !.val[Cmd.var] = log.offset]
    /\ step' = "data"
    /\ UNCHANGED <<folder, ref, pc, log, runs, before, first>>

WriteData == step = "data" /\ Write(log.data)

\* Mutant: the size with the padding is written.
WriteSize_padded ==
    /\ step = "size"
    /\ archive' = Rewritten(Cmd.size, IF Size < log.old THEN log.old ELSE Size)
    /\ m' = [m EXCEPT !.pos = log.oldoff]
    /\ pc' = pc + 1 /\ step' = "next" /\ log' = NoLog
    /\ UNCHANGED <<folder, ref, runs, before, first>>

\* A seek back to before the archive fails.
WriteSize ==
    /\ step = "size"
    /\ archive' = IF HasField(Cmd.size) THEN Rewritten(Cmd.size, Size) ELSE archive
    /\ IF log.oldoff < 0 THEN step' = "exit" /\ UNCHANGED <<m, pc, log>>
       ELSE /\ m' = [pos |-> log.oldoff,
                      val |-> IF HasField(Cmd.size) THEN [m.val EXCEPT ![Cmd.size] = Size] ELSE m.val]
            /\ pc' = pc + 1 /\ step' = "next" /\ log' = NoLog
    /\ UNCHANGED <<folder, ref, runs, before, first>>

-----------------------------------------------------------------------------
(* reimport3: dumpa_shrink_enlarge() *)

Diff == Size - log.old
End  == log.offset + log.old

\* (An end below 0 is left out.)
StartShift ==
    /\ step = "fit" /\ Shifts /\ End >= 0
    /\ log' = [log EXCEPT !.tmpoff = IF Diff < 0 THEN End ELSE Len(archive)]
    /\ step' = "shift"
    /\ UNCHANGED <<archive, folder, m, ref, pc, runs, before, first>>

Moved == IF Diff < 0 THEN log.tmpoff >= Len(archive) ELSE log.tmpoff <= End

Smaller(x, y) == IF x < y THEN x ELSE y

\* Mutant: from the front when the archive grows, too.
MoveChunk_fromFront ==
    /\ step = "shift" /\ ~Moved
    /\ LET t == IF Diff < 0 THEN Smaller(BUFSZ, Len(archive) - log.tmpoff)
                ELSE Smaller(BUFSZ, log.tmpoff - End)
           p == IF Diff < 0 THEN log.tmpoff ELSE End + Len(before) - log.tmpoff
       IN  /\ archive' = Put(archive, p + Diff, SubSeq(archive, p + 1, p + t))
           /\ log' = [log EXCEPT !.tmpoff = IF Diff < 0 THEN p + t ELSE @ - t]
    /\ UNCHANGED <<folder, m, ref, pc, step, runs, before, first>>

\* From the front when the archive shrinks, from the end when it grows.
MoveChunk ==
    /\ step = "shift" /\ ~Moved
    /\ LET t == IF Diff < 0 THEN Smaller(BUFSZ, Len(archive) - log.tmpoff)
                ELSE Smaller(BUFSZ, log.tmpoff - End)
           p == IF Diff < 0 THEN log.tmpoff ELSE log.tmpoff - t
       IN  /\ archive' = Put(archive, p + Diff, SubSeq(archive, p + 1, p + t))
           /\ log' = [log EXCEPT !.tmpoff = IF Diff < 0 THEN p + t ELSE p]
    /\ UNCHANGED <<folder, m, ref, pc, step, runs, before, first>>

\* The position of the script moves along with what was behind the file.
EndShift ==
    /\ step = "shift" /\ Moved
    /\ archive' = IF Diff < 0 THEN SubSeq(archive, 1, Len(archive) + Diff) ELSE archive
    /\ log' = [log EXCEPT !.old = Size,
                          !.oldoff = IF @ > End \/ @ > log.offset THEN @ + Diff ELSE @]
    /\ step' = "data"
    /\ UNCHANGED <<folder, m, ref, pc, runs, before, first>>

-----------------------------------------------------------------------------

Finished == step = "next" /\ pc > Len(Script)

\* The user runs the script again, also when the last run did not get to its end.
Again ==
    /\ Stops \/ Finished \/ step = "exit"
    /\ runs < MaxRuns
    /\ m' = Fresh /\ ref' = [v \in Var |-> NoField]
    /\ pc' = 1 /\ step' = "next" /\ log' = NoLog
    /\ runs' = runs + 1
    /\ before' = archive
    /\ UNCHANGED <<archive, folder, first>>

Terminated == (Finished \/ step = "exit") /\ UNCHANGED vars

Commands == Get \/ Math \/ SavePos \/ GoTo \/ Log

InLog ==
    \/ Ask \/ WriteHere
    \/ Clear \/ AppendSpace \/ WriteOffset \/ WriteData \/ WriteSize
    \/ StartShift \/ MoveChunk \/ EndShift

Next == ((Commands \/ InLog \/ Again) /\ UNCHANGED job) \/ Terminated

Spec == Init /\ [][Next]_vars

-----------------------------------------------------------------------------
(* Properties *)

\* Files one behind the other, without an offset: reimport2 skips the bigger ones.
Sequential == \E k \in DOMAIN Script : Script[k].op = "savepos"

Refused(n) ==
    \/ VoidDump
    \/ (MODE = 1 \/ (MODE = 2 /\ Sequential)) /\ Len(folder[n]) > Len(first[n])

Wanted(n) ==
    IF n \notin DOMAIN folder \/ Refused(n) THEN first[n]
    ELSE IF MODE = 1 THEN folder[n] \o Fill(Len(first[n]) - Len(folder[n]), 0)
    ELSE folder[n]

\* The user may force a bigger file over what is behind the old one.
Forcing == "force" \in Answers

\* readme.md:361-398: a run that gets to its end has put all files of the folder
\* into the archive, whatever the runs before it have left half done, and no other.
Recovered == Finished /\ ~Forcing => Files(archive) = [n \in DOMAIN first |-> Wanted(n)]

\* bms.c:3097: a file that is not in the folder is "left original": it can be
\* extracted as before, even while the others are written; in reimport3, which
\* moves it, when no Log is under way.
LeftOriginal ==
    ~Forcing /\ (MODE = 3 => step = "next") =>
        \A n \in DOMAIN first \ DOMAIN folder :
            n \in DOMAIN Files(archive) /\ Files(archive)[n] = first[n]

\* readme.md:415: reimport2 rewrites the fields "by matching the new imported
\* file": what it has noted of the offset and the size of a Log is a field of the
\* archive, and the Math by which the value has come from it (modes 2 and 3).
FieldsMatch ==
    step = "fit" /\ MODE # 1 =>
        \A v \in {Cmd.var, Cmd.size} :
            HasField(v) => /\ ref[v].at < Len(archive)
                           /\ m.val[v] = Applied(m.val, archive[ref[v].at + 1], ref[v].ops)

Reads(s, k, v) == s[k].op = "get" /\ s[k].var = v

\* A script that reads the fields of the next Log, each one where it is, and makes
\* of each one no more than MAX_REIMPORT_MATH_OPS steps with constants: then
\* FieldsMatch holds.
ReadsFields(s) ==
    /\ \A k \in DOMAIN s : s[k].op = "get" => s[k].at = Here
    /\ \A k, l \in DOMAIN s : s[k].op = "savepos" => ~Reads(s, l, s[k].var)
    /\ \A k \in DOMAIN s : s[k].op = "math" /\ (\E l \in DOMAIN s : Reads(s, l, s[k].var)) =>
          /\ \A l \in DOMAIN s : s[l].op \in {"get", "math", "savepos"} => s[l].var # s[k].by.by
          /\ \E l \in 1 .. k - 1 : Reads(s, l, s[k].var) /\ k <= l + MAX_REIMPORT_MATH_OPS
    /\ \A k \in DOMAIN s : s[k].op = "log" => \A v \in {s[k].var, s[k].size} :
          (\E l \in 1 .. k - 1 : Reads(s, l, v)) =>
              \E l \in 1 .. k - 1 : Reads(s, l, v) /\ \A i \in l .. k - 1 : s[i].op # "log"

TableScripts == \A j \in DOMAIN Jobs : Jobs[j].mode # 1 => ReadsFields(Jobs[j].script)

\* Where the k-th command finds the script, and the place of its file, of a Log.
Found(s, a, k) == Outcome(s, a, k - 1).s
From(s, a, k)  == Found(s, a, k).val[s[k].var]
Long(s, a, k)  == Found(s, a, k).val[s[k].size]
Place(s, a, k) == From(s, a, k) + 1 .. From(s, a, k) + Long(s, a, k)

\* A script that reads all of an archive, with files of different names that share
\* no cells with each other, nor with what Get reads.
Separate(s, a) ==
    /\ \A k \in 0 .. Len(s) : Outcome(s, a, k).ok
    /\ \A k \in DOMAIN s : s[k].op = "log" =>
          /\ From(s, a, k) >= 0 /\ Long(s, a, k) >= 0
          /\ From(s, a, k) + Long(s, a, k) <= Len(a)
          /\ \A l \in DOMAIN s : s[l].op = "get" => At(Found(s, a, l), s[l]) + 1 \notin Place(s, a, k)
          /\ \A l \in DOMAIN s : s[l].op = "log" /\ l # k =>
                s[l].name # s[k].name /\ Place(s, a, l) \cap Place(s, a, k) = {}

\* The reinjector, of a user who neither forces nor edits anything.
InPlace ==
    /\ MODE = 1 /\ "force" \notin Answers /\ "retry" \notin Answers
    /\ \A a \in Jobs[job].archives : Separate(Script, a)

\* The cells of a Log: the place of the old file, or of the one that is forced
\* over it, the two fields, what is added.
Own(k) ==
    \/ k > log.offset /\ k <= log.offset + (IF log.forced THEN Size ELSE log.old)
    \/ k > Len(before)
    \/ k - 1 \in {ref[Cmd.var].at, ref[Cmd.size].at}

\* file.c:3211: a Log must not overwrite "the next data": outside of reimport3 it
\* writes its own cells only, and the archive never gets shorter.
WritesOwn ==
    [][MODE # 3 =>
          /\ Len(archive') >= Len(archive)
          /\ \A k \in DOMAIN archive : archive'[k] # archive[k] => Own(k)]_vars

\* readme.md:355-446: a run of the script over the archive replaces files of a
\* table, unless the user forces anything.
Table == INSTANCE ArchiveFiles WITH
    files   <- IF Forcing THEN <<>> ELSE Files(IF step \in {"next", "exit"} THEN archive ELSE before),
    resizes <- MODE # 1,
    stops   <- Stops

ImplementsTable == Table!Spec

Lands == step # "next" /\ step' = "next" /\ pc' = pc + 1

\* file.c:3328-3331: a Log ends where the script was, unless the data behind the
\* file were moved, or the user has edited the file in the meantime.
KeepsPlace ==
    [][Lands /\ MODE # 3 /\ "retry" \notin Answers => m'.pos = log.from]_vars

\* readme.md:218: option -0 is "useful for testing a script without using space";
\* in mode 1 that holds for archives, too.
VoidWritesNothing == [][VoidDump /\ MODE = 1 => archive' = archive]_vars
=============================================================================
