---------------------------------- MODULE Ipc ----------------------------------
(***************************************************************************)
(* The IPC mode of the program (ipc.c, option -W): a thread for each named *)
(* pipe and the mailslot, and a web server in the main thread.  They share *)
(* the globals of the interpreter without a lock; a step below is what a   *)
(* thread does between two reads or two calls that touch them.  A peer may *)
(* leave, or fall silent: then it neither sends nor reads nor leaves any   *)
(* more, and whoever waits for it does so for ever, but for the timeout of *)
(* the header.                                                             *)
(*                                                                         *)
(* A script, and what a pipe sends, is one command; the data and its size  *)
(* are left out.  /tree, /math, /endian, /calldll, /quit and the pages of  *)
(* the web server are not modelled.                                        *)
(***************************************************************************)
EXTENDS Naturals, Sequences

CONSTANTS
    Pipes,      \* threads of pipeslot_ipc_server
    Clients,    \* of the web server
    Algos,      \* compression algorithms
    Zlib,       \* the default one
    Ciphers,
    None,
    MAX_FILES,  \* the last MEMORY_FILE
    Redirects,  \* files that an Open of a script makes of filenumber 0 (0 is none)
    MaxKeep,    \* bound: requests in one connection
    Together    \* whether requests to different threads overlap

ASSUME IpcAssumption ==
    /\ Zlib \in Algos /\ None \notin Algos \cup Ciphers
    /\ MAX_FILES \in Nat \ {0} /\ Redirects \subseteq 0 .. MAX_FILES
    /\ MaxKeep \in Nat \ {0} /\ Together \in BOOLEAN
    /\ Pipes \cap Clients = {} /\ None \notin Clients

Command == [type : {"ComType"}, arg : Algos] \cup [type : {"Encryption"}, arg : Ciphers]
           \cup [type : {"Open"}, arg : Redirects]
NoCommand == [type |-> "NONE", arg |-> None]

\* What the path of a URI asks for.
Request == [path : {"compress"}, arg : Algos \cup {None}] \cup [path : {"crypt"}, arg : Ciphers]
           \cup [path : {"script"}, arg : Command] \cup [path : {"file"}, arg : {None}]

VARIABLES
    comtype,    \* g_compression_type
    cipher,     \* the context of CMD_Encryption_func
    cmds,       \* g_command
    redirect,   \* -g_replace_fdnum0
    lent,       \* memory files that hold the content of a request
    at,         \* where each pipe thread is
    sent,       \* the command each one has read
    web,        \* the main thread: its place, connection, request, requests left, and memfile
    queue,      \* connections that accept has not returned yet
    conn,       \* the connection of each client: "out" or "open"
    silent,     \* peers that have fallen silent: a pipe stands for its client
    answer      \* history: the last answer: by whom, what was asked, with what it was made

globals == <<comtype, cipher, cmds, redirect, lent>>
pipes   == <<at, sent>>
peers   == <<queue, conn, silent>>
http    == <<web, peers>>
vars    == <<globals, pipes, http, answer>>

Waiting == [at |-> "accept", client |-> None, req |-> None, left |-> 0, memfile |-> 0]

Init == /\ comtype = Zlib /\ cipher = None /\ cmds = NoCommand
        /\ redirect = MAX_FILES /\ lent = {}
        /\ at = [p \in Pipes |-> "listen"] /\ sent = [p \in Pipes |-> NoCommand]
        /\ web = Waiting /\ queue = <<>> /\ conn = [c \in Clients |-> "out"]
        /\ silent = {}
        /\ answer = [by |-> "nobody", asked |-> None, with |-> None]

\* At work on a request, and not held up by a silent peer.
PipeBusy(p) == at[p] # "listen" /\ p \notin silent
WebBusy     == web.at \notin {"accept", "header"} /\ web.client \notin silent

\* A request starts while no other thread works on one.
MayStart == Together \/ (~WebBusy /\ \A p \in Pipes : ~PipeBusy(p))

--------------------------------------------------------------------------------
(* bms_init *)

\* The loop over the memory files stops before MAX_FILES.
\* Mutant: the last one is emptied too.
EmptiedAll(files) == {}

Emptied(files) == files \ (0 .. MAX_FILES - 1)

\* Mutant: the context is not freed.
ResetKeepsContext == comtype' = Zlib /\ UNCHANGED cipher

Reset == comtype' = Zlib /\ cipher' = None

bms_init == Reset /\ lent' = Emptied(lent) /\ UNCHANGED <<cmds, redirect>>

Answer(by, asked, with) == answer' = [by |-> by, asked |-> asked, with |-> with]

--------------------------------------------------------------------------------
(* pipeslot_ipc_server *)

Go(p, from, to) == at[p] = from /\ at' = [at EXCEPT ![p] = to]

Connect(p) == /\ MayStart /\ Go(p, "listen", "command")
              /\ UNCHANGED <<globals, sent, http, answer>>

\* namedpipe_read() and namedpipe_write() wait for the client without a timeout.
GoWith(p, from, to) == p \notin silent /\ Go(p, from, to)

ReadCommand(p) == /\ GoWith(p, "command", "init")
                  /\ \E c \in Command : sent' = [sent EXCEPT ![p] = c]
                  /\ UNCHANGED <<globals, http, answer>>

PipeInit(p) == /\ Go(p, "init", "parse") /\ bms_init
               /\ UNCHANGED <<sent, http, answer>>

PipeParse(p) == /\ Go(p, "parse", "input") /\ cmds' = sent[p]
                /\ UNCHANGED <<comtype, cipher, redirect, lent, sent, http, answer>>

\* The size of the input and the input.
ReadInput(p) == /\ GoWith(p, "input", "dispatch")
                /\ UNCHANGED <<globals, sent, http, answer>>

DispatchComType(p) == /\ Go(p, "dispatch", "size") /\ cmds.type = "ComType"
                      /\ UNCHANGED <<globals, sent, http, answer>>

ReadSize(p) == /\ GoWith(p, "size", "compress")
               /\ UNCHANGED <<globals, sent, http, answer>>

\* perform_compression
PipeCompress(p) == /\ Go(p, "compress", "write") /\ Answer("pipe", sent[p], comtype)
                   /\ UNCHANGED <<globals, sent, http>>

\* perform_encryption_and_crchash; without a context the data is as it was.
PipeCrypt(p) == /\ Go(p, "dispatch", "write") /\ cmds.type = "Encryption"
                /\ Answer("pipe", sent[p], cipher)
                /\ UNCHANGED <<globals, sent, http>>

NoAnswer(p) == /\ Go(p, "dispatch", "listen") /\ cmds.type \notin {"ComType", "Encryption"}
               /\ UNCHANGED <<globals, sent, http, answer>>

\* The answer is read by the client, or the client leaves.
Written(p) == /\ GoWith(p, "write", "listen")
              /\ UNCHANGED <<globals, sent, http, answer>>

\* The client leaves, or sends a size that is not one.
ReadFails(p) == /\ \E from \in {"command", "input", "size"} : GoWith(p, from, "listen")
                /\ UNCHANGED <<globals, sent, http, answer>>

PipeSilent(p) == /\ at[p] \in {"command", "input", "size", "write"} /\ p \notin silent
                 /\ silent' = silent \cup {p}
                 /\ UNCHANGED <<globals, pipes, web, queue, conn, answer>>

--------------------------------------------------------------------------------
(* web_ipc_server and ipc_handle_command *)

Call(c) == /\ conn[c] = "out" /\ conn' = [conn EXCEPT ![c] = "open"] /\ queue' = Append(queue, c)
           /\ UNCHANGED <<globals, pipes, web, silent, answer>>

Accept == /\ web.at = "accept" /\ queue # <<>> /\ queue' = Tail(queue)
          /\ web' = [Waiting EXCEPT !.at = "header", !.client = Head(queue), !.left = MaxKeep]
          /\ UNCHANGED <<globals, pipes, conn, silent, answer>>

Listens == web.client \notin silent

ReadHeader == /\ web.at = "header" /\ Listens /\ web.left > 0 /\ MayStart
              /\ \E r \in Request :
                     web' = [web EXCEPT !.at = "body", !.req = r, !.left = @ - 1]
              /\ UNCHANGED <<globals, pipes, peers, answer>>

Close == /\ web' = Waiting /\ conn' = [conn EXCEPT ![web.client] = "out"]
         /\ silent' = silent \ {web.client} /\ UNCHANGED queue

\* Mutant: the server waits on.
NoTimeout == web.at = "header" /\ UNCHANGED vars

\* timeout(sd, 300), which the loop over the header alone calls.
Timeout == web.at = "header" /\ ~Listens /\ Close /\ UNCHANGED <<globals, pipes, answer>>

HangsUp == /\ web.at \in {"header", "body"} /\ Listens /\ Close
           /\ UNCHANGED <<globals, pipes, answer>>

WebSilent == /\ web.at \in {"header", "body", "reply"} /\ Listens
             /\ silent' = silent \cup {web.client}
             /\ UNCHANGED <<globals, pipes, web, queue, conn, answer>>

ReadBody == /\ web.at = "body" /\ Listens /\ web' = [web EXCEPT !.at = web.req.path]
            /\ UNCHANGED <<globals, pipes, peers, answer>>

Step(from, to) == /\ web.at = from /\ web' = [web EXCEPT !.at = to]
                  /\ UNCHANGED <<pipes, peers>>

\* The request decides whether the connection goes on (ipc.c:1087); a client that has left
\* ends it.
Reply == /\ web.at = "reply" /\ Listens
         /\ \/ Close
            \/ /\ web' = [web EXCEPT !.at = "header", !.req = None, !.memfile = 0]
               /\ UNCHANGED peers
         /\ UNCHANGED <<globals, pipes, answer>>

Algo(arg) == IF arg = None THEN Zlib ELSE arg

\* Mutant: without an algorithm the last one stays.
SetComTypeIfGiven == /\ Step("compress", "decompress")
                     /\ comtype' = IF web.req.arg = None THEN comtype ELSE web.req.arg
                     /\ UNCHANGED <<cipher, cmds, redirect, lent, answer>>

\* /compress: CMD_ComType_func, perform_compression
SetComType == /\ Step("compress", "decompress") /\ comtype' = Algo(web.req.arg)
              /\ UNCHANGED <<cipher, cmds, redirect, lent, answer>>

Decompress == /\ Step("decompress", "reply") /\ Answer("web", web.req, comtype)
              /\ UNCHANGED globals

\* /crypt: quickbms_encryption
CryptInit == Step("crypt", "context") /\ bms_init /\ UNCHANGED answer

SetCipher == /\ Step("context", "decrypt")
             /\ cmds' = [type |-> "Encryption", arg |-> web.req.arg] /\ cipher' = web.req.arg
             /\ UNCHANGED <<comtype, redirect, lent, answer>>

Decrypt == /\ Step("decrypt", "reply") /\ Answer("web", web.req, cipher)
           /\ UNCHANGED globals

\* /script: bms_init(0), which empties all, and parse_bms
ScriptInit == /\ Step("script", "parse") /\ Reset /\ cmds' = NoCommand /\ lent' = {}
              /\ UNCHANGED <<redirect, answer>>

ScriptParse == /\ Step("parse", "reply") /\ cmds' = web.req.arg
               /\ UNCHANGED <<comtype, cipher, redirect, lent, answer>>

\* Mutant: the redirection is not looked at.
LendLast == /\ web.at = "file"
            /\ web' = [web EXCEPT !.at = "run", !.memfile = MAX_FILES]
            /\ lent' = lent \cup {MAX_FILES}
            /\ UNCHANGED <<comtype, cipher, cmds, redirect, pipes, peers, answer>>

\* /file
Lend == /\ web.at = "file"
        /\ web' = [web EXCEPT !.at = "run", !.memfile = redirect]
        /\ lent' = lent \cup {redirect}
        /\ UNCHANGED <<comtype, cipher, cmds, redirect, pipes, peers, answer>>

\* start_bms: CMD_ComType_func, CMD_Encryption_func, CMD_Open_func
Run == /\ Step("run", "back")
       /\ comtype'  = IF cmds.type = "ComType" THEN cmds.arg ELSE comtype
       /\ cipher'   = IF cmds.type = "Encryption" THEN cmds.arg ELSE cipher
       /\ redirect' = IF cmds.type = "Open" THEN cmds.arg ELSE redirect
       /\ UNCHANGED <<cmds, lent, answer>>

GiveBack == /\ Step("back", "reply") /\ Reset /\ lent' = Emptied(lent \ {web.memfile})
            /\ UNCHANGED <<cmds, redirect, answer>>

--------------------------------------------------------------------------------

Serve(p) == \/ ReadCommand(p) \/ PipeInit(p) \/ PipeParse(p) \/ ReadInput(p)
            \/ DispatchComType(p) \/ ReadSize(p) \/ PipeCompress(p) \/ PipeCrypt(p)
            \/ Written(p) \/ NoAnswer(p) \/ ReadFails(p) \/ PipeSilent(p)

Handle == \/ SetComType \/ Decompress \/ CryptInit \/ SetCipher \/ Decrypt
          \/ ScriptInit \/ ScriptParse \/ Lend \/ Run \/ GiveBack

Connection == Accept \/ ReadHeader \/ Timeout \/ HangsUp \/ WebSilent \/ ReadBody \/ Reply

\* The client of the main thread has fallen silent where no timeout is running (ipc.c:688,
\* 810, 1071).
HeldUp == web.at \in {"body", "reply"} /\ ~Listens

\* Every thread waits for a peer that has fallen silent, and every client for the main thread.
Standstill == /\ Pipes \subseteq silent /\ HeldUp /\ \A c \in Clients : conn[c] = "open"
              /\ UNCHANGED vars

Next == \/ \E p \in Pipes : Connect(p) \/ Serve(p)
        \/ \E c \in Clients : Call(c)
        \/ Connection \/ Handle \/ Standstill

\* The threads run, and the clock of timeout() does.  Of a peer nothing is assumed: what it
\* may do, falling silent included, is among the steps of the thread that waits for it.
\* Nobody has to connect.
Fairness == /\ \A p \in Pipes : WF_vars(Serve(p))
            /\ WF_vars(Connection \/ Handle)

Spec == Init /\ [][Next]_vars /\ Fairness

--------------------------------------------------------------------------------

Paths == {"compress", "decompress", "crypt", "context", "decrypt", "script", "parse",
          "file", "run", "back", "reply"}

TypeOK ==
    /\ comtype \in Algos /\ cipher \in Ciphers \cup {None} /\ cmds \in Command \cup {NoCommand}
    /\ redirect \in 0 .. MAX_FILES /\ lent \in SUBSET (0 .. MAX_FILES)
    /\ at \in [Pipes -> {"listen", "command", "init", "parse", "input", "dispatch", "size",
                         "compress", "write"}]
    /\ sent \in [Pipes -> Command \cup {NoCommand}]
    /\ web \in [at : {"accept", "header", "body"} \cup Paths, client : Clients \cup {None},
                req : Request \cup {None}, left : 0 .. MaxKeep, memfile : 0 .. MAX_FILES]
    /\ queue \in Seq(Clients) /\ conn \in [Clients -> {"out", "open"}]
    /\ silent \in SUBSET (Pipes \cup Clients)

\* What a request of the web server asks for is what its answer is made with, whatever was
\* asked before, by whom, and how far it came (ipc.c:297, 339).
WebAsAsked == answer.by = "web" =>
                  answer.with = IF answer.asked.path = "compress" THEN Algo(answer.asked.arg)
                                ELSE answer.asked.arg

\* What another request has set does not reach the answer of a pipe, as bms_init is called
\* before its command is parsed (ipc.c:1408): it is made with what the pipe itself asks for,
\* or with the default.  Which of the two is not its business: the code always takes the
\* default, against readme.md:4955 (README.md, disagreement 21).
PipesForget == answer.by = "pipe" =>
                   answer.with \in {answer.asked.arg,
                                    IF answer.asked.type = "ComType" THEN Zlib ELSE None}

\* When the script of /file starts, filenumber 0 is a memory file that holds the content of
\* the request: the one that ipc.c:391 chose, which no reset empties on the way.
FileSeesItsInput == web.at = "run" => redirect # 0 /\ redirect \in lent

\* A client that connects gets its turn and loses its connection in the end, however many
\* clients say nothing, unless one of them stops within a body or before it has read its
\* answer; and a pipe listens again unless its own client falls silent (ipc.c:771, 1405).
EveryoneServed ==
    /\ \A c \in Clients : conn[c] = "open" ~> conn[c] = "out" \/ HeldUp
    /\ \A p \in Pipes : at[p] # "listen" ~> at[p] = "listen" \/ p \in silent
================================================================================
