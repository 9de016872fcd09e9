------------------------------- MODULE Ipc_proofs -------------------------------
(***************************************************************************)
(* Types of the IPC mode, and what the requests leave to each other, for   *)
(* any number of pipes, clients, algorithms and files.                     *)
(***************************************************************************)
EXTENDS Ipc, TLAPS

CompressRequest == [path : {"compress"}, arg : Algos \cup {None}]
CryptRequest    == [path : {"crypt"}, arg : Ciphers]
ScriptRequest   == [path : {"script"}, arg : Command]

\* The request at hand is of the kind that is handled, and its client is known.
Held ==
    /\ web.at # "accept" => web.client \in Clients
    /\ web.at \in Paths \ {"reply"} => web.client \notin silent
    /\ web.at = "body" => web.req \in Request
    /\ web.at \in {"compress", "decompress"} => web.req \in CompressRequest
    /\ web.at \in {"crypt", "context", "decrypt"} => web.req \in CryptRequest
    /\ web.at \in {"script", "parse"} => web.req \in ScriptRequest

Places == {"accept", "header", "body"} \cup Paths

\* A body that has been read goes to the handler of its path.
LEMMA Dispatched ==
  ASSUME NEW r \in Request
  PROVE  /\ r.path \in {"compress", "crypt", "script", "file"}
         /\ r.path = "compress" => r \in CompressRequest
         /\ r.path = "crypt" => r \in CryptRequest
         /\ r.path = "script" => r \in ScriptRequest
  BY DEF Request, CompressRequest, CryptRequest, ScriptRequest

\* The default command has a type of its own.
LEMMA CommandKinds ==
  ASSUME NEW c \in Command \cup {NoCommand}
  PROVE  /\ c.type = "ComType" => c.arg \in Algos
         /\ c.type = "Encryption" => c.arg \in Ciphers
         /\ c.type = "Open" => c.arg \in Redirects
  BY DEF Command, NoCommand

\* The main thread keeps its type and its request.
LEMMA WebTypes ==
  ASSUME TypeOK, Held, [Next]_vars
  PROVE  /\ web' \in [at : Places, client : Clients \cup {None}, req : Request \cup {None},
                      left : 0 .. MaxKeep, memfile : 0 .. MAX_FILES]
         /\ queue' \in Seq(Clients) /\ conn' \in [Clients -> {"out", "open"}]
         /\ silent' \in SUBSET (Pipes \cup Clients)
         /\ Held'
<1> DEFINE Web == [at : Places, client : Clients \cup {None}, req : Request \cup {None},
                   left : 0 .. MaxKeep, memfile : 0 .. MAX_FILES]
           Goal == /\ web' \in Web /\ queue' \in Seq(Clients)
                   /\ conn' \in [Clients -> {"out", "open"}]
                   /\ silent' \in SUBSET (Pipes \cup Clients) /\ Held'
<1>0. /\ web \in Web /\ queue \in Seq(Clients) /\ conn \in [Clients -> {"out", "open"}]
      /\ silent \in SUBSET (Pipes \cup Clients)
  BY DEF TypeOK, Places
<1>k. MaxKeep \in Nat /\ MAX_FILES \in Nat
  BY IpcAssumption
<1>w. Waiting \in Web /\ Waiting.at = "accept"
  BY <1>k DEF Waiting, Places
<1>1. ASSUME UNCHANGED http PROVE Goal
  BY <1>0, <1>1 DEF Held, http, peers
<1>2. ASSUME Close PROVE Goal
  <2>1. web' \in Web /\ web'.at = "accept"
    BY <1>2, <1>w DEF Close
  <2>2. Held'
    BY <2>1 DEF Held, Paths
  <2> QED
    BY <1>0, <1>2, <2>1, <2>2 DEF Close
<1>3. ASSUME NEW c \in Clients, Call(c) PROVE Goal
  BY <1>0, <1>3 DEF Held, Call
<1>4. ASSUME Accept PROVE Goal
  <2>1. Head(queue) \in Clients /\ Tail(queue) \in Seq(Clients)
    BY <1>0, <1>4 DEF Accept
  <2>2. web' = [at |-> "header", client |-> Head(queue), req |-> None, left |-> MaxKeep,
                memfile |-> 0]
    BY <1>4 DEF Accept, Waiting
  <2>3. web' \in Web /\ web'.at = "header" /\ web'.client \in Clients
    <3>1. MaxKeep \in 0 .. MaxKeep /\ 0 \in 0 .. MAX_FILES
      BY <1>k
    <3> QED
      BY <2>1, <2>2, <3>1 DEF Places
  <2>4. Held'
    BY <2>3 DEF Held, Paths
  <2> QED
    BY <1>0, <1>4, <2>1, <2>3, <2>4 DEF Accept
<1>5. ASSUME ReadHeader PROVE Goal
  <2>1. web.left - 1 \in 0 .. MaxKeep
    BY <1>0, <1>5, <1>k DEF ReadHeader
  <2> QED
    BY <1>0, <1>5, <2>1 DEF Held, ReadHeader, Places, Paths, peers
<1>6. ASSUME ReadBody PROVE Goal
  <2>1. web.req \in Request /\ web.client \in Clients
    BY <1>6 DEF ReadBody, Held
  <2>2. web.req.path \in Paths
    BY <2>1, Dispatched DEF Paths
  <2>3. web' \in Web
    BY <1>0, <1>6, <2>2 DEF ReadBody, Places
  <2>4. Held'
    BY <1>0, <1>6, <2>1, Dispatched DEF Held, ReadBody, Listens, peers
  <2> QED
    BY <1>0, <1>6, <2>3, <2>4 DEF ReadBody, peers
<1>7. ASSUME Reply PROVE Goal
  <2>1. CASE Close
    BY <1>2, <2>1
  <2>2. CASE ~Close
    <3>1. web' = [web EXCEPT !.at = "header", !.req = None, !.memfile = 0] /\ UNCHANGED peers
      BY <1>7, <2>2 DEF Reply
    <3>2. "header" \in Places /\ None \in Request \cup {None} /\ 0 \in 0 .. MAX_FILES
      BY <1>k DEF Places
    <3>3. web' \in Web /\ web'.at = "header" /\ web'.client = web.client
      BY <1>0, <3>1, <3>2
    <3>4. web.client \in Clients
      BY <1>7 DEF Reply, Held
    <3>5. Held'
      BY <3>3, <3>4 DEF Held, Paths
    <3> QED
      BY <1>0, <3>1, <3>3, <3>5 DEF peers
  <2> QED
    BY <2>1, <2>2
<1>8. ASSUME NEW from \in Paths \ {"reply"}, NEW to \in Paths, Step(from, to),
             to = "decompress" => web.req \in CompressRequest,
             to \in {"context", "decrypt"} => web.req \in CryptRequest,
             to = "parse" => web.req \in ScriptRequest,
             to \notin {"compress", "crypt", "script"}
      PROVE  Goal
  BY <1>0, <1>8 DEF Held, Step, Places, Paths, peers
<1>9. ASSUME Lend PROVE Goal
  <2>1. redirect \in 0 .. MAX_FILES
    BY DEF TypeOK
  <2> QED
    BY <1>0, <1>9, <2>1 DEF Held, Lend, Places, Paths, peers
<1> SUFFICES Goal
  OBVIOUS
<1> HIDE DEF Goal, Web
<1>10. ASSUME NEW p \in Pipes, Connect(p) \/ Serve(p) PROVE Goal
  <2>1. CASE PipeSilent(p)
    <3>1. UNCHANGED <<web, queue, conn>> /\ silent' = silent \cup {p}
      BY <2>1 DEF PipeSilent
    <3>2. p \notin Clients
      BY IpcAssumption
    <3>3. Held'
      BY <3>1, <3>2 DEF Held, Paths
    <3> QED
      BY <1>0, <3>1, <3>3 DEF Goal
  <2>2. CASE ~PipeSilent(p)
    BY <1>1, <1>10, <2>2 DEF Connect, Serve, ReadCommand, PipeInit, PipeParse, ReadInput,
          DispatchComType, ReadSize, PipeCompress, PipeCrypt, Written, NoAnswer, ReadFails
  <2> QED
    BY <2>1, <2>2
<1>11. CASE Timeout \/ HangsUp
  BY <1>2, <1>11 DEF Timeout, HangsUp
<1>19. CASE WebSilent
  <2>1. /\ UNCHANGED <<web, queue, conn>> /\ silent' = silent \cup {web.client}
        /\ web.at \in {"header", "body", "reply"}
    BY <1>19 DEF WebSilent
  <2>2. web.client \in Clients
    BY <2>1 DEF Held
  <2>3. Held'
    BY <2>1 DEF Held, Paths
  <2> QED
    BY <1>0, <2>1, <2>2, <2>3 DEF Goal
<1>12. CASE Decompress \/ Decrypt \/ ScriptParse \/ GiveBack
  <2>1. PICK from \in {"decompress", "decrypt", "parse", "back"} : Step(from, "reply")
    BY <1>12 DEF Decompress, Decrypt, ScriptParse, GiveBack
  <2> QED
    BY <1>8, <2>1 DEF Paths
<1>13. CASE SetComType
  BY <1>8, <1>13 DEF SetComType, Step, Held, Paths
<1>14. CASE CryptInit
  BY <1>8, <1>14 DEF CryptInit, Step, Held, Paths
<1>15. CASE SetCipher
  BY <1>8, <1>15 DEF SetCipher, Step, Held, Paths
<1>16. CASE ScriptInit
  BY <1>8, <1>16 DEF ScriptInit, Step, Held, Paths
<1>17. CASE Run
  BY <1>8, <1>17 DEF Run, Step, Held, Paths
<1>18. CASE UNCHANGED vars
  BY <1>1, <1>18 DEF vars, http
<1> QED
  BY <1>3, <1>4, <1>5, <1>6, <1>7, <1>9, <1>10, <1>11, <1>12, <1>13, <1>14, <1>15, <1>16,
     <1>17, <1>18, <1>19 DEF Next, Connection, Handle, Standstill

\* So do the globals.
LEMMA GlobalTypes ==
  ASSUME TypeOK, Held, [Next]_vars
  PROVE  /\ comtype' \in Algos /\ cipher' \in Ciphers \cup {None}
         /\ cmds' \in Command \cup {NoCommand}
         /\ redirect' \in 0 .. MAX_FILES /\ lent' \in SUBSET (0 .. MAX_FILES)
<1> DEFINE Goal == /\ comtype' \in Algos /\ cipher' \in Ciphers \cup {None}
                   /\ cmds' \in Command \cup {NoCommand}
                   /\ redirect' \in 0 .. MAX_FILES /\ lent' \in SUBSET (0 .. MAX_FILES)
<1>0. /\ comtype \in Algos /\ cipher \in Ciphers \cup {None}
      /\ cmds \in Command \cup {NoCommand}
      /\ redirect \in 0 .. MAX_FILES /\ lent \in SUBSET (0 .. MAX_FILES)
      /\ sent \in [Pipes -> Command \cup {NoCommand}]
  BY DEF TypeOK
<1>1. ASSUME UNCHANGED globals PROVE Goal
  BY <1>0, <1>1 DEF globals
<1>2. ASSUME bms_init PROVE Goal
  BY <1>0, <1>2, IpcAssumption DEF bms_init, Reset, Emptied
<1>3. ASSUME NEW p \in Pipes, PipeParse(p) PROVE Goal
  BY <1>0, <1>3 DEF PipeParse
<1>4. ASSUME SetComType PROVE Goal
  <2>1. web.req.arg \in Algos \cup {None}
    BY <1>4 DEF SetComType, Step, Held, CompressRequest
  <2> QED
    BY <1>0, <1>4, <2>1, IpcAssumption DEF SetComType, Algo
<1>5. ASSUME SetCipher PROVE Goal
  <2>1. web.req.arg \in Ciphers
    BY <1>5 DEF SetCipher, Step, Held, CryptRequest
  <2>2. cmds' \in Command
    BY <1>5, <2>1 DEF SetCipher, Command
  <2> QED
    BY <1>0, <1>5, <2>1, <2>2 DEF SetCipher
<1>6. ASSUME ScriptInit PROVE Goal
  BY <1>0, <1>6, IpcAssumption DEF ScriptInit, Reset
<1>7. ASSUME ScriptParse PROVE Goal
  <2>1. web.req.arg \in Command
    BY <1>7 DEF ScriptParse, Step, Held, ScriptRequest
  <2> QED
    BY <1>0, <1>7, <2>1 DEF ScriptParse
<1>8. ASSUME Lend PROVE Goal
  BY <1>0, <1>8 DEF Lend
<1>9. ASSUME Run PROVE Goal
  BY <1>0, <1>9, CommandKinds, IpcAssumption DEF Run
<1>10. ASSUME GiveBack PROVE Goal
  BY <1>0, <1>10, IpcAssumption DEF GiveBack, Reset, Emptied
<1> SUFFICES Goal
  OBVIOUS
<1> HIDE DEF Goal
<1>11. CASE \E p \in Pipes : Connect(p) \/ Serve(p)
  BY <1>1, <1>2, <1>3, <1>11 DEF Connect, Serve, ReadCommand, PipeInit, ReadInput,
        DispatchComType, ReadSize, PipeCompress, PipeCrypt, Written, NoAnswer, ReadFails,
        PipeSilent
<1>12. CASE (\E c \in Clients : Call(c)) \/ Connection
  BY <1>1, <1>12 DEF Call, Connection, Accept, ReadHeader, Timeout, HangsUp, WebSilent, ReadBody,
        Reply
<1>13. CASE Decompress \/ Decrypt
  BY <1>1, <1>13 DEF Decompress, Decrypt
<1>14. CASE CryptInit
  BY <1>2, <1>14 DEF CryptInit
<1>15. CASE UNCHANGED vars
  BY <1>1, <1>15 DEF vars
<1> QED
  BY <1>4, <1>5, <1>6, <1>7, <1>8, <1>9, <1>10, <1>11, <1>12, <1>13, <1>14, <1>15
  DEF Next, Handle, Standstill

\* And the pipes.
LEMMA PipeTypes ==
  ASSUME TypeOK, [Next]_vars
  PROVE  /\ at' \in [Pipes -> {"listen", "command", "init", "parse", "input", "dispatch",
                              "size", "compress", "write"}]
         /\ sent' \in [Pipes -> Command \cup {NoCommand}]
<1>0. /\ at \in [Pipes -> {"listen", "command", "init", "parse", "input", "dispatch",
                           "size", "compress", "write"}]
      /\ sent \in [Pipes -> Command \cup {NoCommand}]
  BY DEF TypeOK
<1>1. CASE \E p \in Pipes : ReadCommand(p)
  BY <1>0, <1>1 DEF ReadCommand, GoWith, Go
<1>2. CASE \E p \in Pipes : \/ Connect(p) \/ PipeInit(p) \/ PipeParse(p) \/ ReadInput(p)
                           \/ DispatchComType(p) \/ ReadSize(p) \/ PipeCompress(p)
                           \/ PipeCrypt(p) \/ Written(p) \/ NoAnswer(p) \/ ReadFails(p)
  BY <1>0, <1>2 DEF Connect, PipeInit, PipeParse, ReadInput, DispatchComType, ReadSize,
                    PipeCompress, PipeCrypt, Written, NoAnswer, ReadFails, GoWith, Go
<1>3. CASE UNCHANGED pipes
  BY <1>0, <1>3 DEF pipes
<1>4. CASE (\E p \in Pipes : PipeSilent(p)) \/ (\E c \in Clients : Call(c)) \/ UNCHANGED vars
  BY <1>3, <1>4 DEF PipeSilent, Call, vars
<1>5. CASE Connection \/ Handle
  BY <1>3, <1>5 DEF Connection, Accept, ReadHeader, Timeout, HangsUp, WebSilent, ReadBody, Reply,
        Handle, SetComType, Decompress, CryptInit, SetCipher, Decrypt, ScriptInit, ScriptParse,
        Lend, Run, GiveBack, Step
<1> QED
  BY <1>1, <1>2, <1>4, <1>5 DEF Next, Serve, Standstill

LEMMA InitTypes == Init => TypeOK /\ Held
<1> SUFFICES ASSUME Init PROVE TypeOK /\ Held
  OBVIOUS
<1>1. web \in [at : Places, client : Clients \cup {None}, req : Request \cup {None},
              left : 0 .. MaxKeep, memfile : 0 .. MAX_FILES]
  BY IpcAssumption DEF Init, Waiting, Places
<1>2. Held
  BY DEF Init, Waiting, Held
<1>3. redirect \in 0 .. MAX_FILES /\ queue \in Seq(Clients)
  BY IpcAssumption DEF Init
<1> QED
  BY <1>1, <1>2, <1>3, IpcAssumption DEF Init, TypeOK, Places

\* The types hold in every state, whether requests overlap or not, and a handler finds a
\* request of its own kind (ipc.c:278-573).
THEOREM IpcTypes == Spec => [](TypeOK /\ Held)
<1>1. TypeOK /\ Held /\ [Next]_vars => TypeOK' /\ Held'
  <2> SUFFICES ASSUME TypeOK, Held, [Next]_vars PROVE TypeOK' /\ Held'
    OBVIOUS
  <2> QED
    BY WebTypes, GlobalTypes, PipeTypes DEF TypeOK, Places
<1> QED
  BY InitTypes, <1>1, PTL DEF Spec

--------------------------------------------------------------------------------

\* Where a pipe waits for its client.
WaitsAt == {"command", "input", "size", "write"}

\* One thread at a time works on a request, the silent ones not counted.
Alone == /\ \A p \in Pipes : p \in silent => at[p] \in WaitsAt
         /\ \A p, q \in Pipes : PipeBusy(p) /\ PipeBusy(q) => p = q
         /\ ~WebBusy \/ \A p \in Pipes : ~PipeBusy(p)

\* From bms_init on a pipe finds the defaults and its own command; the web server has set
\* what was asked for.
PipeOwns(p) ==
    p \notin silent =>
        /\ at[p] \in {"parse", "input", "dispatch", "size", "compress"}
              => comtype = Zlib /\ cipher = None
        /\ at[p] \in {"input", "dispatch", "size", "compress"} => cmds = sent[p]
        /\ at[p] \in {"size", "compress"} => sent[p].type = "ComType"

Ready == /\ \A p \in Pipes : PipeOwns(p)
         /\ web.at = "decompress" => comtype = Algo(web.req.arg)
         /\ web.at = "decrypt" => cipher = web.req.arg

IInv == TypeOK /\ Held /\ Alone /\ Ready /\ PipesForget /\ WebAsAsked

LEMMA WebPlaces == /\ Accept => web'.at = "header"
                   /\ Close => web'.at = "accept"
                   /\ TypeOK /\ Reply => web'.at \in {"accept", "header"}
<1>1. ASSUME Accept PROVE web'.at = "header"
  <2>1. web' = [at |-> "header", client |-> Head(queue), req |-> None, left |-> MaxKeep,
                memfile |-> 0]
    BY <1>1 DEF Accept, Waiting
  <2> QED
    BY <2>1
<1>2. ASSUME Close PROVE web'.at = "accept"
  BY <1>2 DEF Close, Waiting
<1>3. ASSUME Reply, TypeOK PROVE web'.at \in {"accept", "header"}
  BY <1>2, <1>3 DEF Reply, TypeOK
<1> QED
  BY <1>1, <1>2, <1>3

\* A pipe that moves is not silent.
LEMMA Moving ==
  ASSUME Alone, NEW p \in Pipes, Serve(p), ~PipeSilent(p)
  PROVE  PipeBusy(p) /\ \E to : at' = [at EXCEPT ![p] = to] /\ UNCHANGED http
<1>1. CASE \/ ReadCommand(p) \/ ReadInput(p) \/ ReadSize(p) \/ Written(p) \/ ReadFails(p)
  BY <1>1 DEF ReadCommand, ReadInput, ReadSize, Written, ReadFails, GoWith, Go, PipeBusy
<1>2. CASE \/ PipeInit(p) \/ PipeParse(p) \/ DispatchComType(p) \/ PipeCompress(p) \/ PipeCrypt(p)
           \/ NoAnswer(p)
  <2>1. at[p] \in {"init", "parse", "dispatch", "compress"}
    BY <1>2 DEF PipeInit, PipeParse, DispatchComType, PipeCompress, PipeCrypt, NoAnswer, Go
  <2>2. p \notin silent
    BY <2>1 DEF Alone, WaitsAt
  <2> QED
    BY <1>2, <2>1, <2>2 DEF PipeInit, PipeParse, DispatchComType, PipeCompress, PipeCrypt,
          NoAnswer, Go, PipeBusy
<1> QED
  BY <1>1, <1>2 DEF Serve

\* A handler is at work, for a client that is there.
LEMMA Handling ==
  ASSUME Held, Handle
  PROVE  WebBusy /\ UNCHANGED <<pipes, peers>>
<1>1. /\ web.at \in Paths \ {"reply"} /\ UNCHANGED <<pipes, peers>>
      /\ web.at \notin {"accept", "header"}
  BY DEF Handle, SetComType, Decompress, CryptInit, SetCipher, Decrypt, ScriptInit, ScriptParse,
         Lend, Run, GiveBack, Step, Paths
<1> QED
  BY <1>1 DEF Held, WebBusy

\* A connection begins or ends without a change of the globals; of the silent peers, only its
\* client may be another than before.
LEMMA Connecting ==
  ASSUME TypeOK, Held, (\E c \in Clients : Call(c)) \/ Connection \/ UNCHANGED vars
  PROVE  /\ UNCHANGED <<globals, pipes, answer>>
         /\ \A p \in Pipes : p \in silent' <=> p \in silent
         /\ web'.at \notin {"decompress", "decrypt"} \/ UNCHANGED web
<1>0. Pipes \cap Clients = {} /\ (web.at # "accept" => web.client \in Clients)
  BY IpcAssumption DEF Held
<1>1. CASE (\E c \in Clients : Call(c)) \/ UNCHANGED vars
  BY <1>1 DEF Call, vars, http, peers
<1>2. CASE Accept \/ ReadHeader
  BY <1>2, WebPlaces DEF Accept, ReadHeader, peers, TypeOK
<1>3. CASE Timeout \/ HangsUp
  <2>1. web.client \in Clients /\ silent' = silent \ {web.client} /\ web'.at = "accept"
    BY <1>0, <1>3, WebPlaces DEF Timeout, HangsUp, Close
  <2> QED
    BY <1>0, <1>3, <2>1 DEF Timeout, HangsUp
<1>4. CASE WebSilent
  BY <1>0, <1>4 DEF WebSilent
<1>5. CASE ReadBody
  BY <1>5, Dispatched DEF ReadBody, Held, TypeOK, peers
<1>6. CASE Reply
  <2>1. web.client \in Clients /\ (UNCHANGED silent \/ silent' = silent \ {web.client})
    BY <1>0, <1>6 DEF Reply, Close, peers
  <2> QED
    BY <1>0, <1>6, <2>1, WebPlaces DEF Reply
<1> QED
  BY <1>1, <1>2, <1>3, <1>4, <1>5, <1>6 DEF Connection

LEMMA AloneKept ==
  ASSUME ~Together, TypeOK, Held, Alone, [Next]_vars
  PROVE  Alone'
<1>0. Alone /\ at \in [Pipes -> {"listen", "command", "init", "parse", "input", "dispatch",
                               "size", "compress", "write"}]
  BY DEF TypeOK
<1>1. ASSUME NEW p \in Pipes, PipeBusy(p), NEW to, at' = [at EXCEPT ![p] = to], UNCHANGED http
      PROVE  Alone'
  <2>1. UNCHANGED <<web, silent>>
    BY <1>1 DEF http, peers
  <2>2. \A q \in Pipes : PipeBusy(q)' => PipeBusy(q)
    BY <1>0, <1>1, <2>1 DEF PipeBusy
  <2>3. WebBusy' <=> WebBusy
    BY <2>1 DEF WebBusy
  <2>4. \A q \in Pipes : q \in silent' => at'[q] \in WaitsAt
    BY <1>0, <1>1, <2>1 DEF Alone, PipeBusy
  <2> QED
    BY <1>0, <2>2, <2>3, <2>4 DEF Alone
<1>2. ASSUME UNCHANGED at, \A p \in Pipes : p \in silent' <=> p \in silent,
             ~WebBusy' \/ WebBusy \/ \A p \in Pipes : ~PipeBusy(p)
      PROVE  Alone'
  BY <1>0, <1>2 DEF Alone, PipeBusy
<1>3. ASSUME NEW p \in Pipes, Connect(p) PROVE Alone'
  <2>1. UNCHANGED <<web, silent>> /\ ~WebBusy /\ \A q \in Pipes : ~PipeBusy(q)
    BY <1>3 DEF Connect, MayStart, http, peers
  <2>2. at[p] = "listen" /\ at' = [at EXCEPT ![p] = "command"]
    BY <1>3 DEF Connect, Go
  <2>3. /\ \A q \in Pipes : PipeBusy(q)' => q = p
        /\ \A q \in Pipes : q \in silent' => at'[q] \in WaitsAt
    BY <1>0, <2>1, <2>2 DEF PipeBusy, Alone, WaitsAt
  <2>4. ~WebBusy'
    BY <2>1 DEF WebBusy
  <2> QED
    BY <2>3, <2>4 DEF Alone
<1>4. ASSUME NEW p \in Pipes, Serve(p) PROVE Alone'
  <2>1. CASE PipeSilent(p)
    <3>1. UNCHANGED <<at, web>> /\ silent' = silent \cup {p} /\ at[p] \in WaitsAt
      BY <2>1 DEF PipeSilent, pipes, WaitsAt
    <3>2. /\ \A q \in Pipes : PipeBusy(q)' => PipeBusy(q)
          /\ WebBusy' => WebBusy
      BY <3>1 DEF PipeBusy, WebBusy
    <3> QED
      BY <1>0, <3>1, <3>2 DEF Alone
  <2> QED
    BY <1>1, <1>4, <2>1, Moving
<1>5. CASE (\E c \in Clients : Call(c)) \/ Connection \/ UNCHANGED vars
  <2>1. UNCHANGED at /\ \A p \in Pipes : p \in silent' <=> p \in silent
    BY <1>5, Connecting DEF pipes
  <2>2. ~WebBusy' \/ WebBusy \/ \A p \in Pipes : ~PipeBusy(p)
    <3>1. CASE (\E c \in Clients : Call(c)) \/ UNCHANGED vars
      BY <3>1 DEF Call, vars, http, peers, WebBusy
    <3>2. CASE ReadHeader
      BY <3>2 DEF ReadHeader, MayStart
    <3>3. CASE Accept \/ Timeout \/ HangsUp \/ Reply
      BY <3>3, WebPlaces DEF Timeout, HangsUp, WebBusy
    <3>4. CASE WebSilent
      BY <3>4 DEF WebSilent, WebBusy
    <3>5. CASE ReadBody
      BY <3>5 DEF ReadBody, WebBusy, Listens
    <3> QED
      BY <1>5, <3>1, <3>2, <3>3, <3>4, <3>5 DEF Connection
  <2> QED
    BY <1>2, <2>1, <2>2
<1>6. CASE Handle
  <2>1. WebBusy /\ UNCHANGED <<at, silent>>
    BY <1>6, Handling DEF pipes, peers
  <2> QED
    BY <1>2, <2>1
<1> QED
  BY <1>3, <1>4, <1>5, <1>6 DEF Next, Standstill

\* A step of a pipe, the others being idle or silent.
LEMMA PipeReady ==
  ASSUME ~Together, IInv, NEW p \in Pipes, Connect(p) \/ Serve(p)
  PROVE  (Ready /\ PipesForget /\ WebAsAsked)'
<1> DEFINE Goal == (Ready /\ PipesForget /\ WebAsAsked)'
           Default(c) == IF c.type = "ComType" THEN Zlib ELSE None
<1>0. /\ Alone /\ Ready /\ PipesForget /\ WebAsAsked /\ Held
      /\ at \in [Pipes -> {"listen", "command", "init", "parse", "input", "dispatch",
                           "size", "compress", "write"}]
      /\ sent \in [Pipes -> Command \cup {NoCommand}]
  BY DEF IInv, TypeOK
<1>1. ASSUME UNCHANGED <<globals, sent, http, answer>>, NEW to,
             at' = [at EXCEPT ![p] = to], to \in {"listen", "command"}
      PROVE  Goal
  BY <1>0, <1>1 DEF Ready, PipeOwns, PipesForget, WebAsAsked, globals, http, peers
<1>2. ASSUME ReadCommand(p) PROVE Goal
  BY <1>0, <1>2 DEF ReadCommand, GoWith, Go, Ready, PipeOwns, PipesForget, WebAsAsked, globals,
        http, peers
<1>3. ASSUME Serve(p), ~PipeSilent(p)
      PROVE  /\ \A q \in Pipes : q # p => at[q] = "listen" \/ q \in silent
             /\ web.at \notin {"decompress", "decrypt"} /\ UNCHANGED <<web, silent>>
  <2>1. PipeBusy(p) /\ UNCHANGED <<web, silent>>
    BY <1>0, <1>3, Moving DEF http, peers
  <2>2. ~WebBusy /\ \A q \in Pipes : q # p => ~PipeBusy(q)
    BY <1>0, <2>1 DEF Alone
  <2>3. web.at \notin {"decompress", "decrypt"}
    BY <1>0, <2>2 DEF Held, WebBusy, Paths
  <2> QED
    BY <2>1, <2>2, <2>3 DEF PipeBusy
<1>4. ASSUME PipeInit(p) PROVE Goal
  <2>1. /\ at' = [at EXCEPT ![p] = "parse"] /\ UNCHANGED <<sent, web, silent, answer>>
        /\ comtype' = Zlib /\ cipher' = None
    BY <1>4 DEF PipeInit, Go, bms_init, Reset, http, peers
  <2>2. at[p] = "init"
    BY <1>4 DEF PipeInit, Go
  <2>3. /\ \A q \in Pipes : q # p => at'[q] = "listen" \/ q \in silent'
        /\ at'[p] = "parse" /\ web'.at \notin {"decompress", "decrypt"}
    <3>1. ~PipeSilent(p) /\ Serve(p)
      BY <1>4, <2>2 DEF PipeSilent, Serve
    <3> QED
      BY <1>0, <1>3, <2>1, <3>1
  <2>4. Ready'
    BY <2>1, <2>3 DEF Ready, PipeOwns
  <2>5. (PipesForget /\ WebAsAsked)'
    BY <1>0, <2>1 DEF PipesForget, WebAsAsked
  <2> QED
    BY <2>4, <2>5
<1>5. ASSUME PipeParse(p) PROVE Goal
  <2>1. /\ at' = [at EXCEPT ![p] = "input"] /\ UNCHANGED <<comtype, cipher, sent, web, silent, answer>>
        /\ cmds' = sent[p]
    BY <1>5 DEF PipeParse, Go, http, peers
  <2>2. at[p] = "parse"
    BY <1>5 DEF PipeParse, Go
  <2>3. /\ \A q \in Pipes : q # p => at'[q] = "listen" \/ q \in silent'
        /\ at'[p] = "input" /\ web'.at \notin {"decompress", "decrypt"}
    <3>1. ~PipeSilent(p) /\ Serve(p)
      BY <1>5, <2>2 DEF PipeSilent, Serve
    <3> QED
      BY <1>0, <1>3, <2>1, <3>1
  <2>4. Ready'
    BY <1>0, <2>1, <2>2, <2>3 DEF Ready, PipeOwns
  <2>5. (PipesForget /\ WebAsAsked)'
    BY <1>0, <2>1 DEF PipesForget, WebAsAsked
  <2> QED
    BY <2>4, <2>5
<1>6. ASSUME ReadInput(p) \/ ReadSize(p) PROVE Goal
  BY <1>0, <1>6 DEF ReadInput, ReadSize, GoWith, Go, Ready, PipeOwns, PipesForget, WebAsAsked,
        globals, http, peers
<1>7. ASSUME DispatchComType(p) PROVE Goal
  BY <1>0, <1>7 DEF DispatchComType, Go, Ready, PipeOwns, PipesForget, WebAsAsked, globals, http,
        peers
<1>8. ASSUME NEW with, Answer("pipe", sent[p], with), Go(p, "compress", "write")
             \/ Go(p, "dispatch", "write"), UNCHANGED <<globals, sent, http>>,
             with = Default(sent[p])
      PROVE  Goal
  <2>1. Ready'
    BY <1>0, <1>8 DEF Go, Ready, PipeOwns, globals, http, peers
  <2>2. (PipesForget /\ WebAsAsked)'
    BY <1>8 DEF Answer, PipesForget, WebAsAsked
  <2> QED
    BY <2>1, <2>2
<1>n. ASSUME Serve(p), at[p] \notin WaitsAt PROVE PipeOwns(p) /\ p \notin silent
  BY <1>0, <1>n DEF Alone, Ready
<1>9. ASSUME PipeCompress(p) PROVE Goal
  <2>1. at[p] = "compress"
    BY <1>9 DEF PipeCompress, Go
  <2>2. comtype = Zlib /\ sent[p].type = "ComType"
    BY <1>9, <1>n, <2>1 DEF PipeOwns, Serve, WaitsAt
  <2> QED
    BY <1>8, <1>9, <2>2 DEF PipeCompress
<1>10. ASSUME PipeCrypt(p) PROVE Goal
  <2>1. at[p] = "dispatch"
    BY <1>10 DEF PipeCrypt, Go
  <2>2. cipher = None /\ cmds = sent[p]
    BY <1>10, <1>n, <2>1 DEF PipeOwns, Serve, WaitsAt
  <2>3. sent[p].type # "ComType"
    BY <1>10, <2>2 DEF PipeCrypt
  <2> QED
    BY <1>8, <1>10, <2>2, <2>3 DEF PipeCrypt
<1>11. ASSUME Connect(p) \/ Written(p) \/ NoAnswer(p) \/ ReadFails(p) PROVE Goal
  BY <1>1, <1>11 DEF Connect, Written, NoAnswer, ReadFails, GoWith, Go
<1>12. ASSUME PipeSilent(p) PROVE Goal
  <2>1. UNCHANGED <<globals, pipes, web, answer>> /\ silent' = silent \cup {p}
    BY <1>12 DEF PipeSilent
  <2> QED
    BY <1>0, <2>1 DEF Ready, PipeOwns, PipesForget, WebAsAsked, globals, pipes
<1> SUFFICES Goal
  OBVIOUS
<1> HIDE DEF Goal
<1> QED
  BY <1>2, <1>4, <1>5, <1>6, <1>7, <1>9, <1>10, <1>11, <1>12 DEF Serve

\* A step of the main thread.
LEMMA WebReady ==
  ASSUME IInv, (\E c \in Clients : Call(c)) \/ Connection \/ Handle \/ UNCHANGED vars
  PROVE  (Ready /\ PipesForget /\ WebAsAsked)'
<1> DEFINE Goal == (Ready /\ PipesForget /\ WebAsAsked)'
           Idle == \A p \in Pipes : at[p] = "listen" \/ p \in silent
<1>0. Alone /\ Ready /\ PipesForget /\ WebAsAsked /\ Held /\ TypeOK
  BY DEF IInv
<1>1. CASE (\E c \in Clients : Call(c)) \/ Connection \/ UNCHANGED vars
  <2>1. /\ UNCHANGED <<globals, pipes, answer>>
        /\ \A p \in Pipes : p \in silent' <=> p \in silent
        /\ web'.at \notin {"decompress", "decrypt"} \/ UNCHANGED web
    BY <1>0, <1>1, Connecting
  <2> QED
    BY <1>0, <2>1 DEF Ready, PipeOwns, PipesForget, WebAsAsked, globals, pipes
<1>2. ASSUME Handle PROVE Idle /\ UNCHANGED <<at, sent, silent>>
  BY <1>0, <1>2, Handling DEF Alone, PipeBusy, pipes, peers
<1>3. ASSUME Idle, UNCHANGED <<at, sent, silent, answer>>, web'.at \notin {"decompress", "decrypt"}
      PROVE  Goal
  BY <1>0, <1>3 DEF Ready, PipeOwns, PipesForget, WebAsAsked
<1>8. CASE SetComType
  BY <1>0, <1>2, <1>8 DEF Handle, SetComType, Step, Ready, PipeOwns, PipesForget, WebAsAsked, TypeOK
<1>9. CASE SetCipher
  BY <1>0, <1>2, <1>9 DEF Handle, SetCipher, Step, Ready, PipeOwns, PipesForget, WebAsAsked, TypeOK
<1>10. ASSUME CryptInit \/ ScriptInit \/ ScriptParse \/ Lend \/ Run \/ GiveBack PROVE Goal
  <2>1. web'.at \in {"context", "parse", "run", "back", "reply"} /\ UNCHANGED answer
    BY <1>0, <1>10 DEF CryptInit, ScriptInit, ScriptParse, Lend, Run, GiveBack, Step, TypeOK
  <2> QED
    BY <1>2, <1>3, <1>10, <2>1 DEF Handle
<1>12. ASSUME NEW from, Step(from, "reply"), NEW with, Answer("web", web.req, with), Handle,
             with = IF web.req.path = "compress" THEN Algo(web.req.arg) ELSE web.req.arg
      PROVE  Goal
  <2>1. web'.at = "reply"
    BY <1>0, <1>12 DEF Step, TypeOK
  <2>2. Ready'
    BY <1>2, <1>12, <2>1 DEF Ready, PipeOwns
  <2>3. (PipesForget /\ WebAsAsked)'
    BY <1>12 DEF Answer, PipesForget, WebAsAsked
  <2> QED
    BY <2>2, <2>3
<1>13. ASSUME Decompress PROVE Goal
  <2>1. comtype = Algo(web.req.arg) /\ web.req.path = "compress"
    BY <1>0, <1>13 DEF Decompress, Step, Ready, Held, CompressRequest
  <2> QED
    BY <1>12, <1>13, <2>1 DEF Handle, Decompress
<1>14. ASSUME Decrypt PROVE Goal
  <2>1. cipher = web.req.arg /\ web.req.path = "crypt"
    BY <1>0, <1>14 DEF Decrypt, Step, Ready, Held, CryptRequest
  <2> QED
    BY <1>12, <1>14, <2>1 DEF Handle, Decrypt
<1> QED
  BY <1>1, <1>8, <1>9, <1>10, <1>13, <1>14 DEF Handle

LEMMA IsolationKept == ~Together /\ IInv /\ [Next]_vars => IInv'
<1> SUFFICES ASSUME ~Together, IInv, [Next]_vars PROVE IInv'
  OBVIOUS
<1>1. TypeOK' /\ Held'
  BY WebTypes, GlobalTypes, PipeTypes DEF TypeOK, Places, IInv
<1>2. (Ready /\ PipesForget /\ WebAsAsked)'
  BY PipeReady, WebReady DEF Next, Standstill, IInv
<1> QED
  BY <1>1, <1>2, AloneKept DEF IInv

LEMMA IsolationInit == Init => IInv
<1> SUFFICES ASSUME Init PROVE IInv
  OBVIOUS
<1>1. Alone /\ Ready
  BY DEF Init, Alone, Ready, PipeOwns, PipeBusy, Waiting
<1>2. PipesForget /\ WebAsAsked
  BY DEF Init, PipesForget, WebAsAsked
<1> QED
  BY <1>1, <1>2, InitTypes DEF IInv

\* With one request at a time, no pipe's answer depends on what came before: any sequence of
\* requests, begun, given up or answered (ipc.c:1408).
THEOREM IpcPipesForget ==
  ASSUME ~Together
  PROVE  Spec => []PipesForget
<1>1. IInv => PipesForget
  BY DEF IInv
<1> QED
  BY IsolationInit, IsolationKept, <1>1, PTL DEF Spec

\* Nor does an answer of the web server (ipc.c:298, 338).
THEOREM IpcWebAsAsked ==
  ASSUME ~Together
  PROVE  Spec => []WebAsAsked
<1>1. IInv => WebAsAsked
  BY DEF IInv
<1> QED
  BY IsolationInit, IsolationKept, <1>1, PTL DEF Spec

--------------------------------------------------------------------------------

\* What the script of a /file reads as filenumber 0 keeps the content of the request.
Seen == /\ redirect # 0 /\ (Together => redirect = MAX_FILES)
        /\ web.at = "run" => redirect \in lent

SInv == TypeOK /\ Held /\ (~Together => Alone) /\ Seen

\* The scripts that FileSeesItsInput is about.
NoneToZero == 0 \notin Redirects /\ (Together => Redirects = {})

\* Only the script itself redirects filenumber 0.
LEMMA RedirectKept ==
  ASSUME NoneToZero, TypeOK, Held, Seen, [Next]_vars
  PROVE  /\ redirect' # 0 /\ (Together => redirect' = MAX_FILES)
         /\ ~Run => redirect' = redirect
<1>1. CASE Run
  <2>1. CASE cmds.type = "Open"
    <3>1. cmds.arg \in Redirects
      BY <2>1, CommandKinds DEF TypeOK
    <3> QED
      BY <1>1, <2>1, <3>1 DEF Run, NoneToZero
  <2>2. CASE cmds.type # "Open"
    BY <1>1, <2>2 DEF Run, Seen
  <2> QED
    BY <2>1, <2>2
<1>2. CASE ~Run
  <2>1. redirect' = redirect
    <3>1. CASE \E p \in Pipes : Connect(p) \/ Serve(p)
      BY <3>1 DEF Connect, Serve, ReadCommand, PipeInit, PipeParse, ReadInput, DispatchComType,
            ReadSize, PipeCompress, PipeCrypt, Written, NoAnswer, ReadFails, PipeSilent, bms_init,
            globals
    <3>2. CASE (\E c \in Clients : Call(c)) \/ Connection \/ UNCHANGED vars
      BY <3>2, Connecting DEF globals
    <3>3. CASE Handle
      BY <1>2, <3>3 DEF Handle, SetComType, Decompress, CryptInit, SetCipher, Decrypt,
            ScriptInit, ScriptParse, Lend, GiveBack, bms_init, globals
    <3> QED
      BY <3>1, <3>2, <3>3 DEF Next, Standstill
  <2> QED
    BY <1>2, <2>1 DEF Seen
<1> QED
  BY <1>1, <1>2

\* While a script runs no reset of a pipe takes its file away: there is none, or it leaves
\* the last memory file alone.
LEMMA LentKept ==
  ASSUME TypeOK, Held, Seen, ~Together => Alone, NEW p \in Pipes, Connect(p) \/ Serve(p),
         web.at = "run"
  PROVE  redirect \in lent'
<1>0. redirect \in lent
  BY DEF Seen
<1>1. CASE PipeInit(p)
  <2>1. at[p] = "init"
    BY <1>1 DEF PipeInit, Go
  <2>2. Together
    <3>1. WebBusy
      BY DEF Held, WebBusy, Paths
    <3> QED
      BY <2>1, <3>1 DEF Alone, PipeBusy, WaitsAt
  <2>3. lent' = lent \ (0 .. MAX_FILES - 1)
    BY <1>1 DEF PipeInit, bms_init, Emptied
  <2> QED
    BY <1>0, <2>2, <2>3, IpcAssumption DEF Seen
<1>2. CASE ~PipeInit(p)
  <2>1. lent' = lent
    BY <1>2 DEF Connect, Serve, ReadCommand, PipeParse, ReadInput, DispatchComType, ReadSize,
          PipeCompress, PipeCrypt, Written, NoAnswer, ReadFails, PipeSilent, globals
  <2> QED
    BY <1>0, <2>1
<1> QED
  BY <1>1, <1>2

LEMMA SeenKept ==
  ASSUME NoneToZero, SInv, [Next]_vars
  PROVE  Seen'
<1>1. redirect' # 0 /\ (Together => redirect' = MAX_FILES)
  BY RedirectKept DEF SInv
<1>2. ASSUME web'.at = "run" PROVE redirect' \in lent'
  <2>1. CASE \E p \in Pipes : Connect(p) \/ Serve(p)
    <3>1. UNCHANGED <<web, redirect>>
      BY <2>1 DEF Connect, Serve, ReadCommand, PipeInit, PipeParse, ReadInput, DispatchComType,
            ReadSize, PipeCompress, PipeCrypt, Written, NoAnswer, ReadFails, PipeSilent, bms_init,
            globals, http
    <3> QED
      BY <1>2, <2>1, <3>1, LentKept DEF SInv
  <2>2. CASE Lend
    BY <2>2 DEF Lend
  <2>3. CASE (\E c \in Clients : Call(c)) \/ UNCHANGED vars
    <3>1. UNCHANGED <<web, redirect, lent>>
      BY <2>3 DEF Call, globals, vars, http
    <3> QED
      BY <1>2, <3>1 DEF SInv, Seen
  <2>4. CASE Accept \/ Timeout \/ HangsUp \/ Reply
    BY <1>2, <2>4, WebPlaces DEF Timeout, HangsUp, SInv
  <2>5. CASE ReadHeader
    BY <1>2, <2>5 DEF ReadHeader, SInv, TypeOK
  <2>6. CASE ReadBody
    BY <1>2, <2>6, Dispatched DEF ReadBody, SInv, TypeOK, Held
  <2>7. CASE WebSilent
    BY <1>2, <2>7 DEF WebSilent
  <2>8. CASE \/ SetComType \/ Decompress \/ CryptInit \/ SetCipher \/ Decrypt
             \/ ScriptInit \/ ScriptParse \/ Run \/ GiveBack
    BY <1>2, <2>8 DEF SetComType, Decompress, CryptInit, SetCipher, Decrypt, ScriptInit,
          ScriptParse, Run, GiveBack, Step, SInv, TypeOK
  <2> QED
    BY <2>1, <2>2, <2>3, <2>4, <2>5, <2>6, <2>7, <2>8 DEF Next, Connection, Handle, Standstill
<1> QED
  BY <1>1, <1>2 DEF Seen

LEMMA AloneInit == Init => Alone
  BY DEF Init, Alone, PipeBusy

\* The script of a /file finds the content of its request under filenumber 0, as long as no
\* script redirects it to no file at all: with one request at a time wherever else it is
\* redirected, and, without redirections, whatever the pipes do in the meantime (ipc.c:391).
THEOREM IpcFileSeesItsInput ==
  ASSUME NoneToZero
  PROVE  Spec => []FileSeesItsInput
<1>1. Init => SInv
  <2> SUFFICES ASSUME Init PROVE SInv
    OBVIOUS
  <2>1. Seen
    BY IpcAssumption DEF Init, Waiting, Seen
  <2> QED
    BY <2>1, InitTypes, AloneInit DEF SInv
<1>2. SInv /\ [Next]_vars => SInv'
  <2> SUFFICES ASSUME SInv, [Next]_vars PROVE SInv'
    OBVIOUS
  <2>1. TypeOK' /\ Held'
    BY WebTypes, GlobalTypes, PipeTypes DEF TypeOK, Places, SInv
  <2>2. ~Together => Alone'
    BY AloneKept DEF SInv
  <2> QED
    BY <2>1, <2>2, SeenKept DEF SInv
<1>3. SInv => FileSeesItsInput
  BY DEF SInv, Seen, FileSeesItsInput
<1> QED
  BY <1>1, <1>2, <1>3, PTL DEF Spec
================================================================================
