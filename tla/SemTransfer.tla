---------------------------- MODULE SemTransfer ----------------------------
(***************************************************************************)
(* semaphores/: servers send files to clients through one shared buffer    *)
(* guarded by a System V semaphore set.                                    *)
(*                                                                         *)
(* Any number of servers and clients may be started; each process lives    *)
(* once.  A process may be killed at any point: the kernel then takes back *)
(* the operations it did with SEM_UNDO, in one atomic step.  The semaphore *)
(* set and the buffer outlive every process.                               *)
(*                                                                         *)
(* A file is a sequence of chunks, each as large as the buffer; a chunk is *)
(* known by its server and its number.  The output of all clients is kept  *)
(* as one log of write() calls.                                            *)
(***************************************************************************)
EXTENDS SemOps, FiniteSets

CONSTANTS
    Servers,        \* server processes
    Clients,        \* client processes
    FileLen,        \* FileLen[s]: chunks in the file that server s sends
    ChunkSize,      \* bytes in a chunk, as far as write() can split it
    ShortWrites,    \* may write() accept only a part of what it is given?
    NoServer        \* what the buffer of a fresh segment comes from

Procs == Servers \cup Clients

ASSUME ConstAssumption ==
    /\ Servers \cap Clients = {}
    /\ NoServer \notin Servers
    /\ FileLen \in [Servers -> Nat]
    /\ ChunkSize \in Nat \ {0}
    /\ ShortWrites \in BOOLEAN

VARIABLES
    sem,    \* the values of the semaphore set
    undo,   \* undo[p]: the semaphores p has incremented with SEM_UNDO
    buf,    \* shm->buffer
    pc,     \* what each process does next
    pos,    \* pos[s]: chunks that s has read from its file
    total,  \* total[c]: total_num_written of client c
    log,    \* successful write() calls of the clients, oldest first
    faulty  \* the processes that may be killed or meet an I/O error: any set,
            \* settled at the start, so that liveness can speak of it

vars == <<sem, undo, buf, pc, pos, total, log, faulty>>

-----------------------------------------------------------------------------
(* Where the processes can be.                                             *)

\* Server: from the first semop() of acquireServer() until exit.
SettingUp  == {"setFull", "setEmpty", "signalInit"}
ServerLoop == {"waitEmpty", "read", "wake", "eof"}
ServerLive == SettingUp \cup {"waitForClient"} \cup ServerLoop
                        \cup {"returnOk", "returnFail"}

\* Client: from the semop() of acquireClient() until exit.
ClientLoop == {"waitFull", "look", "write", "wake"}
ClientLive == {"waitForServer"} \cup ClientLoop \cup {"returnOk", "returnFail"}

Ended == {"ok", "failed", "killed"}

ServerLabels == {"start"} \cup ServerLive \cup Ended
ClientLabels == {"start"} \cup ClientLive \cup Ended

Buffers == [from: Servers \cup {NoServer}, chunk: Nat, size: -1 .. ChunkSize]

\* A write() of client by takes len bytes of a chunk, after its first at bytes.
Writes  == [by: Clients, from: Servers \cup {NoServer}, chunk: Nat,
            at: 0 .. ChunkSize, len: 1 .. ChunkSize]

Goto(p, label) == pc' = [pc EXCEPT ![p] = label]

-----------------------------------------------------------------------------
(* The kernel.                                                             *)

Add(i, n) == sem' = [sem EXCEPT ![i] = @ + n]

\* SETVAL also forgets what processes would have undone on that semaphore.
SetVal(i, n) ==
    /\ sem'  = [sem EXCEPT ![i] = n]
    /\ undo' = [p \in Procs |-> undo[p] \ {i}]

\* The end of a process: its SEM_UNDO adjustments, all at once.
Undone(p) ==
    [i \in SemIds |-> IF i \in undo[p] /\ sem[i] > 0 THEN sem[i] - 1 ELSE sem[i]]

Exit(p, how) ==
    /\ sem'  = Undone(p)
    /\ undo' = [undo EXCEPT ![p] = {}]
    /\ Goto(p, how)
    /\ UNCHANGED <<buf, pos, total, log, faulty>>

-----------------------------------------------------------------------------
(* Plausible mistakes in the steps below, to see that the properties notice. *)

\* A new server does not look for the client of the previous one.
acquireServerIgnoringClient(s) ==
    /\ pc[s] = "start"
    /\ sem[SERVER] = 0
    /\ Add(SERVER, 1)
    /\ undo' = [undo EXCEPT ![s] = @ \cup {SERVER}]
    /\ Goto(s, "setFull")
    /\ UNCHANGED <<buf, pos, total, log, faulty>>

\* The counters of the previous session are kept.
setFullNot(s) ==
    /\ pc[s] = "setFull"
    /\ Goto(s, "setEmpty")
    /\ UNCHANGED <<sem, undo, buf, pos, total, log, faulty>>

\* The buffer is waited for and not taken.
takeEmptyNot(s) ==
    /\ pc[s] = "waitEmpty"
    /\ ClientIsPresent(sem)
    /\ CanTake(sem, EMPTY)
    /\ Goto(s, "read")
    /\ UNCHANGED <<sem, undo, buf, pos, total, log, faulty>>

\* The buffer is handed back before it is written out.
seesChunkTooSoon(c) ==
    /\ pc[c] = "look"
    /\ buf.size > 0
    /\ Add(EMPTY, 1)
    /\ total' = [total EXCEPT ![c] = 0]
    /\ Goto(c, "write")
    /\ UNCHANGED <<undo, buf, pos, log, faulty>>

\* The peer test has no IPC_NOWAIT.
clientHasDiedUnseen(s) == FALSE
serverHasDiedUnseen(c) == FALSE

\* The client presence is not undone, or not incremented with SEM_UNDO.
acquireClientForGood(c) ==
    /\ pc[c] = "start"
    /\ ServerIsAlone(sem)
    /\ Add(CLIENT, 1)
    /\ Goto(c, "waitForServer")
    /\ UNCHANGED <<undo, buf, pos, total, log, faulty>>

\* The buffer is never handed back.
wakeServerNot(c) ==
    /\ pc[c] = "wake"
    /\ Goto(c, "waitFull")
    /\ UNCHANGED <<sem, undo, buf, pos, total, log, faulty>>

\* The server stops at the last chunk instead of at the empty one after it.
testEofOfFile(s) ==
    /\ pc[s] = "eof"
    /\ Goto(s, IF pos[s] = FileLen[s] THEN "returnOk" ELSE "waitEmpty")
    /\ UNCHANGED <<sem, undo, buf, pos, total, log, faulty>>

-----------------------------------------------------------------------------
(* The server: acquireServer(), then copyIntoSharedMemory().               *)

acquireServer(s) ==
    /\ pc[s] = "start"
    /\ BlockIsFree(sem)
    /\ Add(SERVER, 1)
    /\ undo' = [undo EXCEPT ![s] = @ \cup {SERVER}]
    /\ Goto(s, "setFull")
    /\ UNCHANGED <<buf, pos, total, log, faulty>>

setFull(s) ==
    /\ pc[s] = "setFull"
    /\ SetVal(FULL, 0)
    /\ Goto(s, "setEmpty")
    /\ UNCHANGED <<buf, pos, total, log, faulty>>

setEmpty(s) ==
    /\ pc[s] = "setEmpty"
    /\ SetVal(EMPTY, 1)
    /\ Goto(s, "signalInit")
    /\ UNCHANGED <<buf, pos, total, log, faulty>>

signalInit(s) ==
    /\ pc[s] = "signalInit"
    /\ Add(INITED, 1)
    /\ undo' = [undo EXCEPT ![s] = @ \cup {INITED}]
    /\ Goto(s, "waitForClient")
    /\ UNCHANGED <<buf, pos, total, log, faulty>>

waitForClient(s) ==
    /\ pc[s] = "waitForClient"
    /\ ClientIsPresent(sem)
    /\ Goto(s, "waitEmpty")
    /\ UNCHANGED <<sem, undo, buf, pos, total, log, faulty>>

\* The semop() at the head of the loop: it sleeps while the client is present
\* and the buffer is not empty.
takeEmpty(s) ==
    /\ pc[s] = "waitEmpty"
    /\ ClientIsPresent(sem)
    /\ CanTake(sem, EMPTY)
    /\ Add(EMPTY, -1)
    /\ Goto(s, "read")
    /\ UNCHANGED <<undo, buf, pos, total, log, faulty>>

\* The same semop() answering EAGAIN.
clientHasDied(s) ==
    /\ pc[s] = "waitEmpty"
    /\ ~ClientIsPresent(sem)
    /\ Goto(s, "returnFail")
    /\ UNCHANGED <<sem, undo, buf, pos, total, log, faulty>>

readChunk(s) ==
    /\ pc[s] = "read"
    /\ LET more == pos[s] < FileLen[s]
       IN  /\ buf' = [from |-> s, chunk |-> pos[s] + 1,
                      size |-> IF more THEN ChunkSize ELSE 0]
           /\ pos' = [pos EXCEPT ![s] = IF more THEN @ + 1 ELSE @]
    /\ Goto(s, "wake")
    /\ UNCHANGED <<sem, undo, total, log, faulty>>

readFails(s) ==
    /\ pc[s] = "read"
    /\ s \in faulty
    /\ buf' = [buf EXCEPT !.size = -1]
    /\ Goto(s, "returnFail")
    /\ UNCHANGED <<sem, undo, pos, total, log, faulty>>

wakeClient(s) ==
    /\ pc[s] = "wake"
    /\ Add(FULL, 1)
    /\ Goto(s, "eof")
    /\ UNCHANGED <<undo, buf, pos, total, log, faulty>>

\* The size is read again from the shared buffer, after it was handed over.
testEof(s) ==
    /\ pc[s] = "eof"
    /\ Goto(s, IF buf.size = 0 THEN "returnOk" ELSE "waitEmpty")
    /\ UNCHANGED <<sem, undo, buf, pos, total, log, faulty>>

serverExits(s) ==
    \/ pc[s] = "returnOk"   /\ Exit(s, "ok")
    \/ pc[s] = "returnFail" /\ Exit(s, "failed")

server(s) ==
    \/ acquireServer(s) \/ setFull(s) \/ setEmpty(s) \/ signalInit(s)
    \/ waitForClient(s) \/ takeEmpty(s) \/ clientHasDied(s)
    \/ readChunk(s) \/ wakeClient(s) \/ testEof(s) \/ serverExits(s)

-----------------------------------------------------------------------------
(* The client: acquireClient(), then copyFromSharedMemory().               *)

acquireClient(c) ==
    /\ pc[c] = "start"
    /\ ServerIsAlone(sem)
    /\ Add(CLIENT, 1)
    /\ undo' = [undo EXCEPT ![c] = @ \cup {CLIENT}]
    /\ Goto(c, "waitForServer")
    /\ UNCHANGED <<buf, pos, total, log, faulty>>

waitForServer(c) ==
    /\ pc[c] = "waitForServer"
    /\ ServerIsReady(sem)
    /\ Goto(c, "waitFull")
    /\ UNCHANGED <<sem, undo, buf, pos, total, log, faulty>>

takeFull(c) ==
    /\ pc[c] = "waitFull"
    /\ ServerIsPresent(sem)
    /\ CanTake(sem, FULL)
    /\ Add(FULL, -1)
    /\ Goto(c, "look")
    /\ UNCHANGED <<undo, buf, pos, total, log, faulty>>

serverHasDied(c) ==
    /\ pc[c] = "waitFull"
    /\ ~ServerIsPresent(sem)
    /\ Goto(c, "returnFail")
    /\ UNCHANGED <<sem, undo, buf, pos, total, log, faulty>>

seesChunk(c) ==
    /\ pc[c] = "look"
    /\ buf.size > 0
    /\ total' = [total EXCEPT ![c] = 0]
    /\ Goto(c, "write")
    /\ UNCHANGED <<sem, undo, buf, pos, log, faulty>>

seesEof(c) ==
    /\ pc[c] = "look"
    /\ ~(buf.size > 0)
    /\ Goto(c, "returnOk")
    /\ UNCHANGED <<sem, undo, buf, pos, total, log, faulty>>

\* One turn of the write loop.  Every write() is given the whole buffer from
\* its first byte, whatever was written before: at is 0.
writeChunk(c) ==
    /\ pc[c] = "write"
    /\ \E w \in 1 .. buf.size :
          /\ w = buf.size \/ ShortWrites
          /\ log' = Append(log, [by |-> c, from |-> buf.from, chunk |-> buf.chunk,
                                 at |-> 0, len |-> w])
          /\ total' = [total EXCEPT ![c] = @ + w]
          /\ Goto(c, IF total[c] + w < buf.size THEN "write" ELSE "wake")
    /\ UNCHANGED <<sem, undo, buf, pos, faulty>>

writeFails(c) ==
    /\ pc[c] = "write"
    /\ c \in faulty
    /\ Goto(c, "returnFail")
    /\ UNCHANGED <<sem, undo, buf, pos, total, log, faulty>>

wakeServer(c) ==
    /\ pc[c] = "wake"
    /\ Add(EMPTY, 1)
    /\ Goto(c, "waitFull")
    /\ UNCHANGED <<undo, buf, pos, total, log, faulty>>

clientExits(c) ==
    \/ pc[c] = "returnOk"   /\ Exit(c, "ok")
    \/ pc[c] = "returnFail" /\ Exit(c, "failed")

client(c) ==
    \/ acquireClient(c) \/ waitForServer(c) \/ takeFull(c) \/ serverHasDied(c)
    \/ seesChunk(c) \/ seesEof(c) \/ writeChunk(c) \/ wakeServer(c) \/ clientExits(c)

-----------------------------------------------------------------------------
\* A process is killed, wherever it is.
killed(p) ==
    /\ p \in faulty
    /\ pc[p] \notin Ended
    /\ Exit(p, "killed")

\* The set and the segment were created earlier, or are created now (all
\* zero).  Sessions that ended leave the two counters with a total of at most
\* one: see TokenInv.
Init ==
    /\ sem \in {v \in [SemIds -> 0 .. 1] :
                  v[SERVER] = 0 /\ v[CLIENT] = 0 /\ v[INITED] = 0 /\ v[FULL] + v[EMPTY] < 2}
    /\ undo = [p \in Procs |-> {}]
    /\ buf = [from |-> NoServer, chunk |-> 0, size |-> 0]
    /\ pc = [p \in Procs |-> "start"]
    /\ pos = [s \in Servers |-> 0]
    /\ total = [c \in Clients |-> 0]
    /\ log = <<>>
    /\ faulty \in SUBSET Procs

Next ==
    \/ \E s \in Servers : server(s) \/ readFails(s)
    \/ \E c \in Clients : client(c) \/ writeFails(c)
    \/ \E p \in Procs : killed(p)

Spec == Init /\ [][Next]_vars

\* Every process that can take a step is scheduled, and the kernel wakes a
\* sleeping semop() whose operations can be done.
Fairness ==
    /\ \A s \in Servers : WF_vars(server(s))
    /\ \A c \in Clients : WF_vars(client(c))

FairSpec == Spec /\ Fairness

-----------------------------------------------------------------------------
(* Invariants.                                                             *)

\* Types: every semaphore stays binary, and each process keeps to the labels
\* of its own program.
TypeOK ==
    /\ sem \in [SemIds -> 0 .. 1]
    /\ undo \in [Procs -> SUBSET SemIds]
    /\ buf \in Buffers
    /\ pc \in [Procs -> ServerLabels \cup ClientLabels]
    /\ \A s \in Servers : pc[s] \in ServerLabels
    /\ \A c \in Clients : pc[c] \in ClientLabels
    /\ pos \in [Servers -> Nat]
    /\ \A s \in Servers : pos[s] <= FileLen[s]
    /\ total \in [Clients -> Nat]
    /\ log \in Seq(Writes)
    /\ faulty \subseteq Procs

LiveServer(s) == pc[s] \in ServerLive
LiveClient(c) == pc[c] \in ClientLive
ReadyServer(s) == pc[s] \in ServerLive \ SettingUp

\* The process has taken the token of the buffer and not passed it on.
ServerHolds(s) == pc[s] \in {"read", "wake"}
ClientHolds(c) == pc[c] \in {"look", "write", "wake"}

\* What the kernel would undo for each process, by where it is.
UndoInv ==
    /\ \A s \in Servers : undo[s] = (IF LiveServer(s) THEN {SERVER} ELSE {})
                                    \cup (IF ReadyServer(s) THEN {INITED} ELSE {})
    /\ \A c \in Clients : undo[c] = IF LiveClient(c) THEN {CLIENT} ELSE {}

\* One server and one client in the block.
SingleInv ==
    /\ \A s, t \in Servers : LiveServer(s) /\ LiveServer(t) => s = t
    /\ \A c, d \in Clients : LiveClient(c) /\ LiveClient(d) => c = d

\* The three presence semaphores tell who is there.
PresenceInv ==
    /\ sem[SERVER] = 1 <=> \E s \in Servers : LiveServer(s)
    /\ sem[CLIENT] = 1 <=> \E c \in Clients : LiveClient(c)
    /\ sem[INITED] = 1 <=> \E s \in Servers : ReadyServer(s)

\* The buffer is one token: in FULL, in EMPTY, in the hands of a process, or
\* lost with a process that died holding it.
TokenInv ==
    /\ ~(sem[FULL] = 1 /\ sem[EMPTY] = 1)
    /\ \A s \in Servers : ServerHolds(s) => sem[FULL] = 0 /\ sem[EMPTY] = 0
    /\ \A c \in Clients : ClientHolds(c) => sem[FULL] = 0 /\ sem[EMPTY] = 0
    /\ \A s \in Servers, c \in Clients : ~(ServerHolds(s) /\ ClientHolds(c))
    /\ \A s \in Servers : pc[s] = "setEmpty" => sem[FULL] = 0

\* A server changes the counters with SETVAL only while no client can be
\* waiting on them or using the buffer: what acquireServer()'s test of the
\* client semaphore and the INIT semaphore are for.
ResetQuiescent ==
    \A s \in Servers, c \in Clients :
        pc[s] \in SettingUp => pc[c] \notin ClientLoop

\* The inductive invariant.
IInv == TypeOK /\ UndoInv /\ SingleInv /\ PresenceInv /\ TokenInv /\ ResetQuiescent

\* The shared buffer has one user at a time: never two clients, two servers or
\* a server filling it while a client writes it out, whoever was killed before
\* and whatever the last session left in the counters.
BufferExclusive ==
    LET users == {s \in Servers : pc[s] = "read"}
                     \cup {c \in Clients : pc[c] \in {"look", "write"}}
    IN  \A p, q \in users : p = q

AllPrinted(s) ==
    \A k \in 1 .. FileLen[s] :
        \E i \in DOMAIN log : log[i].from = s /\ log[i].chunk = k

\* A server that returns success has had every chunk of its file printed, by
\* one client or by several that took over from each other.
OkMeansPrinted ==
    \A s \in Servers : pc[s] = "ok" => AllPrinted(s)

\* A client that reports "Server has died" (common.c:349) while nothing fails
\* has lost nothing: its server has succeeded, and the whole file is printed.
\* The false alarm itself is possible: the server's exit may overtake the
\* client's last semop(), which tests the server before it takes the token.
FalseAlarmIsHarmless ==
    \A c \in Clients : faulty = {} /\ pc[c] \in {"returnFail", "failed"} =>
        \E s \in Servers :
            /\ pc[s] = "ok"
            /\ AllPrinted(s)
            /\ \A i \in DOMAIN log : log[i].by = c => log[i].from = s

\* On the values that occur, the semop() arrays of the source do what the
\* guards and effects of the actions above say, and the arrays of the two
\* loops fail with EAGAIN only when the peer is gone.
OpsAgree == ArraysAgree(sem)

-----------------------------------------------------------------------------
(* What a step may not do.                                                 *)

\* The buffer does not change under a client that looks at it or writes it
\* out, nor between the server's wake-up of the client and its second look at
\* shm->buffer.size (common.c:307), nor while it counts as full.
BufferStable ==
    [][buf' # buf =>
          /\ sem[FULL] = 0
          /\ \A c \in Clients : ~ClientHolds(c)
          /\ \A s \in Servers : pc[s] \notin {"wake", "eof"}]_vars

-----------------------------------------------------------------------------
(* The abstract specification.                                             *)

Delivery == INSTANCE SerialDelivery WITH
    prints <- [i \in DOMAIN log |->
                 [by |-> log[i].by, from |-> log[i].from, chunk |-> log[i].chunk]],
    done   <- {p \in Procs : pc[p] = "ok"}

\* With whole writes, sessions print one file after another, each in order and
\* with nothing twice or left out, and only a whole file counts as success.
ImplementsDelivery == Delivery!Spec

-----------------------------------------------------------------------------
(* Liveness.                                                               *)

\* Without faults, a server that has met its client gets its file printed and
\* succeeds, whatever an earlier session has left in the counters.
Delivered ==
    \A s \in Servers :
        faulty = {} /\ pc[s] \in ServerLoop ~> pc[s] = "ok" /\ AllPrinted(s)

\* A server whose client is gone does not wait for the buffer for ever, when
\* nobody takes the client's place.
ClientDeathNoticed ==
    \A s \in Servers :
        pc[s] \in ServerLoop /\ (\A c \in Clients : pc[c] \in Ended) ~> pc[s] \in Ended

\* A client in its loop whose server is gone does not wait for ever, even if
\* other servers are waiting for their turn.
ServerDeathNoticed ==
    \A c \in Clients :
        pc[c] \in ClientLoop /\ (\A s \in Servers : ~LiveServer(s)) ~> pc[c] \in Ended

-----------------------------------------------------------------------------
(* What the comments and messages say and the code does not do.            *)

\* How often byte b of the chunk in the buffer was printed.
TimesPrinted(b) ==
    Cardinality({i \in DOMAIN log :
        /\ log[i].from = buf.from /\ log[i].chunk = buf.chunk
        /\ b \in log[i].at + 1 .. log[i].at + log[i].len})

\* semaphores/client.c:1: the client prints the data sent by the server.  When
\* its write loop is over and it hands the buffer back, in as many write()
\* calls as it took, every byte of the chunk was printed once.
PrintsWhatWasSent ==
    \A c \in Clients : pc[c] = "wake" => \A b \in 1 .. buf.size : TimesPrinted(b) = 1

\* common.c:349: a client learns that its server is gone, also when it still
\* waits for the server to be set up.
EarlyDeathNoticed ==
    \A c \in Clients :
        faulty = {} /\ pc[c] = "waitForServer" /\ (\A s \in Servers : pc[s] \in Ended)
            ~> pc[c] \in Ended
=============================================================================
