------------------------------ MODULE FifoSend ------------------------------
(***************************************************************************)
(* send/: a client makes a FIFO of its own and announces its name on the   *)
(* FIFO that all processes share; a server takes one name and writes its   *)
(* file there.                                                             *)
(*                                                                         *)
(* A client that gets no data in time executes itself again, with a new    *)
(* FIFO; a server that finds no reader does so too, and takes the next     *)
(* name.  FIFOs are never removed.  A process may be killed anywhere.      *)
(* Names are written and read whole: both are PIPE_BUF bytes long.  A file *)
(* is a sequence of chunks, one for each write().                          *)
(***************************************************************************)
EXTENDS Integers, Sequences, FiniteSets

CONSTANTS
    Servers, Clients,
    FileLen,      \* FileLen[s]: chunks in the file of server s
    SyncCap,      \* names that fit into the sync FIFO
    FifoCap,      \* chunks that fit into a send FIFO
    MaxTimeouts   \* bound on the timeouts of a client, for model checking

Procs == Servers \cup Clients

ASSUME ConstAssumption ==
    /\ Servers \cap Clients = {}
    /\ FileLen \in [Servers -> Nat]
    /\ SyncCap \in Nat \ {0} /\ FifoCap \in Nat \ {0} /\ MaxTimeouts \in Nat

\* A name is known by its client and by how often the client had timed out.
Names == [client : Clients, try : 0 .. MaxTimeouts]

VARIABLES
    pc,       \* what each process does next
    syncUsers, \* the processes that have the sync FIFO open
    sync,     \* the names in it
    try,      \* try[c]: how often c has timed out
    name,     \* name[s]: the name that s has read, or that of the last one
    fifo,     \* fifo[nm]: what is in that send FIFO
    opened,   \* the names whose FIFO some server has opened
    sent,     \* sent[s]: chunks s has written
    out,      \* out[c]: what c has printed
    faults    \* may processes be killed? settled at the start

vars == <<pc, syncUsers, sync, try, name, fifo, opened, sent, out, faults>>

Ended == {"ok", "sigpipe", "killed"}
Goto(p, label) == pc' = [pc EXCEPT ![p] = label]

OwnName(c) == [client |-> c, try |-> try[c]]

\* Does a process have the send FIFO open at the end for reading, for writing?
HasReader(nm) == nm.try = try[nm.client]
                 /\ pc[nm.client] \in {"announce", "poll", "restart", "copy"}
HasWriter(nm) == \E s \in Servers : name[s] = nm /\ pc[s] = "copy"

\* A process closes the shared FIFO: what is in it lives on only while another
\* process has it open.
LeavesSync(p) ==
    /\ syncUsers' = syncUsers \ {p}
    /\ sync' = IF syncUsers = {p} THEN <<>> ELSE sync

\* What a send FIFO holds is gone with its last user.
AfterClosing(nm, otherEnd) ==
    IF otherEnd THEN fifo ELSE [fifo EXCEPT ![nm] = <<>>]

-----------------------------------------------------------------------------
(* Both programs open the sync FIFO first.                                 *)

openSync(p) ==
    /\ pc[p] = "start"
    /\ syncUsers' = syncUsers \cup {p}
    /\ Goto(p, IF p \in Clients THEN "announce" ELSE "readName")
    /\ UNCHANGED <<sync, try, name, fifo, opened, sent, out, faults>>

-----------------------------------------------------------------------------
(* The client.  Making and opening its FIFO concerns nobody else, and is    *)
(* part of the step that opens the sync FIFO.                               *)

announce(c) ==
    /\ pc[c] = "announce" /\ Len(sync) < SyncCap
    /\ sync' = Append(sync, OwnName(c))
    /\ Goto(c, "poll")
    /\ UNCHANGED <<syncUsers, try, name, fifo, opened, sent, out, faults>>

\* A mistake: the client does not wait for a writer.
ReadableAtOnce(c) == TRUE

\* POLLIN, or POLLHUP after a writer has come and gone.
Readable(c) ==
    LET nm == OwnName(c) IN fifo[nm] # <<>> \/ (nm \in opened /\ ~HasWriter(nm))

pollReady(c) ==
    /\ pc[c] = "poll" /\ Readable(c)
    /\ Goto(c, "copy")
    /\ UNCHANGED <<syncUsers, sync, try, name, fifo, opened, sent, out, faults>>

\* poll() returns 0; the FIFO is open until execvp().
pollTimeout(c) ==
    /\ pc[c] = "poll" /\ ~Readable(c)
    /\ try[c] < MaxTimeouts
    /\ Goto(c, "restart")
    /\ UNCHANGED <<syncUsers, sync, try, name, fifo, opened, sent, out, faults>>

\* A mistake: the same FIFO is used again.
SameFifo(c) == try[c]

\* mktemp() and mkfifo().
NewFifo(c) == try[c] + 1

restartClient(c) ==
    /\ pc[c] = "restart"
    /\ LeavesSync(c)
    /\ fifo' = AfterClosing(OwnName(c), HasWriter(OwnName(c)))
    /\ try' = [try EXCEPT ![c] = NewFifo(c)]
    /\ Goto(c, "start")
    /\ UNCHANGED <<name, opened, sent, out, faults>>

copyChunk(c) ==
    /\ pc[c] = "copy"
    /\ fifo[OwnName(c)] # <<>>
    /\ out' = [out EXCEPT ![c] = Append(@, Head(fifo[OwnName(c)]))]
    /\ fifo' = [fifo EXCEPT ![OwnName(c)] = Tail(@)]
    /\ UNCHANGED <<pc, syncUsers, sync, try, name, opened, sent, faults>>

\* A mistake: POLLHUP is taken for the end though there may be data.
AtHup(nm) == ~HasWriter(nm)

\* read() answers 0.
AtEnd(nm) == fifo[nm] = <<>> /\ ~HasWriter(nm)

\* The end of a client, however it comes.
ClientEnds(c, how) ==
    /\ LeavesSync(c)
    /\ Goto(c, how)
    /\ fifo' = AfterClosing(OwnName(c), HasWriter(OwnName(c)))
    /\ UNCHANGED <<try, name, opened, sent, out, faults>>

clientEof(c) ==
    /\ pc[c] = "copy" /\ AtEnd(OwnName(c))
    /\ ClientEnds(c, "ok")

client(c) ==
    \/ openSync(c) \/ announce(c) \/ pollReady(c) \/ restartClient(c)
    \/ copyChunk(c) \/ clientEof(c)

-----------------------------------------------------------------------------
(* The server.                                                             *)

\* A mistake: the name stays in the sync FIFO.
Stays(names) == names

\* read() takes what it reads.
Taken(names) == Tail(names)

readName(s) ==
    /\ pc[s] = "readName" /\ sync # <<>>
    /\ name' = [name EXCEPT ![s] = Head(sync)]
    /\ sync' = Taken(sync)
    /\ Goto(s, "open")
    /\ UNCHANGED <<syncUsers, try, fifo, opened, sent, out, faults>>

openFifo(s) ==
    /\ pc[s] = "open" /\ HasReader(name[s])
    /\ opened' = opened \cup {name[s]}
    /\ Goto(s, "copy")
    /\ UNCHANGED <<syncUsers, sync, try, name, fifo, sent, out, faults>>

\* ENXIO
restartServer(s) ==
    /\ pc[s] = "open" /\ ~HasReader(name[s])
    /\ LeavesSync(s)
    /\ Goto(s, "start")
    /\ UNCHANGED <<try, name, fifo, opened, sent, out, faults>>

\* A write() sleeps while the FIFO is full.
sendChunk(s) ==
    /\ pc[s] = "copy" /\ sent[s] < FileLen[s]
    /\ HasReader(name[s]) /\ Len(fifo[name[s]]) < FifoCap
    /\ fifo' = [fifo EXCEPT ![name[s]] = Append(@, [from |-> s, chunk |-> sent[s] + 1])]
    /\ sent' = [sent EXCEPT ![s] = @ + 1]
    /\ UNCHANGED <<pc, syncUsers, sync, try, name, opened, out, faults>>

\* The end of a server, however it comes.
ServerEnds(s, how) ==
    /\ LeavesSync(s)
    /\ Goto(s, how)
    /\ fifo' = IF pc[s] = "copy" THEN AfterClosing(name[s], HasReader(name[s])) ELSE fifo
    /\ UNCHANGED <<try, name, opened, sent, out, faults>>

\* A mistake: the server has the FIFO open for reading too, and meets no SIGPIPE.
readerHasDiedUnseen(s) == FALSE

readerHasDied(s) ==
    /\ pc[s] = "copy" /\ sent[s] < FileLen[s] /\ ~HasReader(name[s])
    /\ ServerEnds(s, "sigpipe")

serverEof(s) ==
    /\ pc[s] = "copy" /\ sent[s] = FileLen[s]
    /\ ServerEnds(s, "ok")

server(s) ==
    \/ openSync(s) \/ readName(s) \/ openFifo(s) \/ restartServer(s)
    \/ sendChunk(s) \/ readerHasDied(s) \/ serverEof(s)

-----------------------------------------------------------------------------
serverKilled(s) ==
    /\ faults /\ pc[s] \notin Ended
    /\ ServerEnds(s, "killed")

clientKilled(c) ==
    /\ faults /\ pc[c] \notin Ended
    /\ ClientEnds(c, "killed")

Init ==
    /\ pc = [p \in Procs |-> "start"]
    /\ syncUsers = {} /\ sync = <<>>
    /\ try = [c \in Clients |-> 0]
    /\ name \in [Servers -> {CHOOSE nm \in Names : TRUE}]
    /\ fifo = [nm \in Names |-> <<>>] /\ opened = {}
    /\ sent = [s \in Servers |-> 0]
    /\ out = [c \in Clients |-> <<>>]
    /\ faults \in BOOLEAN

Next ==
    \/ \E s \in Servers : server(s) \/ serverKilled(s)
    \/ \E c \in Clients : client(c) \/ pollTimeout(c) \/ clientKilled(c)

Spec == Init /\ [][Next]_vars

\* Every process runs, and its blocking calls return once they can.  Nothing
\* says that two minutes pass.
Fairness == /\ \A s \in Servers : WF_vars(server(s))
            /\ \A c \in Clients : WF_vars(client(c))

FairSpec == Spec /\ Fairness

-----------------------------------------------------------------------------
\* What a client prints is the beginning of the file of one server, and what a
\* server sends is printed by one client: names are taken by one server each,
\* whoever restarts, and the names of clients that restarted lead nowhere.
OneToOne ==
    /\ \A c \in Clients : out[c] # <<>> => \E s \in Servers :
          out[c] = [k \in 1 .. Len(out[c]) |-> [from |-> s, chunk |-> k]]
    /\ \A c, d \in Clients : c # d /\ out[c] # <<>> /\ out[d] # <<>> =>
          out[c][1].from # out[d][1].from

\* A name that a server has taken is in no other hands: two servers never have
\* the same FIFO open, also when the client of the name is long gone.
OneWriter ==
    \A s, t \in Servers : pc[s] = "copy" /\ pc[t] = "copy" /\ name[s] = name[t] => s = t

\* A server that succeeds while nothing is killed has its whole file printed or
\* on the way to a client that reads on, unless that client's poll() has timed
\* out before the first write: then the file is lost, and the server cannot know.
SuccessArrives ==
    \A s \in Servers : ~faults /\ pc[s] = "ok" =>
        LET nm == name[s]
        IN  \/ Len(out[nm.client] \o fifo[nm]) = FileLen[s]
            \/ pc[nm.client] = "restart" \/ try[nm.client] > nm.try

\* If nothing is killed and no client times out, and there are servers for all
\* clients, every client gets a whole file.
Delivered ==
    ~faults /\ Cardinality(Servers) >= Cardinality(Clients)
        /\ [](\A c \in Clients : pc[c] # "restart")
    => \A c \in Clients : <>(/\ pc[c] = "ok"
                             /\ \E s \in Servers : pc[s] = "ok" /\ name[s] = OwnName(c)
                                                   /\ Len(out[c]) = FileLen[s])

\* A server that has opened a FIFO ends, whatever becomes of its client: the
\* reader's end is closed by exec() and by death, and SIGPIPE follows.
ServerEndsToo == \A s \in Servers : pc[s] = "copy" ~> pc[s] \in Ended
=============================================================================
