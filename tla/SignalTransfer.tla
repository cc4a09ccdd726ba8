--------------------------- MODULE SignalTransfer ---------------------------
(***************************************************************************)
(* signals/signals.c: a child (the server) sends a file to its parent (the *)
(* client) with nothing but SIGUSR1 and SIGUSR2, one signal for each bit.  *)
(*                                                                         *)
(* A block is: the server's ready signal, the block's size in SizeBits     *)
(* bits, its content, the client's confirmation; every bit is asked for.   *)
(* A standard signal that is already pending is not queued again, so a     *)
(* signal sent too soon, or to a process whose handler is not the right    *)
(* one yet, is lost or taken for another.                                  *)
(*                                                                         *)
(* A file is a sequence of bits; CharBits of them are a byte.              *)
(***************************************************************************)
EXTENDS Integers, Sequences, FiniteSets

CONSTANTS
    File,         \* what the server sends
    CharBits,     \* CHAR_BIT
    SizeBits      \* USHRT_WIDTH; the buffer holds 2^SizeBits - 1 bytes

\* 1 << i
weight[i \in 0 .. SizeBits] == IF i = 0 THEN 1 ELSE 2 * weight[i - 1]

BufBytes == weight[SizeBits] - 1

ASSUME ConstAssumption ==
    /\ CharBits \in Nat \ {0}
    /\ SizeBits \in Nat \ {0}
    /\ File \in Seq(0 .. 1)
    /\ Len(File) % CharBits = 0

VARIABLES
    c,   \* the client: what it does next (pc), what it receives (phase: "ready",
         \* "size" or "data"), its dispositions of SIGUSR1 and SIGUSR2, the
         \* signals it blocks, server_ready, active_bit, buffer_size and buffer as
         \* bits, and the bits of the buffer that were written
    s,   \* the server: pc, what it sends, its disposition of SIGUSR1, whether it
         \* gets SIGTERM at the client's death, the signals it blocks,
         \* client_ready, active_bit, buffer, and the bits read from the file
    pend, \* the signals pending for each
    out   \* what went to standard output

vars == <<c, s, pend, out>>

Signals == {"USR1", "USR2"}

\* A process ends by exit(), after an I/O error, by a signal the program sends
\* or asks for, or killed from outside.
Ended   == {"ok", "failed", "error", "terminated", "killed"}

ClientLabels == {"block", "test", "sigsuspend", "suspend", "handler0", "handler1",
                 "request", "restore", "confirm", "write"} \cup Ended
ServerLabels == {"prctl", "getppid", "handlers", "read", "ready", "block", "test",
                 "sigsuspend", "suspend", "send"} \cup Ended

clientEnded == c.pc \in Ended
serverEnded == s.pc \in Ended

\* A step of one process that concerns nobody else.
Client(at, next) == c.pc = at /\ c' = next /\ UNCHANGED <<s, pend, out>>
Server(at, next) == s.pc = at /\ s' = next /\ UNCHANGED <<c, pend, out>>

-----------------------------------------------------------------------------
(* Numbers as bits, the least significant first.                           *)

BitOf(n, i) == (n \div weight[i]) % 2

Number(bits) ==
    LET n[w \in 0 .. SizeBits] == IF w = 0 THEN 0 ELSE n[w - 1] + bits[w - 1] * weight[w - 1]
    IN  n[SizeBits]

ClientSize == Number(c.size)            \* buffer_size of the client
ServerSize == Len(s.buf) \div CharBits  \* buffer_size of the server

\* n_bits of recieveN() and sendN().
ClientBits == IF c.phase = "size" THEN SizeBits ELSE ClientSize * CharBits
ServerBits == IF s.phase = "size" THEN SizeBits ELSE ServerSize * CharBits

\* The bit the server's active_data and active_bit point at.
NextBit == IF s.phase = "size" THEN BitOf(ServerSize, s.bit) ELSE s.buf[s.bit + 1]

-----------------------------------------------------------------------------
(* Signals.                                                                *)

\* kill(): a signal that is pending already stays pending once.
ToServer      == pend' = [pend EXCEPT !.server = @ \cup {"USR1"}]
ToClient(sig) == pend' = [pend EXCEPT !.client = @ \cup {sig}]

\* The end of sigsuspend(), when a handler has run.
Woken(p) == IF p.pc = "suspend" THEN [p EXCEPT !.pc = "test"] ELSE p

\* A handler runs between any two steps of the client unless the signal is
\* blocked; in sigsuspend() nothing is.
ReachesClient(sig) ==
    /\ ~clientEnded /\ sig \in pend.client
    /\ sig \notin c.mask \/ c.pc = "suspend"
    /\ pend' = [pend EXCEPT !.client = @ \ {sig}]
    /\ UNCHANGED <<s, out>>

recieveWaitHandler ==
    /\ c.usr1 = "wait" /\ ReachesClient("USR1")
    /\ c' = [Woken(c) EXCEPT !.ready = TRUE]

\* A mistake: bits are only ever set, and those of the last block stay.
WithBitSetOnly(old, bit) == IF bit = 1 THEN 1 ELSE old

\* What |= and &= leave of a bit.
WithBit(old, bit) == bit

\* recieve0Handler() and recieve1Handler(): a bit goes where active_data and
\* active_bit point.
recieveBit(sig, bit) ==
    /\ ReachesClient(sig)
    /\ LET next == [Woken(c) EXCEPT !.bit = @ + 1, !.ready = TRUE]
       IN  c' = IF c.phase = "size" THEN [next EXCEPT !.size[c.bit] = WithBit(@, bit)]
                ELSE [next EXCEPT !.buf[c.bit] = WithBit(@, bit)]

recieve0Handler == c.usr1 = "bit" /\ recieveBit("USR1", 0)
\* Without a handler, SIGUSR2 ends the process.
recieve1Handler ==
    IF c.usr2 = "bit" THEN recieveBit("USR2", 1)
    ELSE ReachesClient("USR2") /\ c' = [c EXCEPT !.pc = "terminated"]

\* SIGCHLD is never blocked: its handler exits wherever the client is.
childDeathHandler ==
    /\ serverEnded /\ ~clientEnded
    /\ c' = [c EXCEPT !.pc = "failed"]
    /\ UNCHANGED <<s, pend, out>>

\* SIGUSR1 reaches the server.  Before activateSendHandlers() it still has the
\* handler inherited from the client, which says nothing to it.
sendWaitHandler ==
    /\ ~serverEnded /\ "USR1" \in pend.server
    /\ "USR1" \notin s.mask \/ s.pc = "suspend"
    /\ pend' = [pend EXCEPT !.server = {}]
    /\ s' = [Woken(s) EXCEPT !.ready = @ \/ s.handler = "send"]
    /\ UNCHANGED <<c, out>>

\* SIGTERM at the death of the client, if it was asked for in time.
parentDeathSignal ==
    /\ s.pdeath /\ clientEnded /\ ~serverEnded
    /\ s' = [s EXCEPT !.pc = "terminated"]
    /\ UNCHANGED <<c, pend, out>>

\* A mistake: the flag is not cleared.
TakenKept(p) == [p EXCEPT !.mask = {}]

\* The end of waitForServer() and waitForClient().
Taken(p) == [p EXCEPT !.ready = FALSE, !.mask = {}]

-----------------------------------------------------------------------------
(* The client: mainRecieveLoop().                                          *)

\* A mistake: sigsuspend() without blocking the signals before the test.
blockSignalsNot == Client("block", [c EXCEPT !.pc = "test"])

\* waitForServer(): the two signals of the mask are one only for "ready".
blockSignals ==
    Client("block", [c EXCEPT !.pc = "test",
                              !.mask = IF c.phase = "ready" THEN {"USR1"} ELSE Signals])

serverIsNotReady == ~c.ready /\ Client("test", [c EXCEPT !.pc = "sigsuspend"])

suspendClient == Client("sigsuspend", [c EXCEPT !.pc = "suspend"])

serverIsReady ==
    /\ c.ready
    /\ Client("test", [Taken(c) EXCEPT !.pc = IF c.phase = "ready" THEN "handler0" ELSE "request"])

\* activateRecieveHandlers(), then the beginning of recieveBufferSize().
setHandler0 == Client("handler0", [c EXCEPT !.pc = "handler1", !.usr1 = "bit"])

setHandler1 ==
    Client("handler1", [c EXCEPT !.pc = "request", !.usr2 = "bit", !.phase = "size",
                                 !.size = [i \in 0 .. SizeBits - 1 |-> 0], !.bit = 0])

\* A mistake: one bit too many.
OneMore == c.bit <= ClientBits

\* The loop of recieveN().
BitsLeft == c.bit < ClientBits

requestBit ==
    /\ c.pc = "request" /\ BitsLeft /\ ~serverEnded
    /\ ToServer
    /\ c' = [c EXCEPT !.pc = "block"]
    /\ UNCHANGED <<s, out>>

\* recieveN() returns: recieveBuffer() follows recieveBufferSize().
recievedSize ==
    /\ ~BitsLeft /\ c.phase = "size"
    /\ Client("request", [c EXCEPT !.phase = "data", !.bit = 0])

recievedBuffer ==
    /\ ~BitsLeft /\ c.phase = "data"
    /\ Client("request", [c EXCEPT !.pc = "restore"])

\* A mistake: the bit handler stays for the ready signal.
restoreWaitHandlerNot == Client("restore", [c EXCEPT !.pc = "confirm"])

restoreWaitHandler == Client("restore", [c EXCEPT !.pc = "confirm", !.usr1 = "wait"])

confirm ==
    /\ c.pc = "confirm" /\ ~serverEnded
    /\ ToServer
    /\ c' = [c EXCEPT !.pc = "write", !.written = 0]
    /\ UNCHANGED <<s, out>>

\* kill() finds no process.
killFails ==
    /\ serverEnded
    /\ \/ BitsLeft /\ Client("request", [c EXCEPT !.pc = "failed"])
       \/ Client("confirm", [c EXCEPT !.pc = "failed"])

\* One write(), of some of the bytes that are left.
writeOut ==
    /\ c.pc = "write"
    /\ \E bytes \in 1 .. ClientSize - c.written \div CharBits :
          LET n == bytes * CharBits
          IN  /\ out' = out \o [i \in 1 .. n |-> c.buf[c.written + i - 1]]
              /\ c' = [c EXCEPT !.written = @ + n]
    /\ UNCHANGED <<s, pend>>

writeFails ==
    /\ c.written < ClientSize * CharBits
    /\ Client("write", [c EXCEPT !.pc = "error"])

writtenOut ==
    /\ c.written >= ClientSize * CharBits
    /\ Client("write", IF ClientSize > 0 THEN [c EXCEPT !.pc = "block", !.phase = "ready"]
                       ELSE [c EXCEPT !.pc = "ok"])

client ==
    \/ blockSignals \/ serverIsNotReady \/ suspendClient \/ serverIsReady \/ setHandler0 \/ setHandler1
    \/ requestBit \/ recievedSize \/ recievedBuffer \/ restoreWaitHandler
    \/ confirm \/ killFails \/ writeOut \/ writtenOut

-----------------------------------------------------------------------------
(* The server: the child's branch of main(), then mainSendLoop().          *)

\* Too late once the client is gone.
askForDeathSignal == Server("prctl", [s EXCEPT !.pc = "getppid", !.pdeath = ~clientEnded])

\* A mistake: the client's death before prctl() goes unseen.
checkParentNot == Server("getppid", [s EXCEPT !.pc = "handlers"])

checkParent == Server("getppid", [s EXCEPT !.pc = IF clientEnded THEN "failed" ELSE "handlers"])

activateSendHandlers == Server("handlers", [s EXCEPT !.pc = "read", !.handler = "send"])

\* A file read fills the buffer unless it meets the end.
readFile ==
    LET rest == Len(File) - s.offset
        n    == IF rest < BufBytes * CharBits THEN rest ELSE BufBytes * CharBits
    IN  Server("read", [s EXCEPT !.pc = "ready", !.offset = @ + n,
                                 !.buf = SubSeq(File, s.offset + 1, s.offset + n)])

readFails == Server("read", [s EXCEPT !.pc = "error"])

\* kill(ppid), then a wait: it succeeds as long as a dead client is not reaped.
Send(sig, next) ==
    /\ \/ ~clientEnded /\ ToClient(sig) /\ s' = [next EXCEPT !.pc = "block"]
       \/ clientEnded /\ UNCHANGED pend /\ \E at \in {"block", "failed"} : s' = [next EXCEPT !.pc = at]
    /\ UNCHANGED <<c, out>>

signalReady == s.pc = "ready" /\ Send("USR1", [s EXCEPT !.phase = "size", !.bit = 0])

\* waitForClient()
blockUsr1 == Server("block", [s EXCEPT !.pc = "test", !.mask = {"USR1"}])

clientIsNotReady == ~s.ready /\ Server("test", [s EXCEPT !.pc = "sigsuspend"])

suspendServer == Server("sigsuspend", [s EXCEPT !.pc = "suspend"])

\* After the confirmation, mainSendLoop() goes on as long as the block was not
\* empty.
clientIsReady ==
    /\ s.ready
    /\ Server("test", [Taken(s) EXCEPT
          !.pc = IF s.phase # "confirm" THEN "send" ELSE IF ServerSize > 0 THEN "read" ELSE "ok"])

\* The rest of a turn of sendN(); the next wait is for the content after the
\* size, and for the confirmation after the content.
sendBit ==
    /\ s.pc = "send"
    /\ Send(IF NextBit = 1 THEN "USR2" ELSE "USR1",
            IF s.bit + 1 < ServerBits THEN [s EXCEPT !.bit = @ + 1]
            ELSE [s EXCEPT !.bit = 0,
                     !.phase = IF @ = "size" /\ ServerSize > 0 THEN "data" ELSE "confirm"])

server ==
    \/ askForDeathSignal \/ checkParent \/ activateSendHandlers \/ readFile \/ signalReady
    \/ blockUsr1 \/ clientIsNotReady \/ suspendServer \/ clientIsReady \/ sendBit

-----------------------------------------------------------------------------
killed ==
    /\ \/ ~clientEnded /\ c' = [c EXCEPT !.pc = "killed"] /\ UNCHANGED s
       \/ ~serverEnded /\ s' = [s EXCEPT !.pc = "killed"] /\ UNCHANGED c
    /\ UNCHANGED <<pend, out>>

\* Just after fork().
Init ==
    /\ c = [pc |-> "block", phase |-> "ready", usr1 |-> "wait", usr2 |-> "default",
            mask |-> {}, ready |-> FALSE, bit |-> 0, size |-> [i \in 0 .. SizeBits - 1 |-> 0],
            buf |-> [i \in 0 .. BufBytes * CharBits - 1 |-> 0], written |-> 0]
    /\ s = [pc |-> "prctl", phase |-> "size", handler |-> "inherited", pdeath |-> FALSE,
            mask |-> {}, ready |-> FALSE, bit |-> 0, buf |-> <<>>, offset |-> 0]
    /\ pend = [client |-> {}, server |-> {}]
    /\ out = <<>>

signals ==
    \/ recieveWaitHandler \/ recieve0Handler \/ recieve1Handler
    \/ childDeathHandler \/ sendWaitHandler \/ parentDeathSignal

Next == client \/ server \/ signals \/ readFails \/ writeFails \/ killed

Spec == Init /\ [][Next]_vars

\* The scheduler runs both processes, and a signal that is pending and not
\* blocked is delivered.
Fairness ==
    /\ WF_vars(client) /\ WF_vars(server)
    /\ WF_vars(recieveWaitHandler) /\ WF_vars(recieve0Handler) /\ WF_vars(recieve1Handler)
    /\ WF_vars(childDeathHandler)
    /\ WF_vars(sendWaitHandler) /\ WF_vars(parentDeathSignal)

FairSpec == Spec /\ Fairness

-----------------------------------------------------------------------------
(* Invariants.                                                             *)

\* Types; a bit never goes past the size or the content it belongs to.
TypeOK ==
    /\ c \in [pc : ClientLabels, phase : {"ready", "size", "data"},
              usr1 : {"wait", "bit"}, usr2 : {"default", "bit"}, mask : SUBSET Signals,
              ready : BOOLEAN, bit : 0 .. ClientBits, size : [0 .. SizeBits - 1 -> 0 .. 1],
              buf : [0 .. BufBytes * CharBits - 1 -> 0 .. 1], written : 0 .. BufBytes * CharBits]
    /\ s \in [pc : ServerLabels, phase : {"size", "data", "confirm"},
              handler : {"inherited", "send"}, pdeath : BOOLEAN, mask : SUBSET {"USR1"},
              ready : BOOLEAN, bit : Nat, buf : Seq(0 .. 1), offset : 0 .. Len(File)]
    /\ Len(s.buf) <= BufBytes * CharBits
    /\ pend \in [client : SUBSET Signals, server : SUBSET {"USR1"}]
    /\ out \in Seq(0 .. 1)

\* Client and server take turns: between them there is never more than one
\* signal that was sent and whose effect was not used up.  So no signal is
\* merged with one that is pending, whoever is slow.
LockStep ==
    Cardinality(pend.client) + Cardinality(pend.server)
        + (IF c.ready THEN 1 ELSE 0) + (IF s.ready THEN 1 ELSE 0) <= 1

\* A signal meets the handler it is meant for: a ready signal finds the wait
\* handler and a bit finds the bit handlers, although both use SIGUSR1 and the
\* handlers are swapped twice in every block; no signal reaches the server
\* before its own handler is set.
RightHandler ==
    /\ "USR1" \in pend.client /\ ~clientEnded => (c.usr1 = "bit" <=> (s.phase # "size" \/ s.bit > 0))
    /\ "USR2" \in pend.client => c.usr2 = "bit"
    /\ pend.server # {} => s.handler = "send"

-----------------------------------------------------------------------------
(* The abstract specification.                                             *)

Stream == INSTANCE ByteStream WITH
    Window <- 2 * BufBytes * CharBits,
    taken  <- s.offset,
    done   <- (c.pc = "ok" \/ s.pc = "ok")

\* The output is always the beginning of the file, bit by bit, with at most two
\* blocks on their way: the one being printed and the one being sent; and either
\* side succeeds only when the whole file is printed.
ImplementsStream == Stream!Spec

-----------------------------------------------------------------------------
(* Liveness.                                                               *)

\* Unless one of them is killed or meets an I/O error, the whole file is printed
\* and both processes end: no wake-up is lost between a test of the flag and
\* sigsuspend().
Delivered ==
    []({c.pc, s.pc} \intersect {"killed", "error"} = {})
        => <>(out = File) /\ <>clientEnded /\ <>serverEnded

\* Neither process outlives the other, whenever it is killed: SIGCHLD for the
\* client; prctl() followed by the test of getppid() for the server.
NoOrphan == (clientEnded ~> serverEnded) /\ (serverEnded ~> clientEnded)
=============================================================================
