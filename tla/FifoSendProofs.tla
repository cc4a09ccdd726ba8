--------------------------- MODULE FifoSendProofs ---------------------------
(***************************************************************************)
(* A name is in one place only, and so a client prints the file of one     *)
(* server, and a server's file reaches one client, for any number of       *)
(* processes, timeouts and deaths.                                         *)
(*                                                                         *)
(* The inductive invariant follows a name: until its client announces it,  *)
(* it is nowhere; then it is in the sync FIFO once, or one server has it,  *)
(* or it is lost.  A FIFO that a server has opened has no second one to    *)
(* come.  What the client has printed and what the FIFO holds is, in this  *)
(* order, what that server has sent.                                       *)
(***************************************************************************)
EXTENDS FifoSend, TLAPS

USE ConstAssumption

-----------------------------------------------------------------------------
(* The inductive invariant.                                                *)

ServerPlaces == {"start", "readName", "open", "copy"} \union Ended
ClientPlaces == {"start", "announce", "poll", "restart", "copy"} \union {"ok", "killed"}

\* What a server has instead of a name before it has read one.
NoName == CHOOSE nm \in Names : TRUE

Chunks == [from : Servers, chunk : Nat]

TypeOK ==
    /\ pc \in [Procs -> ServerPlaces \union ClientPlaces]
    /\ \A s \in Servers : pc[s] \in ServerPlaces
    /\ \A c \in Clients : pc[c] \in ClientPlaces
    /\ sync \in Seq(Names)
    /\ try \in [Clients -> 0 .. MaxTimeouts]
    /\ name \in [Servers -> Names \union {NoName}]
    /\ fifo \in [Names -> Seq(Chunks)]
    /\ opened \subseteq Names
    /\ sent \in [Servers -> Nat]
    /\ out \in [Clients -> Seq(Chunks)]
    /\ faults \in BOOLEAN

\* The first k chunks of the file of s.
File(s, k) == [i \in 1 .. k |-> [from |-> s, chunk |-> i]]

\* A name that its client will not announce any more.
Announced(nm) ==
    \/ nm.try < try[nm.client]
    \/ nm.try = try[nm.client] /\ pc[nm.client] \notin {"start", "announce"}

Queued(nm) == \E i \in DOMAIN sync : sync[i] = nm

\* A server that took a name and has not given it up for want of a reader.
Holds(s) == pc[s] \in {"open", "copy", "ok", "sigpipe"} \/ sent[s] > 0

\* Names are in the sync FIFO once, after they were announced.
Queue ==
    /\ \A i \in DOMAIN sync : Announced(sync[i])
    /\ \A i, j \in DOMAIN sync : sync[i] = sync[j] => i = j

\* The name that a server has is in no other place.
Hand(s) ==
    Holds(s) =>
        /\ name[s] \in Names /\ Announced(name[s]) /\ ~Queued(name[s])
        /\ \A t \in Servers : Holds(t) /\ name[t] = name[s] => t = s
        /\ name[s] \in opened <=> pc[s] # "open"

\* How far a server has come.
Progress(s) ==
    /\ sent[s] > 0 => pc[s] \in {"copy", "ok", "sigpipe", "killed"}
    /\ sent[s] <= FileLen[s]
    /\ pc[s] = "ok" => sent[s] = FileLen[s]
    /\ ~faults => pc[s] # "killed"

\* Who opened a FIFO had its name from the sync FIFO.
Open(nm) == nm \in opened => Announced(nm) /\ ~Queued(nm)

\* What is in a FIFO was sent there.
Filled(nm) == fifo[nm] # <<>> => \E s \in Servers : sent[s] > 0 /\ name[s] = nm

\* What a server has sent is in the FIFO or behind it, while there is a reader.
Flow(s) ==
    Holds(s) /\ HasReader(name[s]) =>
        out[name[s].client] \o fifo[name[s]] = File(s, sent[s])

\* What a client prints comes from one server, out of the FIFO it made last.
Printed(c) ==
    out[c] # <<>> =>
        /\ pc[c] \in {"copy", "ok", "killed"}
        /\ \E s \in Servers : /\ Holds(s) /\ name[s] = OwnName(c)
                              /\ Len(out[c]) <= sent[s]
                              /\ out[c] = File(s, Len(out[c]))

\* How far a client has come: one that succeeds has all that was sent to it.
Reached(c) ==
    /\ pc[c] = "restart" => try[c] < MaxTimeouts
    /\ pc[c] \in {"copy", "ok"} => OwnName(c) \in opened
    /\ pc[c] = "ok" => \A s \in Servers : Holds(s) /\ name[s] = OwnName(c) =>
                           pc[s] # "copy" /\ out[c] = File(s, sent[s])
    /\ pc[c] = "ok" => fifo[OwnName(c)] = <<>>
    /\ ~faults => pc[c] # "killed"

ServerInv == \A s \in Servers : Hand(s) /\ Progress(s) /\ Flow(s)
ClientInv == \A c \in Clients : Printed(c) /\ Reached(c)
NameInv == \A nm \in Names : Open(nm) /\ Filled(nm)

IInv == TypeOK /\ Queue /\ ServerInv /\ ClientInv /\ NameInv

-----------------------------------------------------------------------------
(* Steps that only move one process.                                       *)

\* A process goes to another place.
LEMMA Moves ==
    ASSUME TypeOK, NEW p \in Procs, NEW l, pc' = [pc EXCEPT ![p] = l]
    PROVE  pc'[p] = l /\ \A q \in Procs : q # p => pc'[q] = pc[q]
    BY DEF TypeOK

\* The sync FIFO loses all names or none when a process closes it.
LEMMA Leaving ==
    ASSUME TypeOK, Queue, NEW p, LeavesSync(p)
    PROVE  /\ sync' \in Seq(Names)
           /\ \A nm : Queued(nm)' => Queued(nm)
           /\ \A i \in DOMAIN sync' : i \in DOMAIN sync /\ sync'[i] = sync[i]
    BY DEF TypeOK, LeavesSync, Queued

\* Only a step of its client changes whether a name is announced or read.
LEMMA SameClients ==
    ASSUME try' = try, \A c \in Clients : pc'[c] = pc[c], NEW nm \in Names
    PROVE  /\ nm.client \in Clients
           /\ Announced(nm)' <=> Announced(nm)
           /\ HasReader(nm)' <=> HasReader(nm)
    BY DEF Names, Announced, HasReader

\* Names that leave the sync FIFO, or stay, are announced and in it once.
LEMMA NamesStay ==
    ASSUME TypeOK, Queue, NEW k \in Nat,
           \A i \in DOMAIN sync' : i + k \in DOMAIN sync /\ sync'[i] = sync[i + k],
           DOMAIN sync' \subseteq Nat,
           \A nm \in Names : Announced(nm) => Announced(nm)'
    PROVE  Queue'
<1>1. (\A i \in DOMAIN sync : Announced(sync[i]))'
  <2> SUFFICES ASSUME NEW i \in DOMAIN sync' PROVE Announced(sync[i])'
      OBVIOUS
  <2>1. PICK nm : nm = sync'[i] /\ nm = sync[i + k]
      OBVIOUS
  <2>2. i + k \in DOMAIN sync /\ sync \in Seq(Names)
      BY DEF TypeOK
  <2>3. nm \in Names /\ Announced(nm)
      BY <2>1, <2>2 DEF Queue
  <2>4. Announced(nm)'
      BY <2>3
  <2>. QED
      BY <2>1, <2>4 DEF Announced
<1>2. \A i, j \in DOMAIN sync' : sync'[i] = sync'[j] => i = j
  <2> SUFFICES ASSUME NEW i \in DOMAIN sync', NEW j \in DOMAIN sync', sync'[i] = sync'[j]
               PROVE  i = j
      OBVIOUS
  <2>1. i + k = j + k /\ i \in Nat /\ j \in Nat
      BY DEF Queue
  <2>. QED
      BY <2>1
<1>. QED
    BY <1>1, <1>2 DEF Queue

\* What a client has printed stays the beginning of what a server has sent.
LEMMA PrintedStays ==
    ASSUME IInv, NEW c \in Clients, out'[c] = out[c], OwnName(c)' = OwnName(c),
           pc[c] \in {"copy", "ok", "killed"} => pc'[c] \in {"copy", "ok", "killed"},
           \A t \in Servers : Holds(t) /\ sent[t] > 0 =>
               Holds(t)' /\ name'[t] = name[t] /\ sent'[t] \in Nat /\ sent[t] <= sent'[t]
    PROVE  Printed(c)'
<1> SUFFICES ASSUME out[c] # <<>> PROVE Printed(c)'
    BY DEF Printed
<1>1. PICK t \in Servers : /\ Holds(t) /\ name[t] = OwnName(c)
                           /\ Len(out[c]) <= sent[t] /\ out[c] = File(t, Len(out[c]))
    BY DEF IInv, ClientInv, Printed
<1>2. Len(out[c]) \in Nat /\ Len(out[c]) > 0 /\ sent[t] \in Nat
  <2>1. out[c] \in Seq(Chunks) /\ sent[t] \in Nat
      BY DEF IInv, TypeOK
  <2>. QED
      BY <2>1
<1>3. Holds(t)' /\ name'[t] = OwnName(c)' /\ Len(out[c]) <= sent'[t]
    BY <1>1, <1>2
<1>4. pc'[c] \in {"copy", "ok", "killed"}
    BY DEF IInv, ClientInv, Printed
<1>5. out'[c] = File(t, Len(out'[c])) /\ Len(out'[c]) <= sent'[t]
    BY <1>1, <1>3
<1>6. \E s \in Servers : /\ Holds(s)' /\ name'[s] = OwnName(c)'
                         /\ Len(out'[c]) <= sent'[s] /\ out'[c] = File(s, Len(out'[c]))
    BY <1>3, <1>5
<1>. QED
    BY <1>4, <1>6 DEF Printed, File

\* A server goes on or gives up, and nothing is sent or opened.
LEMMA ServerMoves ==
    ASSUME IInv, NEW s \in Servers, TypeOK', Progress(s)',
           \A q \in Procs : q # s => pc'[q] = pc[q],
           UNCHANGED <<try, name, opened, sent, out, faults>>,
           \A nm : Queued(nm)' => Queued(nm),
           \A i \in DOMAIN sync' : i \in DOMAIN sync /\ sync'[i] = sync[i],
           Holds(s)' => Holds(s) /\ pc[s] # "open", pc'[s] \notin {"open", "copy"},
           \A nm \in Names : fifo'[nm] = fifo[nm] \/ (fifo'[nm] = <<>> /\ ~HasReader(nm))
    PROVE  IInv'
<1>1. /\ \A c \in Clients : pc'[c] = pc[c] /\ c # s
      /\ \A t \in Servers : t # s => pc'[t] = pc[t]
    BY DEF Procs
<1>2. \A nm \in Names : /\ nm.client \in Clients
                        /\ Announced(nm)' <=> Announced(nm)
                        /\ HasReader(nm)' <=> HasReader(nm)
    BY <1>1, SameClients
<1>3. Queue'
  <2>1. /\ DOMAIN sync' \subseteq Nat
        /\ \A i \in DOMAIN sync' : i + 0 \in DOMAIN sync /\ sync'[i] = sync[i + 0]
    <3>1. DOMAIN sync \subseteq Nat
        BY DEF IInv, TypeOK
    <3>2. \A i \in DOMAIN sync' : i \in Nat /\ i + 0 = i
        BY <3>1
    <3>. QED
        BY <3>2
  <2>. QED
      BY <1>2, <2>1, NamesStay DEF IInv
<1>4. ASSUME NEW t \in Servers, Holds(t)'
      PROVE  Holds(t) /\ (pc'[t] = "open" <=> pc[t] = "open")
    BY <1>1, <1>4 DEF Holds
<1>5. ASSUME NEW t \in Servers PROVE Hand(t)'
  <2> SUFFICES ASSUME Holds(t)' PROVE Hand(t)'
      BY DEF Hand
  <2>1. PICK nm : nm = name[t] /\ nm = name'[t]
      OBVIOUS
  <2>2. /\ nm \in Names /\ Announced(nm) /\ ~Queued(nm)
        /\ \A u \in Servers : Holds(u) /\ name[u] = nm => u = t
        /\ nm \in opened <=> pc[t] # "open"
      BY <1>4, <2>1 DEF IInv, ServerInv, Hand
  <2>3. Announced(nm)' /\ ~Queued(nm)'
      BY <1>2, <2>2
  <2>. QED
      BY <1>4, <2>1, <2>2, <2>3 DEF Hand
<1>6. ASSUME NEW t \in Servers PROVE Progress(t)'
  <2>1. CASE t # s
      BY <1>1, <2>1 DEF IInv, ServerInv, Progress
  <2>. QED
      BY <2>1
<1>7. ASSUME NEW t \in Servers PROVE Flow(t)'
  <2> SUFFICES ASSUME Holds(t)', HasReader(name[t])' PROVE Flow(t)'
      BY DEF Flow
  <2>1. PICK nm : nm = name[t] /\ nm = name'[t]
      OBVIOUS
  <2>2. nm \in Names /\ Holds(t) /\ HasReader(nm)'
      BY <1>4, <2>1 DEF IInv, ServerInv, Hand
  <2>3. HasReader(nm) /\ fifo'[nm] = fifo[nm]
      BY <1>2, <2>2
  <2>. QED
      BY <2>1, <2>2, <2>3 DEF IInv, ServerInv, Flow, File
<1>8. ASSUME NEW c \in Clients PROVE Printed(c)'
  <2>1. OwnName(c)' = OwnName(c)
      BY DEF OwnName
  <2>2. \A t \in Servers : sent[t] > 0 => Holds(t)' /\ sent[t] \in Nat
      BY DEF IInv, TypeOK, Holds
  <2>. QED
      BY <1>1, <2>1, <2>2, PrintedStays
<1>9. ASSUME NEW c \in Clients PROVE Reached(c)'
  <2>1. PICK own : own = OwnName(c)
      OBVIOUS
  <2>2. own \in Names /\ OwnName(c)' = own
      BY <2>1 DEF IInv, TypeOK, Names, OwnName
  <2>3. pc[c] = "ok" => fifo'[own] = <<>>
      BY <2>1, <2>2 DEF IInv, ClientInv, Reached
  <2>4. \A t \in Servers : pc'[t] = "copy" => pc[t] = "copy"
      BY <1>1
  <2>. QED
      BY <1>1, <1>4, <2>1, <2>2, <2>3, <2>4 DEF IInv, ClientInv, Reached, File
<1>10. ASSUME NEW nm \in Names PROVE Open(nm)' /\ Filled(nm)'
    BY <1>2 DEF IInv, NameInv, Open, Filled
<1>. QED
    BY <1>3, <1>5, <1>6, <1>7, <1>8, <1>9, <1>10 DEF IInv, ServerInv, ClientInv, NameInv

\* A server opens the sync FIFO.
LEMMA serverOpenSyncIInv == ASSUME IInv, NEW s \in Servers, openSync(s) PROVE IInv'
<1>1. /\ pc[s] = "start" /\ pc'[s] = "readName"
      /\ \A q \in Procs : q # s => pc'[q] = pc[q]
  <2>1. s \in Procs /\ s \notin Clients
      BY DEF Procs
  <2>. QED
      BY <2>1, Moves DEF IInv, openSync, Goto
<1>2. UNCHANGED <<sync, try, name, fifo, opened, sent, out, faults>>
    BY DEF openSync
<1>3. TypeOK'
    BY <1>2 DEF IInv, TypeOK, openSync, Goto, ServerPlaces, ClientPlaces, Procs
<1>4. Progress(s)' /\ ~Holds(s)'
    BY <1>1, <1>2 DEF IInv, TypeOK, ServerInv, Progress, Holds
<1>5. \A nm : Queued(nm)' => Queued(nm)
    BY <1>2 DEF Queued
<1>. QED
    BY <1>1, <1>2, <1>3, <1>4, <1>5, ServerMoves

\* A server without a reader starts again, and the name it had is lost.
LEMMA restartServerIInv == ASSUME IInv, NEW s \in Servers, restartServer(s) PROVE IInv'
<1>1. /\ pc[s] = "open" /\ pc'[s] = "start"
      /\ \A q \in Procs : q # s => pc'[q] = pc[q]
  <2>1. s \in Procs
      BY DEF Procs
  <2>. QED
      BY <2>1, Moves DEF IInv, restartServer, Goto
<1>2. UNCHANGED <<try, name, fifo, opened, sent, out, faults>>
    BY DEF restartServer
<1>3. /\ sync' \in Seq(Names)
      /\ \A nm : Queued(nm)' => Queued(nm)
      /\ \A i \in DOMAIN sync' : i \in DOMAIN sync /\ sync'[i] = sync[i]
    BY Leaving DEF IInv, restartServer
<1>4. TypeOK'
    BY <1>2, <1>3 DEF IInv, TypeOK, restartServer, Goto, ServerPlaces, ClientPlaces, Procs
<1>5. Progress(s)' /\ ~Holds(s)'
    BY <1>1, <1>2 DEF IInv, TypeOK, ServerInv, Progress, Holds
<1>. QED
    BY <1>1, <1>2, <1>3, <1>4, <1>5, ServerMoves

\* However a server ends, its client has what was sent, or goes on to read it.
LEMMA ServerEndsIInv ==
    ASSUME IInv, NEW s \in Servers, NEW how, ServerEnds(s, how), pc[s] \notin Ended,
           \/ how = "killed" /\ faults
           \/ how = "sigpipe" /\ pc[s] = "copy"
           \/ how = "ok" /\ pc[s] = "copy" /\ sent[s] = FileLen[s]
    PROVE  IInv'
<1>1. pc'[s] = how /\ \A q \in Procs : q # s => pc'[q] = pc[q]
  <2>1. s \in Procs
      BY DEF Procs
  <2>. QED
      BY <2>1, Moves DEF IInv, ServerEnds, Goto
<1>2. UNCHANGED <<try, name, opened, sent, out, faults>>
    BY DEF ServerEnds
<1>3. /\ sync' \in Seq(Names)
      /\ \A nm : Queued(nm)' => Queued(nm)
      /\ \A i \in DOMAIN sync' : i \in DOMAIN sync /\ sync'[i] = sync[i]
    BY Leaving DEF IInv, ServerEnds
<1>4. /\ fifo' \in [Names -> Seq(Chunks)]
      /\ \A nm \in Names : fifo'[nm] = fifo[nm] \/ (fifo'[nm] = <<>> /\ ~HasReader(nm))
  <2>1. fifo \in [Names -> Seq(Chunks)] /\ <<>> \in Seq(Chunks)
      BY DEF IInv, TypeOK
  <2>2. CASE fifo' = fifo
      BY <2>1, <2>2
  <2>3. CASE fifo' # fifo
    <3>1. fifo' = [fifo EXCEPT ![name[s]] = <<>>] /\ ~HasReader(name[s])
        BY <2>3 DEF ServerEnds, AfterClosing
    <3>. QED
        BY <2>1, <3>1
  <2>. QED
      BY <2>2, <2>3
<1>5. TypeOK'
  <2>1. how \in ServerPlaces
      BY DEF ServerPlaces, Ended
  <2>. QED
      BY <1>2, <1>3, <1>4, <2>1 DEF IInv, TypeOK, ServerEnds, Goto, Procs
<1>6. Progress(s)'
    BY <1>1, <1>2 DEF IInv, TypeOK, ServerInv, Progress, Ended
<1>7. Holds(s)' => Holds(s) /\ pc[s] # "open"
    BY <1>1, <1>2 DEF IInv, TypeOK, ServerInv, Progress, Holds
<1>8. pc'[s] \notin {"open", "copy"}
    BY <1>1
<1>. QED
    BY <1>1, <1>2, <1>3, <1>4, <1>5, <1>6, <1>7, <1>8, ServerMoves

-----------------------------------------------------------------------------
(* The other steps of a server.                                            *)

\* The name that is read was in no hands, and nobody has printed or sent under it.
LEMMA readNameIInv == ASSUME IInv, NEW s \in Servers, readName(s) PROVE IInv'
<1>1. /\ pc[s] = "readName" /\ pc'[s] = "open"
      /\ \A q \in Procs : q # s => pc'[q] = pc[q]
      /\ \A c \in Clients : pc'[c] = pc[c]
      /\ \A t \in Servers : t # s => pc'[t] = pc[t]
  <2>1. s \in Procs /\ \A c \in Clients : c \in Procs /\ c # s
      BY DEF Procs
  <2>2. \A q \in Servers : q \in Procs
      BY DEF Procs
  <2>. QED
      BY <2>1, <2>2, Moves DEF IInv, readName, Goto
<1>2. UNCHANGED <<try, fifo, opened, sent, out, faults>>
    BY DEF readName
<1>3. PICK nm : nm = Head(sync)
    OBVIOUS
<1>4. /\ nm \in Names /\ Queued(nm) /\ Announced(nm)
      /\ sync' \in Seq(Names) /\ sync' = Tail(sync) /\ sync \in Seq(Names) /\ sync # <<>>
      /\ 1 \in DOMAIN sync /\ sync[1] = nm
    BY <1>3 DEF IInv, TypeOK, Queue, readName, Taken, Queued
<1>5. \A i \in DOMAIN sync' : i + 1 \in DOMAIN sync /\ sync'[i] = sync[i + 1] /\ i + 1 # 1
    BY <1>4
<1>6. /\ name'[s] = nm /\ \A t \in Servers : t # s => name'[t] = name[t]
      /\ name' \in [Servers -> Names \union {NoName}]
    BY <1>3, <1>4 DEF IInv, TypeOK, readName
<1>7. TypeOK'
    BY <1>2, <1>4, <1>6 DEF IInv, TypeOK, readName, Goto, ServerPlaces, Procs
<1>8. /\ \A x : Queued(x)' => Queued(x)
      /\ ~Queued(nm)'
    BY <1>4, <1>5 DEF IInv, Queue, Queued
<1>9. \A x \in Names : /\ x.client \in Clients
                       /\ Announced(x)' <=> Announced(x)
                       /\ HasReader(x)' <=> HasReader(x)
    BY <1>1, <1>2, SameClients
<1>10. Queue'
  <2>1. DOMAIN sync' \subseteq Nat
      BY <1>4
  <2>. QED
      BY <1>5, <1>9, <2>1, NamesStay DEF IInv
<1>11. \A t \in Servers : t # s => (Holds(t)' <=> Holds(t))
    BY <1>1, <1>2 DEF Holds
<1>12. ~Holds(s) /\ Holds(s)' /\ sent[s] = 0
  <2>1. sent[s] \in Nat /\ Progress(s)
      BY DEF IInv, TypeOK, ServerInv
  <2>2. sent[s] = 0
      BY <1>1, <2>1 DEF Progress
  <2>. QED
      BY <1>1, <2>2 DEF Holds
<1>13. /\ nm \notin opened
       /\ \A t \in Servers : Holds(t) => name[t] # nm
    BY <1>4 DEF IInv, ServerInv, NameInv, Hand, Open
<1>14. ASSUME NEW t \in Servers PROVE Hand(t)'
  <2>1. CASE t = s
    <3>1. Announced(nm)' /\ ~Queued(nm)'
        BY <1>4, <1>8, <1>9
    <3>. QED
        BY <1>1, <1>2, <1>4, <1>6, <1>11, <1>13, <2>1, <3>1 DEF Hand
  <2>2. CASE t # s
    <3> SUFFICES ASSUME Holds(t) PROVE Hand(t)'
        BY <1>11, <2>2 DEF Hand
    <3>1. PICK x : x = name[t] /\ x = name'[t]
        BY <1>6, <2>2
    <3>2. /\ x \in Names /\ Announced(x) /\ ~Queued(x)
          /\ \A u \in Servers : Holds(u) /\ name[u] = x => u = t
          /\ x \in opened <=> pc[t] # "open"
        BY <3>1 DEF IInv, ServerInv, Hand
    <3>3. Announced(x)' /\ ~Queued(x)'
        BY <1>8, <1>9, <3>2
    <3>. QED
        BY <1>1, <1>2, <1>6, <1>11, <1>13, <2>2, <3>1, <3>2, <3>3 DEF Hand
  <2>. QED
      BY <2>1, <2>2
<1>15. ASSUME NEW t \in Servers PROVE Progress(t)'
    BY <1>1, <1>2, <1>12 DEF IInv, ServerInv, Progress
<1>16. HasReader(nm) => out[nm.client] = <<>> /\ fifo[nm] = <<>>
  <2> SUFFICES ASSUME HasReader(nm) PROVE out[nm.client] = <<>> /\ fifo[nm] = <<>>
      OBVIOUS
  <2>1. nm = OwnName(nm.client) /\ nm.client \in Clients
      BY <1>4 DEF HasReader, OwnName, Names
  <2>2. out[nm.client] = <<>>
      BY <1>13, <2>1 DEF IInv, ClientInv, Printed
  <2>3. fifo[nm] = <<>>
      BY <1>4, <1>13 DEF IInv, TypeOK, NameInv, Filled, Holds
  <2>. QED
      BY <2>2, <2>3
<1>17. ASSUME NEW t \in Servers PROVE Flow(t)'
  <2> SUFFICES ASSUME Holds(t)', HasReader(name[t])' PROVE Flow(t)'
      BY DEF Flow
  <2>1. PICK x : x = name'[t]
      OBVIOUS
  <2>2. x \in Names /\ HasReader(x)'
      BY <1>14, <2>1 DEF Hand
  <2>3. HasReader(x)
      BY <1>9, <2>2
  <2>4. CASE t = s
    <3>1. x = nm /\ out'[nm.client] = <<>> /\ fifo'[nm] = <<>> /\ sent'[t] = 0
        BY <1>2, <1>6, <1>12, <1>16, <2>1, <2>3, <2>4
    <3>2. <<>> \o <<>> = File(t, 0)
        BY DEF File
    <3>. QED
        BY <2>1, <3>1, <3>2 DEF Flow, File
  <2>5. CASE t # s
      BY <1>2, <1>6, <1>11, <2>1, <2>3, <2>5 DEF IInv, ServerInv, Flow, File
  <2>. QED
      BY <2>4, <2>5
<1>18. ASSUME NEW c \in Clients PROVE Printed(c)'
  <2>1. OwnName(c)' = OwnName(c)
      BY <1>2 DEF OwnName
  <2>2. \A t \in Servers : Holds(t) => Holds(t)' /\ name'[t] = name[t] /\ sent[t] \in Nat
      BY <1>6, <1>11, <1>12 DEF IInv, TypeOK
  <2>. QED
      BY <1>1, <1>2, <2>1, <2>2, PrintedStays
<1>19. ASSUME NEW c \in Clients PROVE Reached(c)'
  <2>1. OwnName(c)' = OwnName(c)
      BY <1>2 DEF OwnName
  <2>2. pc[c] = "ok" => nm # OwnName(c)
      BY <1>13 DEF IInv, ClientInv, Reached
  <2>3. ASSUME pc[c] = "ok", NEW t \in Servers, Holds(t)', name'[t] = OwnName(c)
        PROVE  pc'[t] # "copy" /\ out[c] = File(t, sent[t])
    <3>1. t # s
        BY <1>6, <2>2, <2>3
    <3>. QED
        BY <1>1, <1>6, <1>11, <2>3, <3>1 DEF IInv, ClientInv, Reached
  <2>. QED
      BY <1>1, <1>2, <2>1, <2>3 DEF IInv, ClientInv, Reached, File
<1>20. ASSUME NEW x \in Names PROVE Open(x)' /\ Filled(x)'
  <2>1. Open(x)'
      BY <1>2, <1>8, <1>9 DEF IInv, NameInv, Open
  <2>2. Filled(x)'
      BY <1>2, <1>6, <1>12 DEF IInv, NameInv, Filled
  <2>. QED
      BY <2>1, <2>2
<1>. QED
    BY <1>7, <1>10, <1>14, <1>15, <1>17, <1>18, <1>19, <1>20
       DEF IInv, ServerInv, ClientInv, NameInv

\* A server opens the FIFO of the name it has: no other one can have it open.
LEMMA openFifoIInv == ASSUME IInv, NEW s \in Servers, openFifo(s) PROVE IInv'
<1>1. /\ pc[s] = "open" /\ pc'[s] = "copy"
      /\ \A c \in Clients : pc'[c] = pc[c]
      /\ \A t \in Servers : t # s => pc'[t] = pc[t]
  <2>1. s \in Procs /\ \A c \in Clients : c \in Procs /\ c # s
      BY DEF Procs
  <2>2. \A q \in Servers : q \in Procs
      BY DEF Procs
  <2>. QED
      BY <2>1, <2>2, Moves DEF IInv, openFifo, Goto
<1>2. UNCHANGED <<sync, try, name, fifo, sent, out, faults>>
    BY DEF openFifo
<1>3. PICK nm : nm = name[s]
    OBVIOUS
<1>4. Holds(s) /\ sent[s] = 0
  <2>1. sent[s] \in Nat /\ Progress(s)
      BY DEF IInv, TypeOK, ServerInv
  <2>. QED
      BY <1>1, <2>1 DEF Holds, Progress
<1>5. /\ nm \in Names /\ Announced(nm) /\ ~Queued(nm)
      /\ \A t \in Servers : Holds(t) /\ name[t] = nm => t = s
      /\ nm \notin opened
    BY <1>1, <1>3, <1>4 DEF IInv, ServerInv, Hand
<1>6. opened' = opened \union {nm}
    BY <1>3 DEF openFifo
<1>7. TypeOK'
    BY <1>2, <1>5, <1>6 DEF IInv, TypeOK, openFifo, Goto, ServerPlaces, Procs
<1>8. \A x \in Names : /\ x.client \in Clients
                       /\ Announced(x)' <=> Announced(x)
                       /\ HasReader(x)' <=> HasReader(x)
    BY <1>1, <1>2, SameClients
<1>9. /\ \A t \in Servers : Holds(t)' <=> Holds(t)
      /\ \A x : Queued(x)' <=> Queued(x)
      /\ \A c \in Clients : OwnName(c)' = OwnName(c)
    BY <1>1, <1>2 DEF Holds, Queued, OwnName
<1>10. Queue'
  <2>1. /\ DOMAIN sync' \subseteq Nat
        /\ \A i \in DOMAIN sync' : i + 0 \in DOMAIN sync /\ sync'[i] = sync[i + 0]
      BY <1>2 DEF IInv, TypeOK
  <2>. QED
      BY <1>8, <2>1, NamesStay DEF IInv
<1>11. ASSUME NEW t \in Servers PROVE Hand(t)'
  <2> SUFFICES ASSUME Holds(t) PROVE Hand(t)'
      BY <1>9 DEF Hand
  <2>1. PICK x : x = name[t] /\ x = name'[t]
      BY <1>2
  <2>2. /\ x \in Names /\ Announced(x) /\ ~Queued(x)
        /\ \A u \in Servers : Holds(u) /\ name[u] = x => u = t
        /\ x \in opened <=> pc[t] # "open"
      BY <2>1 DEF IInv, ServerInv, Hand
  <2>3. Announced(x)' /\ ~Queued(x)'
      BY <1>8, <1>9, <2>2
  <2>4. x \in opened' <=> pc'[t] # "open"
      BY <1>1, <1>3, <1>4, <1>6, <2>1, <2>2
  <2>5. \A u \in Servers : Holds(u)' /\ name'[u] = name'[t] => u = t
      BY <1>2, <1>9, <2>1, <2>2
  <2>. QED
      BY <2>1, <2>2, <2>3, <2>4, <2>5 DEF Hand
<1>12. ASSUME NEW t \in Servers PROVE Progress(t)' /\ Flow(t)'
  <2>1. Progress(t)'
      BY <1>1, <1>2, <1>4 DEF IInv, ServerInv, Progress
  <2>2. Flow(t)'
    <3> SUFFICES ASSUME Holds(t), HasReader(name[t])' PROVE Flow(t)'
        BY <1>9 DEF Flow
    <3>1. PICK x : x = name[t] /\ x = name'[t]
        BY <1>2
    <3>2. x \in Names /\ HasReader(x)'
        BY <3>1 DEF IInv, ServerInv, Hand
    <3>3. HasReader(x)
        BY <1>8, <3>2
    <3>. QED
        BY <1>2, <3>1, <3>3 DEF IInv, ServerInv, Flow, File
  <2>. QED
      BY <2>1, <2>2
<1>13. ASSUME NEW c \in Clients PROVE Printed(c)'
  <2>1. \A t \in Servers : sent[t] \in Nat
      BY DEF IInv, TypeOK
  <2>. QED
      BY <1>1, <1>2, <1>9, <2>1, PrintedStays
<1>14. ASSUME NEW c \in Clients PROVE Reached(c)'
  <2>1. pc[c] = "ok" => nm # OwnName(c)
      BY <1>5 DEF IInv, ClientInv, Reached
  <2>2. ASSUME pc[c] = "ok", NEW t \in Servers, Holds(t), name[t] = OwnName(c)
        PROVE  pc'[t] # "copy"
      BY <1>1, <1>3, <2>1, <2>2 DEF IInv, ClientInv, Reached
  <2>. QED
      BY <1>1, <1>2, <1>6, <1>9, <2>2 DEF IInv, ClientInv, Reached, File
<1>15. ASSUME NEW x \in Names PROVE Open(x)' /\ Filled(x)'
    BY <1>2, <1>5, <1>6, <1>8, <1>9 DEF IInv, NameInv, Open, Filled
<1>. QED
    BY <1>7, <1>10, <1>11, <1>12, <1>13, <1>14, <1>15
       DEF IInv, ServerInv, ClientInv, NameInv

\* The next chunk of a file goes behind what was sent of it.
LEMMA NextChunk ==
    ASSUME NEW s \in Servers, NEW k \in Nat, NEW a \in Seq(Chunks), NEW b \in Seq(Chunks),
           a \o b = File(s, k)
    PROVE  a \o Append(b, [from |-> s, chunk |-> k + 1]) = File(s, k + 1)
<1> DEFINE x == [from |-> s, chunk |-> k + 1]
<1>1. x \in Chunks
    BY DEF Chunks
<1>2. a \o Append(b, x) = Append(a \o b, x)
    BY <1>1
<1>3. Append(File(s, k), x) = File(s, k + 1)
    BY DEF File
<1>. QED
    BY <1>2, <1>3

\* A server writes a chunk into a FIFO that has a reader.
LEMMA sendChunkIInv == ASSUME IInv, NEW s \in Servers, sendChunk(s) PROVE IInv'
<1>1. UNCHANGED <<pc, sync, try, name, opened, out, faults>>
    BY DEF sendChunk
<1>2. PICK nm : nm = name[s]
    OBVIOUS
<1>3. /\ pc[s] = "copy" /\ Holds(s) /\ HasReader(nm) /\ Hand(s) /\ Flow(s)
      /\ sent[s] \in Nat /\ FileLen[s] \in Nat /\ sent[s] < FileLen[s]
    BY <1>2 DEF IInv, TypeOK, ServerInv, sendChunk, Holds
<1>4. /\ nm \in Names /\ nm.client \in Clients
      /\ \A t \in Servers : Holds(t) /\ name[t] = nm => t = s
    BY <1>2, <1>3 DEF Hand, Names
<1>5. PICK x : x = [from |-> s, chunk |-> sent[s] + 1]
    OBVIOUS
<1>6. /\ sent' = [sent EXCEPT ![s] = sent[s] + 1] /\ fifo' = [fifo EXCEPT ![nm] = Append(fifo[nm], x)]
      /\ x \in Chunks
    BY <1>2, <1>3, <1>5 DEF sendChunk, Chunks
<1>7. /\ sent' \in [Servers -> Nat] /\ sent'[s] = sent[s] + 1
      /\ \A t \in Servers : t # s => sent'[t] = sent[t]
    BY <1>3, <1>6 DEF IInv, TypeOK
<1>8. /\ fifo' \in [Names -> Seq(Chunks)] /\ fifo'[nm] = Append(fifo[nm], x)
      /\ \A y \in Names : y # nm => fifo'[y] = fifo[y]
  <2>1. fifo \in [Names -> Seq(Chunks)] /\ Append(fifo[nm], x) \in Seq(Chunks)
      BY <1>4, <1>6 DEF IInv, TypeOK
  <2>. QED
      BY <1>4, <1>6, <2>1
<1>9. TypeOK'
    BY <1>1, <1>7, <1>8 DEF IInv, TypeOK
<1>10. /\ \A y \in Names : /\ Announced(y)' <=> Announced(y)
                           /\ HasReader(y)' <=> HasReader(y)
       /\ \A y : Queued(y)' <=> Queued(y)
       /\ \A c \in Clients : OwnName(c)' = OwnName(c)
    BY <1>1, SameClients DEF Queued, OwnName
<1>11. \A t \in Servers : Holds(t)' <=> Holds(t)
    BY <1>1, <1>3, <1>7 DEF Holds
<1>12. Queue'
  <2>1. /\ DOMAIN sync' \subseteq Nat
        /\ \A i \in DOMAIN sync' : i + 0 \in DOMAIN sync /\ sync'[i] = sync[i + 0]
      BY <1>1 DEF IInv, TypeOK
  <2>. QED
      BY <1>10, <2>1, NamesStay DEF IInv
<1>13. ASSUME NEW t \in Servers PROVE Hand(t)'
  <2> SUFFICES ASSUME Holds(t) PROVE Hand(t)'
      BY <1>11 DEF Hand
  <2>1. PICK y : y = name[t] /\ y = name'[t]
      BY <1>1
  <2>2. /\ y \in Names /\ Announced(y) /\ ~Queued(y)
        /\ \A u \in Servers : Holds(u) /\ name[u] = y => u = t
        /\ y \in opened <=> pc[t] # "open"
      BY <2>1 DEF IInv, ServerInv, Hand
  <2>3. Announced(y)' /\ ~Queued(y)'
      BY <1>10, <2>2
  <2>4. \A u \in Servers : Holds(u)' /\ name'[u] = y => u = t
      BY <1>1, <1>11, <2>2
  <2>. QED
      BY <1>1, <2>1, <2>2, <2>3, <2>4 DEF Hand
<1>14. ASSUME NEW t \in Servers PROVE Progress(t)'
    BY <1>1, <1>3, <1>7 DEF IInv, ServerInv, Progress
<1>15. ASSUME NEW t \in Servers PROVE Flow(t)'
  <2> SUFFICES ASSUME Holds(t), HasReader(name[t])' PROVE Flow(t)'
      BY <1>11 DEF Flow
  <2>1. PICK y : y = name[t] /\ y = name'[t]
      BY <1>1
  <2>2. y \in Names /\ HasReader(y)'
      BY <2>1 DEF IInv, ServerInv, Hand
  <2>3. HasReader(y)
      BY <1>10, <2>2
  <2>4. CASE t = s
    <3>1. out[nm.client] \in Seq(Chunks) /\ fifo[nm] \in Seq(Chunks)
        BY <1>4 DEF IInv, TypeOK
    <3>2. out[nm.client] \o fifo[nm] = File(s, sent[s])
        BY <1>2, <1>3 DEF Flow
    <3>3. out[nm.client] \o Append(fifo[nm], x) = File(s, sent[s] + 1)
        BY <1>3, <1>5, <3>1, <3>2, NextChunk
    <3>4. out'[name'[t].client] \o fifo'[name'[t]] = File(t, sent'[t])
        BY <1>1, <1>2, <1>7, <1>8, <2>4, <3>3
    <3>. QED
        BY <3>4 DEF Flow, File
  <2>5. CASE t # s
    <3>1. y # nm
        BY <1>4, <2>1, <2>5
    <3>2. out[y.client] \o fifo[y] = File(t, sent[t])
        BY <2>1, <2>3 DEF IInv, ServerInv, Flow
    <3>3. out'[name'[t].client] \o fifo'[name'[t]] = File(t, sent'[t])
        BY <1>1, <1>7, <1>8, <2>1, <2>2, <2>5, <3>1, <3>2
    <3>. QED
        BY <3>3 DEF Flow, File
  <2>. QED
      BY <2>4, <2>5
<1>16. ASSUME NEW c \in Clients PROVE Printed(c)'
  <2>1. \A t \in Servers : sent[t] \in Nat /\ sent'[t] \in Nat /\ sent[t] <= sent'[t]
    <3>1. \A t \in Servers : sent[t] \in Nat
        BY DEF IInv, TypeOK
    <3>2. sent[s] <= sent[s] + 1 /\ sent[s] + 1 \in Nat
        BY <1>3
    <3>3. \A t \in Servers : sent'[t] = IF t = s THEN sent[s] + 1 ELSE sent[t]
        BY <1>7
    <3>. QED
        BY <3>1, <3>2, <3>3
  <2>. QED
      BY <1>1, <1>10, <1>11, <2>1, PrintedStays
<1>17. ASSUME NEW c \in Clients PROVE Reached(c)'
  <2>1. PICK own : own = OwnName(c) /\ own = OwnName(c)'
      BY <1>10
  <2>2. pc[c] = "ok" => own # nm
      BY <1>2, <1>3, <2>1 DEF IInv, ClientInv, Reached
  <2>3. own \in Names
      BY <2>1 DEF IInv, TypeOK, Names, OwnName
  <2>4. ASSUME pc[c] = "ok", NEW t \in Servers, Holds(t), name[t] = own
        PROVE  pc[t] # "copy" /\ out[c] = File(t, sent'[t])
    <3>1. t # s
        BY <1>2, <2>2, <2>4
    <3>2. Reached(c)
        BY DEF IInv, ClientInv
    <3>. QED
        BY <1>7, <2>1, <2>4, <3>1, <3>2 DEF Reached
  <2>5. pc[c] = "ok" => fifo'[own] = <<>>
      BY <1>8, <2>1, <2>2, <2>3 DEF IInv, ClientInv, Reached
  <2>6. Reached(c)
      BY DEF IInv, ClientInv
  <2>7. pc'[c] = "ok" => \A t \in Servers : Holds(t)' /\ name'[t] = OwnName(c)' =>
                             pc'[t] # "copy" /\ out'[c] = File(t, sent'[t])
      BY <1>1, <1>11, <2>1, <2>4
  <2>. QED
      BY <1>1, <2>1, <2>5, <2>6, <2>7 DEF Reached, File
<1>18. ASSUME NEW y \in Names PROVE Open(y)' /\ Filled(y)'
  <2>1. Open(y)'
      BY <1>1, <1>10 DEF IInv, NameInv, Open
  <2>2. \A t \in Servers : sent[t] > 0 => sent'[t] > 0
      BY <1>3, <1>7
  <2>3. CASE y = nm
      BY <1>1, <1>2, <1>3, <1>7, <2>1, <2>3 DEF Filled
  <2>4. CASE y # nm
      BY <1>1, <1>8, <2>1, <2>2, <2>4 DEF IInv, NameInv, Filled
  <2>. QED
      BY <2>1, <2>3, <2>4
<1>. QED
    BY <1>9, <1>12, <1>13, <1>14, <1>15, <1>16, <1>17, <1>18
       DEF IInv, ServerInv, ClientInv, NameInv

-----------------------------------------------------------------------------
(* The steps of a client.                                                  *)

\* A client goes to another place, and prints nothing.
LEMMA ClientMoves ==
    ASSUME IInv, NEW c \in Clients, TypeOK', Queue', Printed(c)', Reached(c)',
           \A q \in Procs : q # c => pc'[q] = pc[q],
           \A d \in Clients : d # c => try'[d] = try[d],
           UNCHANGED <<name, opened, sent, out, faults>>,
           \A nm \in Names : Announced(nm) =>
               Announced(nm)' /\ (HasReader(nm)' => HasReader(nm))
                   /\ (Queued(nm)' => Queued(nm)),
           \A nm \in Names : fifo'[nm] = fifo[nm] \/ (fifo'[nm] = <<>> /\ ~HasReader(nm)')
    PROVE  IInv'
<1>1. /\ \A s \in Servers : pc'[s] = pc[s] /\ s # c
      /\ \A d \in Clients : d # c => pc'[d] = pc[d]
    BY DEF Procs
<1>2. \A s \in Servers : Holds(s)' <=> Holds(s)
    BY <1>1 DEF Holds
<1>3. ASSUME NEW s \in Servers, Holds(s)
      PROVE  /\ name[s] \in Names /\ Announced(name[s]) /\ ~Queued(name[s])
             /\ \A t \in Servers : Holds(t) /\ name[t] = name[s] => t = s
             /\ name[s] \in opened <=> pc[s] # "open"
    BY <1>3 DEF IInv, ServerInv, Hand
<1>4. ASSUME NEW s \in Servers PROVE Hand(s)'
  <2> SUFFICES ASSUME Holds(s) PROVE Hand(s)'
      BY <1>2 DEF Hand
  <2>1. PICK nm : nm = name[s] /\ nm = name'[s]
      OBVIOUS
  <2>2. Announced(nm)' /\ ~Queued(nm)'
      BY <1>3, <2>1
  <2>3. \A t \in Servers : Holds(t)' /\ name'[t] = nm => t = s
      BY <1>2, <1>3, <2>1
  <2>. QED
      BY <1>1, <1>3, <2>1, <2>2, <2>3 DEF Hand
<1>5. ASSUME NEW s \in Servers PROVE Progress(s)'
    BY <1>1 DEF IInv, ServerInv, Progress
<1>6. ASSUME NEW s \in Servers PROVE Flow(s)'
  <2> SUFFICES ASSUME Holds(s), HasReader(name[s])' PROVE Flow(s)'
      BY <1>2 DEF Flow
  <2>1. PICK nm : nm = name[s] /\ nm = name'[s]
      OBVIOUS
  <2>2. nm \in Names /\ HasReader(nm)' /\ HasReader(nm)
      BY <1>3, <2>1
  <2>3. fifo'[nm] = fifo[nm]
      BY <2>2
  <2>. QED
      BY <2>1, <2>2, <2>3 DEF IInv, ServerInv, Flow, File
<1>7. ASSUME NEW d \in Clients PROVE Printed(d)'
  <2>1. CASE d = c
      BY <2>1
  <2>2. CASE d # c
    <3>1. OwnName(d)' = OwnName(d)
        BY <2>2 DEF OwnName
    <3>2. \A s \in Servers : sent[s] \in Nat
        BY DEF IInv, TypeOK
    <3>. QED
        BY <1>1, <1>2, <2>2, <3>1, <3>2, PrintedStays
  <2>. QED
      BY <2>1, <2>2
<1>8. ASSUME NEW d \in Clients PROVE Reached(d)'
  <2>1. CASE d = c
      BY <2>1
  <2>2. CASE d # c
    <3>1. PICK own : own = OwnName(d) /\ own = OwnName(d)'
        BY <2>2 DEF OwnName
    <3>2. own \in Names
        BY <3>1 DEF IInv, TypeOK, Names, OwnName
    <3>3. Reached(d) /\ pc'[d] = pc[d] /\ try'[d] = try[d]
        BY <1>1, <2>2 DEF IInv, ClientInv
    <3>4. pc[d] = "ok" => fifo'[own] = <<>>
        BY <3>1, <3>2, <3>3 DEF Reached
    <3>. QED
        BY <1>1, <1>2, <3>1, <3>3, <3>4 DEF Reached, File
  <2>. QED
      BY <2>1, <2>2
<1>9. ASSUME NEW nm \in Names PROVE Open(nm)' /\ Filled(nm)'
    BY DEF IInv, NameInv, Open, Filled
<1>. QED
    BY <1>4, <1>5, <1>6, <1>7, <1>8, <1>9 DEF IInv, ServerInv, ClientInv, NameInv

\* A step of a client changes nothing about the names of others.
LEMMA OthersNames ==
    ASSUME NEW c \in Clients, NEW nm \in Names, nm.client # c,
           \A q \in Procs : q # c => pc'[q] = pc[q],
           \A d \in Clients : d # c => try'[d] = try[d]
    PROVE  /\ Announced(nm)' <=> Announced(nm)
           /\ HasReader(nm)' <=> HasReader(nm)
<1>1. nm.client \in Clients /\ nm.client \in Procs
    BY DEF Names, Procs
<1>. QED
    BY <1>1 DEF Announced, HasReader

\* The names of a client.
LEMMA OwnNames ==
    ASSUME TypeOK, NEW c \in Clients
    PROVE  /\ OwnName(c) \in Names /\ OwnName(c).client = c /\ OwnName(c).try = try[c]
           /\ try[c] \in 0 .. MaxTimeouts
           /\ \A nm \in Names : nm.client = c => nm.try \in Int /\ (nm.try = try[c] => nm = OwnName(c))
    BY DEF TypeOK, Names, OwnName

\* A client opens the sync FIFO; its new name is nowhere yet.
LEMMA clientOpenSyncIInv == ASSUME IInv, NEW c \in Clients, openSync(c) PROVE IInv'
<1>1. /\ pc[c] = "start" /\ pc'[c] = "announce"
      /\ \A q \in Procs : q # c => pc'[q] = pc[q]
  <2>1. c \in Procs
      BY DEF Procs
  <2>. QED
      BY <2>1, Moves DEF IInv, openSync, Goto
<1>2. UNCHANGED <<sync, try, name, fifo, opened, sent, out, faults>>
    BY DEF openSync
<1>3. TypeOK'
    BY <1>2 DEF IInv, TypeOK, openSync, Goto, ClientPlaces, ServerPlaces, Procs
<1>4. Printed(c)' /\ Reached(c)'
    BY <1>1, <1>2 DEF IInv, ClientInv, Printed, Reached
<1>5. ASSUME NEW nm \in Names, Announced(nm)
      PROVE  Announced(nm)' /\ (HasReader(nm)' => HasReader(nm)) /\ (Queued(nm)' => Queued(nm))
  <2>1. Queued(nm)' => Queued(nm)
      BY <1>2 DEF Queued
  <2>2. CASE nm.client # c
      BY <1>1, <1>2, <1>5, <2>1, <2>2, OthersNames
  <2>3. CASE nm.client = c
    <3>1. nm.try \in Int /\ try[c] \in Int /\ nm.try < try[c]
        BY <1>1, <1>5, <2>3, OwnNames DEF IInv, Announced
    <3>. QED
        BY <1>2, <2>1, <2>3, <3>1 DEF Announced, HasReader
  <2>. QED
      BY <2>2, <2>3
<1>6. Queue'
  <2>1. /\ DOMAIN sync' \subseteq Nat
        /\ \A i \in DOMAIN sync' : i + 0 \in DOMAIN sync /\ sync'[i] = sync[i + 0]
      BY <1>2 DEF IInv, TypeOK
  <2>. QED
      BY <1>5, <2>1, NamesStay DEF IInv
<1>. QED
    BY <1>1, <1>2, <1>3, <1>4, <1>5, <1>6, ClientMoves

\* A client's new name goes into the sync FIFO, where it is for the first time.
LEMMA announceIInv == ASSUME IInv, NEW c \in Clients, announce(c) PROVE IInv'
<1>1. /\ pc[c] = "announce" /\ pc'[c] = "poll"
      /\ \A q \in Procs : q # c => pc'[q] = pc[q]
  <2>1. c \in Procs
      BY DEF Procs
  <2>. QED
      BY <2>1, Moves DEF IInv, announce, Goto
<1>2. UNCHANGED <<try, name, fifo, opened, sent, out, faults>>
    BY DEF announce
<1>3. PICK own : own = OwnName(c)
    OBVIOUS
<1>4. own \in Names /\ own.client = c /\ own.try = try[c] /\ try[c] \in Int /\ ~Announced(own)
  <2>1. own \in Names /\ own.client = c /\ own.try = try[c] /\ try[c] \in Int
      BY <1>3, OwnNames DEF IInv
  <2>. QED
      BY <1>1, <2>1 DEF Announced
<1>5. /\ sync \in Seq(Names) /\ sync' = Append(sync, own) /\ sync' \in Seq(Names)
      /\ DOMAIN sync' = DOMAIN sync \union {Len(sync) + 1}
      /\ \A i \in DOMAIN sync : sync'[i] = sync[i] /\ i # Len(sync) + 1
      /\ sync'[Len(sync) + 1] = own
    BY <1>3, <1>4 DEF IInv, TypeOK, announce
<1>6. TypeOK'
    BY <1>2, <1>5 DEF IInv, TypeOK, announce, Goto, ClientPlaces, ServerPlaces, Procs
<1>7. Printed(c)' /\ Reached(c)'
    BY <1>1, <1>2 DEF IInv, ClientInv, Printed, Reached
<1>8. Announced(own)'
    BY <1>1, <1>2, <1>4 DEF Announced
<1>9. ASSUME NEW nm \in Names, Announced(nm)
      PROVE  Announced(nm)' /\ (HasReader(nm)' => HasReader(nm)) /\ (Queued(nm)' => Queued(nm))
  <2>1. Queued(nm)' => Queued(nm)
      BY <1>4, <1>5, <1>9 DEF Queued
  <2>2. CASE nm.client # c
      BY <1>1, <1>2, <1>9, <2>1, <2>2, OthersNames
  <2>3. CASE nm.client = c
      BY <1>1, <1>2, <1>9, <2>1, <2>3 DEF Announced, HasReader
  <2>. QED
      BY <2>2, <2>3
<1>10. Queue'
  <2>1. (\A i \in DOMAIN sync : Announced(sync[i]))'
    <3> SUFFICES ASSUME NEW i \in DOMAIN sync' PROVE Announced(sync[i])'
        OBVIOUS
    <3>1. PICK nm : nm = sync'[i]
        OBVIOUS
    <3>2. CASE nm = own
        BY <1>8, <3>1, <3>2 DEF Announced
    <3>3. CASE nm # own
      <4>1. i \in DOMAIN sync /\ nm = sync[i]
          BY <1>5, <3>1, <3>3
      <4>2. nm \in Names /\ Announced(nm)
          BY <1>5, <4>1 DEF IInv, Queue
      <4>3. Announced(nm)'
          BY <1>9, <4>2
      <4>. QED
          BY <3>1, <4>3 DEF Announced
    <3>. QED
        BY <3>2, <3>3
  <2>2. \A i \in DOMAIN sync : sync[i] # own
      BY <1>4 DEF IInv, Queue
  <2>3. \A i, j \in DOMAIN sync' : sync'[i] = sync'[j] => i = j
      BY <1>5, <2>2 DEF IInv, Queue
  <2>. QED
      BY <2>1, <2>3 DEF Queue
<1>. QED
    BY <1>1, <1>2, <1>6, <1>7, <1>9, <1>10, ClientMoves

\* A client that goes on, without leaving the sync FIFO.
LEMMA ClientGoes ==
    ASSUME IInv, NEW c \in Clients, NEW l \in {"copy", "restart"}, pc[c] = "poll", Goto(c, l),
           UNCHANGED <<sync, try, name, fifo, opened, sent, out, faults>>, Reached(c)'
    PROVE  IInv'
<1>1. pc'[c] = l /\ \A q \in Procs : q # c => pc'[q] = pc[q]
  <2>1. c \in Procs
      BY DEF Procs
  <2>. QED
      BY <2>1, Moves DEF IInv, Goto
<1>2. TypeOK'
    BY DEF IInv, TypeOK, Goto, ClientPlaces, ServerPlaces, Procs
<1>3. Printed(c)'
    BY DEF IInv, ClientInv, Printed
<1>4. ASSUME NEW nm \in Names, Announced(nm)
      PROVE  Announced(nm)' /\ (HasReader(nm)' => HasReader(nm)) /\ (Queued(nm)' => Queued(nm))
  <2>1. Queued(nm)' => Queued(nm)
      BY DEF Queued
  <2>2. CASE nm.client # c
      BY <1>1, <1>4, <2>1, <2>2, OthersNames
  <2>3. CASE nm.client = c
      BY <1>1, <1>4, <2>1, <2>3 DEF Announced, HasReader
  <2>. QED
      BY <2>2, <2>3
<1>5. Queue'
  <2>1. /\ DOMAIN sync' \subseteq Nat
        /\ \A i \in DOMAIN sync' : i + 0 \in DOMAIN sync /\ sync'[i] = sync[i + 0]
      BY DEF IInv, TypeOK
  <2>. QED
      BY <1>4, <2>1, NamesStay DEF IInv
<1>. QED
    BY <1>1, <1>2, <1>3, <1>4, <1>5, ClientMoves

\* A client begins to read once a server has opened its FIFO.
LEMMA pollReadyIInv == ASSUME IInv, NEW c \in Clients, pollReady(c) PROVE IInv'
<1>1. PICK own : own = OwnName(c)
    OBVIOUS
<1>2. own \in Names
    BY <1>1, OwnNames DEF IInv
<1>3. own \in opened
  <2>1. CASE own \in opened
      BY <2>1
  <2>2. CASE fifo[own] # <<>>
    <3>1. PICK s \in Servers : sent[s] > 0 /\ name[s] = own
        BY <1>2, <2>2 DEF IInv, NameInv, Filled
    <3>2. Holds(s) /\ pc[s] # "open"
        BY <3>1 DEF IInv, ServerInv, Progress, Holds
    <3>. QED
        BY <3>1, <3>2 DEF IInv, ServerInv, Hand
  <2>. QED
      BY <1>1, <2>1, <2>2 DEF pollReady, Readable
<1>4. pc'[c] = "copy"
    BY DEF IInv, TypeOK, pollReady, Goto, Procs
<1>5. Reached(c)'
    BY <1>1, <1>3, <1>4 DEF pollReady, Reached, OwnName
<1>. QED
    BY <1>5, ClientGoes DEF pollReady

\* A client whose poll() times out has printed nothing.
LEMMA pollTimeoutIInv == ASSUME IInv, NEW c \in Clients, pollTimeout(c) PROVE IInv'
<1>1. pc'[c] = "restart"
    BY DEF IInv, TypeOK, pollTimeout, Goto, Procs
<1>2. Reached(c)'
    BY <1>1 DEF pollTimeout, Reached
<1>. QED
    BY <1>2, ClientGoes DEF pollTimeout

\* The names left in the sync FIFO when a process closes it are as before.
LEMMA LeavingStays ==
    ASSUME TypeOK, Queue, NEW p, LeavesSync(p),
           \A nm \in Names : Announced(nm) => Announced(nm)'
    PROVE  Queue'
<1>1. \A i \in DOMAIN sync' : i \in DOMAIN sync /\ sync'[i] = sync[i]
    BY Leaving
<1>2. DOMAIN sync \subseteq Nat
    BY DEF TypeOK
<1>3. /\ DOMAIN sync' \subseteq Nat
      /\ \A i \in DOMAIN sync' : i + 0 \in DOMAIN sync /\ sync'[i] = sync[i + 0]
  <2>1. \A i \in DOMAIN sync' : i \in Nat /\ i + 0 = i
      BY <1>1, <1>2
  <2>. QED
      BY <1>1, <2>1
<1>. QED
    BY <1>3, NamesStay

\* What a FIFO holds stays or is lost with its last user.
LEMMA Closing ==
    ASSUME TypeOK, NEW nm \in Names, NEW otherEnd, fifo' = AfterClosing(nm, otherEnd)
    PROVE  /\ fifo' \in [Names -> Seq(Chunks)]
           /\ \A x \in Names : x # nm => fifo'[x] = fifo[x]
           /\ fifo'[nm] = fifo[nm] \/ fifo'[nm] = <<>>
<1>1. fifo \in [Names -> Seq(Chunks)] /\ <<>> \in Seq(Chunks)
    BY DEF TypeOK
<1>2. CASE fifo' = fifo
    BY <1>1, <1>2
<1>3. CASE fifo' = [fifo EXCEPT ![nm] = <<>>]
    BY <1>1, <1>3
<1>. QED
    BY <1>2, <1>3 DEF AfterClosing

\* A client that starts again makes a name that was never announced.
LEMMA restartClientIInv == ASSUME IInv, NEW c \in Clients, restartClient(c) PROVE IInv'
<1>1. /\ pc[c] = "restart" /\ pc'[c] = "start"
      /\ \A q \in Procs : q # c => pc'[q] = pc[q]
  <2>1. c \in Procs
      BY DEF Procs
  <2>. QED
      BY <2>1, Moves DEF IInv, restartClient, Goto
<1>2. UNCHANGED <<name, opened, sent, out, faults>>
    BY DEF restartClient
<1>3. PICK own : own = OwnName(c)
    OBVIOUS
<1>4. own \in Names /\ own.client = c /\ own.try = try[c] /\ try[c] \in 0 .. MaxTimeouts
    BY <1>3, OwnNames DEF IInv
<1>5. try[c] < MaxTimeouts
    BY <1>1 DEF IInv, ClientInv, Reached
<1>6. /\ try' \in [Clients -> 0 .. MaxTimeouts] /\ try'[c] = try[c] + 1
      /\ \A d \in Clients : d # c => try'[d] = try[d]
  <2>1. try[c] + 1 \in 0 .. MaxTimeouts
      BY <1>4, <1>5
  <2>. QED
      BY <2>1 DEF IInv, TypeOK, restartClient, NewFifo
<1>7. /\ fifo' \in [Names -> Seq(Chunks)]
      /\ \A nm \in Names : nm # own => fifo'[nm] = fifo[nm]
      /\ fifo'[own] = fifo[own] \/ fifo'[own] = <<>>
    BY <1>3, <1>4, Closing DEF IInv, restartClient
<1>8. sync' \in Seq(Names) /\ \A nm : Queued(nm)' => Queued(nm)
    BY Leaving DEF IInv, restartClient
<1>9. TypeOK'
    BY <1>2, <1>6, <1>7, <1>8
       DEF IInv, TypeOK, restartClient, Goto, ClientPlaces, ServerPlaces, Procs
<1>10. Printed(c)' /\ Reached(c)'
    BY <1>1, <1>2 DEF IInv, ClientInv, Printed, Reached
<1>11. ASSUME NEW nm \in Names, Announced(nm)
       PROVE  Announced(nm)' /\ (HasReader(nm)' => HasReader(nm)) /\ (Queued(nm)' => Queued(nm))
  <2>1. CASE nm.client # c
      BY <1>1, <1>6, <1>8, <1>11, <2>1, OthersNames
  <2>2. CASE nm.client = c
    <3>1. nm.try \in Int /\ nm.try <= try[c] /\ try[c] \in Int
        BY <1>4, <1>11, <2>2, OwnNames DEF IInv, Announced
    <3>2. Announced(nm)'
        BY <1>6, <2>2, <3>1 DEF Announced
    <3>3. ~HasReader(nm)'
        BY <1>1, <2>2 DEF HasReader
    <3>. QED
        BY <1>8, <3>2, <3>3
  <2>. QED
      BY <2>1, <2>2
<1>12. Queue'
    BY <1>11, LeavingStays DEF IInv, restartClient
<1>13. ASSUME NEW nm \in Names
       PROVE  fifo'[nm] = fifo[nm] \/ (fifo'[nm] = <<>> /\ ~HasReader(nm)')
  <2>1. CASE nm = own
      BY <1>1, <1>4, <1>7, <2>1 DEF HasReader
  <2>. QED
      BY <1>7, <2>1
<1>. QED
    BY <1>1, <1>2, <1>6, <1>9, <1>10, <1>11, <1>12, <1>13, ClientMoves

\* A client that ends, by success only behind the last of what was sent to it.
LEMMA ClientEndsIInv ==
    ASSUME IInv, NEW c \in Clients, NEW how, ClientEnds(c, how), pc[c] \notin Ended,
           \/ how = "killed" /\ faults
           \/ how = "ok" /\ pc[c] = "copy" /\ AtEnd(OwnName(c))
    PROVE  IInv'
<1>1. pc'[c] = how /\ \A q \in Procs : q # c => pc'[q] = pc[q]
  <2>1. c \in Procs
      BY DEF Procs
  <2>. QED
      BY <2>1, Moves DEF IInv, ClientEnds, Goto
<1>2. UNCHANGED <<try, name, opened, sent, out, faults>>
    BY DEF ClientEnds
<1>3. PICK own : own = OwnName(c) /\ own = OwnName(c)'
    BY <1>2 DEF OwnName
<1>4. own \in Names /\ own.client = c /\ own.try = try[c] /\ try[c] \in 0 .. MaxTimeouts
    BY <1>3, OwnNames DEF IInv
<1>5. /\ fifo' \in [Names -> Seq(Chunks)]
      /\ \A nm \in Names : nm # own => fifo'[nm] = fifo[nm]
      /\ fifo'[own] = fifo[own] \/ fifo'[own] = <<>>
    BY <1>3, <1>4, Closing DEF IInv, ClientEnds
<1>6. sync' \in Seq(Names) /\ \A nm : Queued(nm)' => Queued(nm)
    BY Leaving DEF IInv, ClientEnds
<1>7. TypeOK'
  <2>1. how \in ClientPlaces
      BY DEF ClientPlaces
  <2>. QED
      BY <1>2, <1>5, <1>6, <2>1
         DEF IInv, TypeOK, ClientEnds, Goto, Procs
<1>8. Printed(c)'
  <2>1. \A s \in Servers : s \in Procs /\ s # c /\ sent[s] \in Nat
      BY DEF IInv, TypeOK, Procs
  <2>2. \A s \in Servers : Holds(s)' <=> Holds(s)
      BY <1>1, <1>2, <2>1 DEF Holds
  <2>3. pc'[c] \in {"copy", "ok", "killed"}
      BY <1>1
  <2>4. OwnName(c)' = OwnName(c)
      BY <1>3
  <2>5. \A s \in Servers : Holds(s) /\ sent[s] > 0 =>
            Holds(s)' /\ name'[s] = name[s] /\ sent'[s] \in Nat /\ sent[s] <= sent'[s]
      BY <1>2, <2>1, <2>2
  <2>. QED
      BY <1>2, <2>3, <2>4, <2>5, PrintedStays
<1>9. Reached(c)'
  <2>1. CASE how = "killed"
      BY <1>1, <1>2, <2>1 DEF Reached
  <2>2. CASE how = "ok"
    <3>1. pc[c] = "copy" /\ fifo[own] = <<>> /\ ~HasWriter(own)
        BY <1>3, <2>2 DEF AtEnd
    <3>2. own \in opened /\ fifo'[own] = <<>>
        BY <1>3, <1>5, <3>1 DEF IInv, ClientInv, Reached
    <3>3. HasReader(own)
        BY <1>4, <3>1 DEF HasReader
    <3>4. ASSUME NEW s \in Servers, Holds(s), name[s] = own
          PROVE  pc'[s] # "copy" /\ out[c] = File(s, sent[s])
      <4>1. s \in Procs /\ s # c /\ pc[s] # "copy"
          BY <3>1, <3>4 DEF HasWriter, Procs
      <4>2. out[c] \o <<>> = File(s, sent[s])
          BY <1>4, <3>1, <3>3, <3>4 DEF IInv, ServerInv, Flow
      <4>3. out[c] \in Seq(Chunks)
          BY DEF IInv, TypeOK
      <4>. QED
          BY <1>1, <4>1, <4>2, <4>3
    <3>5. \A s \in Servers : Holds(s)' => Holds(s)
        BY <1>1, <1>2 DEF Holds, Procs
    <3>. QED
        BY <1>1, <1>2, <1>3, <2>2, <3>2, <3>4, <3>5 DEF Reached, File
  <2>. QED
      BY <2>1, <2>2
<1>10. ASSUME NEW nm \in Names, Announced(nm)
       PROVE  Announced(nm)' /\ (HasReader(nm)' => HasReader(nm)) /\ (Queued(nm)' => Queued(nm))
  <2>1. CASE nm.client # c
      BY <1>1, <1>2, <1>6, <1>10, <2>1, OthersNames
  <2>2. CASE nm.client = c
      BY <1>1, <1>2, <1>6, <1>10, <2>2 DEF Announced, HasReader
  <2>. QED
      BY <2>1, <2>2
<1>11. Queue'
    BY <1>10, LeavingStays DEF IInv, ClientEnds
<1>12. ASSUME NEW nm \in Names
       PROVE  fifo'[nm] = fifo[nm] \/ (fifo'[nm] = <<>> /\ ~HasReader(nm)')
  <2>1. CASE nm = own
      BY <1>1, <1>4, <1>5, <2>1 DEF HasReader
  <2>. QED
      BY <1>5, <2>1
<1>. QED
    BY <1>1, <1>2, <1>7, <1>8, <1>9, <1>10, <1>11, <1>12, ClientMoves

\* A beginning of what was sent of a file is a beginning of the file.
LEMMA Beginning ==
    ASSUME NEW s, NEW k \in Nat, NEW a \in Seq(Chunks), NEW b \in Seq(Chunks),
           a \o b = File(s, k)
    PROVE  Len(a) <= k /\ a = File(s, Len(a))
<1>1. /\ Len(a \o b) = Len(a) + Len(b) /\ Len(a) \in Nat /\ Len(b) \in Nat
      /\ DOMAIN a = 1 .. Len(a)
      /\ \A i \in 1 .. Len(a) : (a \o b)[i] = a[i]
    OBVIOUS
<1>2. Len(File(s, k)) = k
    BY DEF File
<1>3. \A i \in 1 .. k : File(s, k)[i] = [from |-> s, chunk |-> i]
    BY DEF File
<1>4. Len(a) <= k
    BY <1>1, <1>2
<1>5. \A i \in 1 .. Len(a) : a[i] = [from |-> s, chunk |-> i]
  <2> SUFFICES ASSUME NEW i \in 1 .. Len(a) PROVE a[i] = [from |-> s, chunk |-> i]
      OBVIOUS
  <2>1. i \in 1 .. k
      BY <1>1, <1>4
  <2>2. (a \o b)[i] = a[i]
      BY <1>1
  <2>. QED
      BY <1>3, <2>1, <2>2
<1>6. a = [i \in 1 .. Len(a) |-> a[i]]
    BY <1>1
<1>. QED
    BY <1>4, <1>5, <1>6 DEF File

\* A chunk that is printed is no longer in the FIFO.
LEMMA OneOver ==
    ASSUME NEW a \in Seq(Chunks), NEW b \in Seq(Chunks), b # <<>>
    PROVE  Append(a, Head(b)) \o Tail(b) = a \o b
<1>1. Head(b) \in Chunks /\ Tail(b) \in Seq(Chunks) /\ <<Head(b)>> \in Seq(Chunks)
    OBVIOUS
<1>2. Append(a, Head(b)) = a \o <<Head(b)>>
    BY <1>1
<1>3. <<Head(b)>> \o Tail(b) = b
    BY <1>1
<1>4. (a \o <<Head(b)>>) \o Tail(b) = a \o (<<Head(b)>> \o Tail(b))
    BY <1>1
<1>. QED
    BY <1>2, <1>3, <1>4

\* A client prints the next chunk of what its FIFO holds.
LEMMA copyChunkIInv == ASSUME IInv, NEW c \in Clients, copyChunk(c) PROVE IInv'
<1>1. UNCHANGED <<pc, sync, try, name, opened, sent, faults>>
    BY DEF copyChunk
<1>2. PICK own : own = OwnName(c)
    OBVIOUS
<1>3. /\ own \in Names /\ own.client = c /\ own.try = try[c]
      /\ \A nm \in Names : HasReader(nm) /\ nm.client = c => nm = own
    BY <1>2, OwnNames DEF IInv, HasReader
<1>4. pc[c] = "copy" /\ fifo[own] # <<>> /\ HasReader(own)
    BY <1>2, <1>3 DEF copyChunk, HasReader
<1>5. out[c] \in Seq(Chunks) /\ fifo[own] \in Seq(Chunks)
    BY <1>3 DEF IInv, TypeOK
<1>6. /\ out' = [out EXCEPT ![c] = Append(out[c], Head(fifo[own]))]
      /\ fifo' = [fifo EXCEPT ![own] = Tail(fifo[own])]
    BY <1>2 DEF copyChunk
<1>7. Append(out[c], Head(fifo[own])) \in Seq(Chunks) /\ Tail(fifo[own]) \in Seq(Chunks)
    BY <1>4, <1>5
<1>8. /\ out' \in [Clients -> Seq(Chunks)]
      /\ out'[c] = Append(out[c], Head(fifo[own]))
      /\ \A d \in Clients : d # c => out'[d] = out[d]
    BY <1>6, <1>7 DEF IInv, TypeOK
<1>9. /\ fifo' \in [Names -> Seq(Chunks)]
      /\ fifo'[own] = Tail(fifo[own])
      /\ \A nm \in Names : nm # own => fifo'[nm] = fifo[nm]
    BY <1>3, <1>6, <1>7 DEF IInv, TypeOK
<1>10. TypeOK'
    BY <1>1, <1>8, <1>9 DEF IInv, TypeOK
<1>11. /\ \A nm \in Names : /\ nm.client \in Clients
                            /\ Announced(nm)' <=> Announced(nm)
                            /\ HasReader(nm)' <=> HasReader(nm)
       /\ \A nm : Queued(nm)' <=> Queued(nm)
       /\ \A d \in Clients : OwnName(d)' = OwnName(d)
       /\ \A s \in Servers : Holds(s)' <=> Holds(s)
    BY <1>1, SameClients DEF Queued, OwnName, Holds
<1>12. Queue'
  <2>1. /\ DOMAIN sync' \subseteq Nat
        /\ \A i \in DOMAIN sync' : i + 0 \in DOMAIN sync /\ sync'[i] = sync[i + 0]
      BY <1>1 DEF IInv, TypeOK
  <2>. QED
      BY <1>11, <2>1, NamesStay DEF IInv
<1>13. ASSUME NEW s \in Servers PROVE Hand(s)' /\ Progress(s)'
  <2>1. Progress(s)'
      BY <1>1 DEF IInv, ServerInv, Progress
  <2>2. Hand(s)'
    <3> SUFFICES ASSUME Holds(s) PROVE Hand(s)'
        BY <1>11 DEF Hand
    <3>1. PICK nm : nm = name[s] /\ nm = name'[s]
        BY <1>1
    <3>2. /\ nm \in Names /\ Announced(nm) /\ ~Queued(nm)
          /\ \A t \in Servers : Holds(t) /\ name[t] = nm => t = s
          /\ nm \in opened <=> pc[s] # "open"
        BY <3>1 DEF IInv, ServerInv, Hand
    <3>3. Announced(nm)' /\ ~Queued(nm)'
        BY <1>11, <3>2
    <3>4. \A t \in Servers : Holds(t)' /\ name'[t] = nm => t = s
        BY <1>1, <1>11, <3>2
    <3>. QED
        BY <1>1, <3>1, <3>2, <3>3, <3>4 DEF Hand
  <2>. QED
      BY <2>1, <2>2
\* What is printed and what is left make up the same as before.
<1>14. out'[c] \o fifo'[own] = out[c] \o fifo[own]
    BY <1>4, <1>5, <1>8, <1>9, OneOver
<1>15. ASSUME NEW s \in Servers PROVE Flow(s)'
  <2> SUFFICES ASSUME Holds(s), HasReader(name[s])' PROVE Flow(s)'
      BY <1>11 DEF Flow
  <2>1. PICK nm : nm = name[s] /\ nm = name'[s]
      BY <1>1
  <2>2. nm \in Names /\ HasReader(nm) /\ nm.client \in Clients
      BY <1>11, <2>1 DEF IInv, ServerInv, Hand
  <2>3. out[nm.client] \o fifo[nm] = File(s, sent[s])
      BY <2>1, <2>2 DEF IInv, ServerInv, Flow
  <2>4. out'[nm.client] \o fifo'[nm] = out[nm.client] \o fifo[nm]
    <3>1. CASE nm.client = c
        BY <1>3, <1>14, <2>2, <3>1
    <3>2. CASE nm.client # c
        BY <1>3, <1>8, <1>9, <2>2, <3>2
    <3>. QED
        BY <3>1, <3>2
  <2>5. out'[name'[s].client] \o fifo'[name'[s]] = File(s, sent'[s])
      BY <1>1, <2>1, <2>3, <2>4
  <2>. QED
      BY <2>5 DEF Flow, File
<1>16. ASSUME NEW d \in Clients PROVE Printed(d)'
  <2>1. CASE d # c
    <3>1. \A s \in Servers : sent[s] \in Nat
        BY DEF IInv, TypeOK
    <3>. QED
        BY <1>1, <1>8, <1>11, <2>1, <3>1, PrintedStays
  <2>2. CASE d = c
    <3>1. PICK s \in Servers : sent[s] > 0 /\ name[s] = own
        BY <1>3, <1>4 DEF IInv, NameInv, Filled
    <3>2. Holds(s) /\ sent[s] \in Nat
        BY <3>1 DEF IInv, TypeOK, Holds
    <3>3. out[c] \o fifo[own] = File(s, sent[s])
        BY <1>3, <1>4, <3>1, <3>2 DEF IInv, ServerInv, Flow
    <3>4. Len(out'[c]) <= sent[s] /\ out'[c] = File(s, Len(out'[c]))
      <4>1. PICK a, b : a = out'[c] /\ b = fifo'[own]
          OBVIOUS
      <4>2. a \in Seq(Chunks) /\ b \in Seq(Chunks) /\ a \o b = File(s, sent[s])
          BY <1>3, <1>8, <1>9, <1>14, <3>3, <4>1
      <4>. QED
          BY <3>2, <4>1, <4>2, Beginning
    <3>5. \E t \in Servers : /\ Holds(t)' /\ name'[t] = OwnName(c)'
                             /\ Len(out'[c]) <= sent'[t] /\ out'[c] = File(t, Len(out'[c]))
        BY <1>1, <1>2, <1>11, <3>1, <3>2, <3>4
    <3>. QED
        BY <1>1, <1>4, <2>2, <3>5 DEF Printed, File
  <2>. QED
      BY <2>1, <2>2
<1>17. ASSUME NEW d \in Clients PROVE Reached(d)'
  <2>1. Reached(d) /\ OwnName(d)' = OwnName(d) /\ OwnName(d) \in Names /\ OwnName(d).client = d
      BY <1>11, OwnNames DEF IInv, ClientInv
  <2>2. pc[d] = "ok" => d # c /\ OwnName(d) # own
      BY <1>3, <1>4, <2>1
  <2>3. pc[d] = "ok" => out'[d] = out[d] /\ fifo'[OwnName(d)] = fifo[OwnName(d)]
      BY <1>8, <1>9, <2>1, <2>2
  <2>4. PICK nm : nm = OwnName(d) /\ nm = OwnName(d)'
      BY <2>1
  <2>. QED
      BY <1>1, <1>11, <2>1, <2>3, <2>4 DEF Reached, File
<1>18. ASSUME NEW nm \in Names PROVE Open(nm)' /\ Filled(nm)'
  <2>1. Open(nm)'
      BY <1>1, <1>11 DEF IInv, NameInv, Open
  <2>2. fifo'[nm] # <<>> => fifo[nm] # <<>>
      BY <1>4, <1>9
  <2>. QED
      BY <1>1, <2>1, <2>2 DEF IInv, NameInv, Filled
<1>. QED
    BY <1>10, <1>12, <1>13, <1>15, <1>16, <1>17, <1>18 DEF IInv, ServerInv, ClientInv, NameInv

-----------------------------------------------------------------------------
(* Every behaviour.                                                        *)

\* At the start nobody has a name, and nothing was sent.
LEMMA InitIInv == Init => IInv
<1> SUFFICES ASSUME Init PROVE IInv
    OBVIOUS
<1>1. TypeOK
  <2>1. <<>> \in Seq(Names) /\ <<>> \in Seq(Chunks) /\ 0 \in 0 .. MaxTimeouts
      OBVIOUS
  <2>. QED
      BY <2>1 DEF Init, TypeOK, NoName, ServerPlaces, ClientPlaces, Procs
<1>2. Queue
    BY DEF Init, Queue
<1>3. \A s \in Servers : ~Holds(s) /\ pc[s] = "start" /\ sent[s] = 0 /\ FileLen[s] \in Nat
    BY DEF Init, Holds, Procs
<1>4. \A c \in Clients : pc[c] = "start" /\ out[c] = <<>>
    BY DEF Init, Procs
<1>5. ServerInv
  <2> SUFFICES ASSUME NEW s \in Servers PROVE Hand(s) /\ Progress(s) /\ Flow(s)
      BY DEF ServerInv
  <2>1. Hand(s) /\ Flow(s)
      BY <1>3 DEF Hand, Flow
  <2>2. 0 <= FileLen[s]
      BY <1>3
  <2>. QED
      BY <1>3, <2>1, <2>2 DEF Progress
<1>6. ClientInv
    BY <1>4 DEF ClientInv, Printed, Reached
<1>7. NameInv
    BY DEF Init, NameInv, Open, Filled
<1>. QED
    BY <1>1, <1>2, <1>5, <1>6, <1>7 DEF IInv

\* Every step keeps the invariant.
LEMMA NextIInv == IInv /\ [Next]_vars => IInv'
<1> SUFFICES ASSUME IInv, [Next]_vars PROVE IInv'
    OBVIOUS
<1>1. ASSUME NEW s \in Servers, server(s) PROVE IInv'
  <2>1. ASSUME readerHasDied(s) PROVE IInv'
      BY <2>1, ServerEndsIInv DEF readerHasDied, Ended
  <2>2. ASSUME serverEof(s) PROVE IInv'
      BY <2>2, ServerEndsIInv DEF serverEof, Ended
  <2>. QED
      BY <1>1, <2>1, <2>2, serverOpenSyncIInv, readNameIInv, openFifoIInv, restartServerIInv,
         sendChunkIInv DEF server
<1>2. ASSUME NEW s \in Servers, serverKilled(s) PROVE IInv'
    BY <1>2, ServerEndsIInv DEF serverKilled
<1>3. ASSUME NEW c \in Clients, client(c) PROVE IInv'
  <2>1. ASSUME clientEof(c) PROVE IInv'
      BY <2>1, ClientEndsIInv DEF clientEof, Ended
  <2>. QED
      BY <1>3, <2>1, clientOpenSyncIInv, announceIInv, pollReadyIInv, restartClientIInv,
         copyChunkIInv DEF client
<1>4. ASSUME NEW c \in Clients, pollTimeout(c) \/ clientKilled(c) PROVE IInv'
  <2>1. ASSUME clientKilled(c) PROVE IInv'
      BY <2>1, ClientEndsIInv DEF clientKilled
  <2>. QED
      BY <1>4, <2>1, pollTimeoutIInv
<1>5. ASSUME UNCHANGED vars PROVE IInv'
  <2>1. TypeOK' /\ Queue'
      BY <1>5 DEF vars, IInv, TypeOK, Queue, Announced
  <2>2. ServerInv'
    <3> SUFFICES ASSUME NEW s \in Servers PROVE Hand(s)' /\ Progress(s)' /\ Flow(s)'
        BY DEF ServerInv
    <3>1. Hand(s) /\ Progress(s) /\ Flow(s)
        BY DEF IInv, ServerInv
    <3>2. Hand(s)'
        BY <1>5, <3>1 DEF vars, Hand, Holds, Announced, Queued
    <3>3. Progress(s)'
        BY <1>5, <3>1 DEF vars, Progress
    <3>4. Flow(s)'
        BY <1>5, <3>1 DEF vars, Flow, Holds, HasReader, File
    <3>. QED
        BY <3>2, <3>3, <3>4
  <2>3. ClientInv'
    <3> SUFFICES ASSUME NEW c \in Clients PROVE Printed(c)' /\ Reached(c)'
        BY DEF ClientInv
    <3>1. \A s \in Servers : Holds(s)' <=> Holds(s)
        BY <1>5 DEF vars, Holds
    <3>2. OwnName(c)' = OwnName(c) /\ \A s \in Servers : sent[s] \in Nat
        BY <1>5 DEF vars, IInv, TypeOK, OwnName
    <3>3. Printed(c)'
        BY <1>5, <3>1, <3>2, PrintedStays DEF vars
    <3>4. Reached(c)
        BY DEF IInv, ClientInv
    <3>5. Reached(c)'
        BY <1>5, <3>1, <3>2, <3>4 DEF vars, Reached, File
    <3>. QED
        BY <3>3, <3>5
  <2>4. NameInv'
      BY <1>5 DEF vars, IInv, NameInv, Open, Filled, Announced, Queued
  <2>. QED
      BY <2>1, <2>2, <2>3, <2>4 DEF IInv
<1>. QED
    BY <1>1, <1>2, <1>3, <1>4, <1>5 DEF Next

\* The inductive invariant holds in every reachable state of send/, for any
\* numbers of servers and clients, files, FIFO sizes and timeouts.
THEOREM Invariance == Spec => []IInv
<1>1. Init => IInv
    BY InitIInv
<1>2. IInv /\ [Next]_vars => IInv'
    BY NextIInv
<1>. QED
    BY <1>1, <1>2, PTL DEF Spec

\* Two servers never have the same FIFO open: a name in the sync FIFO is read
\* by one of them (src/send/server.c).
THEOREM FifosHaveOneWriter == Spec => []OneWriter
<1>1. IInv => OneWriter
    BY DEF IInv, ServerInv, Hand, Holds, OneWriter
<1>. QED
    BY <1>1, Invariance, PTL

\* A client prints the beginning of one server's file, and no two clients print
\* of the same server, whoever times out, restarts or dies.
THEOREM FilesReachOneClient == Spec => []OneToOne
<1>1. IInv => OneToOne
  <2> SUFFICES ASSUME IInv PROVE OneToOne
      OBVIOUS
  <2>1. ASSUME NEW c \in Clients, out[c] # <<>>
        PROVE  \E s \in Servers : /\ Holds(s) /\ name[s] = OwnName(c)
                                  /\ out[c] = File(s, Len(out[c])) /\ out[c][1].from = s
    <3>1. PICK s \in Servers : /\ Holds(s) /\ name[s] = OwnName(c)
                               /\ out[c] = File(s, Len(out[c]))
        BY <2>1 DEF IInv, ClientInv, Printed
    <3>2. PICK k : k = Len(out[c])
        OBVIOUS
    <3>3. k \in Nat /\ 1 \in 1 .. k
        BY <2>1, <3>2 DEF IInv, TypeOK
    <3>4. out[c][1] = [from |-> s, chunk |-> 1]
        BY <3>1, <3>2, <3>3 DEF File
    <3>. QED
        BY <3>1, <3>4
  <2>2. \A c \in Clients : out[c] # <<>> => \E s \in Servers : out[c] = File(s, Len(out[c]))
      BY <2>1
  <2>3. ASSUME NEW c \in Clients, NEW d \in Clients, c # d, out[c] # <<>>, out[d] # <<>>
        PROVE  out[c][1].from # out[d][1].from
    <3>1. OwnName(c) # OwnName(d)
        BY <2>3 DEF OwnName
    <3>. QED
        BY <2>1, <2>3, <3>1
  <2>. QED
      BY <2>2, <2>3 DEF OneToOne, File
<1>. QED
    BY <1>1, Invariance, PTL

\* The file of a server that succeeds is printed or on its way to a client that
\* reads on, unless that client has timed out before (or something is killed).
THEOREM SuccessReachesClient == Spec => []SuccessArrives
<1>1. IInv => SuccessArrives
  <2> SUFFICES ASSUME IInv, NEW s \in Servers, ~faults, pc[s] = "ok"
               PROVE  \/ Len(out[name[s].client] \o fifo[name[s]]) = FileLen[s]
                      \/ pc[name[s].client] = "restart" \/ try[name[s].client] > name[s].try
      BY DEF SuccessArrives
  <2>1. PICK nm, c : nm = name[s] /\ c = name[s].client
      OBVIOUS
  <2>2. Holds(s) /\ sent[s] = FileLen[s] /\ sent[s] \in Nat
      BY DEF IInv, TypeOK, ServerInv, Progress, Holds
  <2>3. nm \in Names /\ Announced(nm)
      BY <2>1, <2>2 DEF IInv, ServerInv, Hand
  <2>4. c \in Clients /\ nm.client = c /\ nm.try \in Int /\ try[c] \in Int
      BY <2>1, <2>3 DEF Names, IInv, TypeOK
  <2>5. CASE nm.try # try[c]
      BY <2>1, <2>3, <2>4, <2>5 DEF Announced
  <2>6. CASE nm.try = try[c]
    <3>1. pc[c] \in {"poll", "restart", "copy", "ok"}
        BY <2>3, <2>4, <2>6 DEF IInv, TypeOK, ClientPlaces, ClientInv, Reached, Announced
    <3>2. nm = OwnName(c)
        BY <2>3, <2>4, <2>6, OwnNames DEF IInv
    <3>3. Len(File(s, sent[s])) = FileLen[s]
        BY <2>2 DEF File
    <3>4. CASE pc[c] \in {"poll", "copy"}
      <4>1. HasReader(nm)
          BY <2>4, <2>6, <3>4 DEF HasReader
      <4>2. out[c] \o fifo[nm] = File(s, sent[s])
          BY <2>1, <2>2, <4>1 DEF IInv, ServerInv, Flow
      <4>. QED
          BY <2>1, <3>3, <4>2
    <3>5. CASE pc[c] = "ok"
      <4>1. out[c] = File(s, sent[s]) /\ fifo[nm] = <<>>
          BY <2>1, <2>2, <2>4, <3>2, <3>5 DEF IInv, ClientInv, Reached
      <4>2. out[c] \o <<>> = out[c]
          BY <2>4 DEF IInv, TypeOK
      <4>. QED
          BY <2>1, <3>3, <4>1, <4>2
    <3>6. CASE pc[c] = "restart"
        BY <2>1, <3>6
    <3>. QED
        BY <3>1, <3>4, <3>5, <3>6
  <2>. QED
      BY <2>5, <2>6
<1>. QED
    BY <1>1, Invariance, PTL
=============================================================================
