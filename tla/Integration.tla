---------------------------- MODULE Integration ----------------------------
(***************************************************************************)
(* parallelworkloads/network: clients that have an integral computed by    *)
(* the servers they find.                                                  *)
(*                                                                         *)
(* TrapezoidServer.cpp and NetworkServer.c: a server locks its host, opens *)
(* its sockets, measures its throughput, and only then starts the thread   *)
(* that answers broadcasts.  It takes one connection at a time, receives a *)
(* request within a second or gives up, integrates, answers and closes.    *)
(* NetworkClient.c, ClientSend(): a client broadcasts and collects answers *)
(* for a while, connects to every worker found, gives each a share of the  *)
(* interval by its throughput, sends and receives in one thread for each,  *)
(* and adds up the answers if all have come.                               *)
(*                                                                         *)
(* An interval is the set of its steps, and so is the answer for it.       *)
(* Packets are small: a send or a receive is whole or nothing.             *)
(***************************************************************************)
EXTENDS Integers, Sequences, FiniteSets, FiniteSetsExt

CONSTANTS
    Clients, Workers,  \* a worker is a host: the lock leaves it one server
    reach,       \* the workers each client's broadcast reaches
    throughput,  \* of each worker, from its benchmark
    N,           \* steps of the integral
    Total,       \* total_timeout_ns, in units of the clock
    Micro,       \* units in a microsecond
    QueueCount,  \* connections a server keeps waiting
    Serving,     \* the workers whose servers have been started before
    MaxStarts,   \* bound: servers started, or started again, from then on
    None

ASSUME ConstAssumption ==
    /\ reach \in [Clients -> SUBSET Workers]
    /\ throughput \in [Workers -> Nat \ {0}]
    /\ IsFiniteSet(Clients) /\ IsFiniteSet(Workers)
    /\ N \in Nat /\ Total \in Nat /\ Micro \in Nat \ {0} /\ QueueCount \in Nat
    /\ Serving \subseteq Workers /\ MaxStarts \in Nat

VARIABLES
    client,  \* each client: what its main thread does next (at), timeout_ns (left),
             \* the time since the broadcast (elapsed), the workers found, its
             \* connections, and the counter of the loop it is in (k)
    con,     \* each connection: its ends (mine, theirs), what has been sent on it and
             \* not received (request, response), its thread and what that received
    server,  \* each worker: what its server does next (at), the connections that
             \* wait for accept(), the one accepted, its request, and the
             \* throughput to announce (props)
    asked,   \* requests in the discovery sockets of the servers
    told,    \* responses in the discovery sockets of the clients
    starts

vars == <<client, con, server, asked, told, starts>>

\* Every connection has a number in its client.
Conns == Clients \X (1 .. Cardinality(Workers))

Interval == 0 .. N - 1

ASSUME NoneAssumption == None \notin Conns /\ \A S \in SUBSET Interval : None # S

At(c, place)  == client[c].at = place
Count(c)      == Len(client[c].conns)
Of(c)         == 1 .. Count(c)
Worker(c, i)  == client[c].conns[i]

-----------------------------------------------------------------------------
(* The shares of a client's connections.                                   *)

\* The loops add up from the first connection on.
AddUp(f, k) == LET sum[i \in 0 .. k] == IF i = 0 THEN 0 ELSE sum[i - 1] + f[i] IN sum[k]

\* total_throughput
Throughput(c) == AddUp([i \in Of(c) |-> Worker(c, i).props], Count(c))

\* this_n, but for the last connection: whole steps.
Steps(c, i) == (Worker(c, i).props * N) \div Throughput(c)

\* used_n before connection i is reached.
Used(c, i) == AddUp([j \in Of(c) |-> Steps(c, j)], i - 1)

\* A mistake: the last connection gets its share and not the rest.
ShareAlone(c, i) == Used(c, i) .. Used(c, i) + Steps(c, i) - 1

Share(c, i) ==
    Used(c, i) .. (IF i = Count(c) THEN N ELSE Used(c, i) + Steps(c, i)) - 1

-----------------------------------------------------------------------------
(* The start of a server: main() of TrapezoidServer.cpp.                   *)

\* A client can connect from listen() on, and its broadcast is received, but
\* not yet answered, once the discovery socket is bound.
Listens(w) == server[w].at # "down"
Hears(w)   == server[w].at \notin {"down", "listening"}

\* A mistake: the discovery thread is started before the benchmark.
AnswersEarly(w) == Hears(w)

\* StartDiscoveryService(): the first thing ServerLoop() does.
Answers(w) == Hears(w) /\ server[w].at # "benchmark"

\* AcquireFlock() and listen().  A second server on the host ends here.
ServerListen(w) ==
    /\ ~Listens(w) /\ starts < MaxStarts
    /\ starts' = starts + 1
    /\ server' = [server EXCEPT ![w].at = "listening"]
    /\ UNCHANGED <<client, con, asked, told>>

ServerStartDiscovery(w) ==
    /\ server[w].at = "listening"
    /\ server' = [server EXCEPT ![w].at = "benchmark"]
    /\ UNCHANGED <<client, con, asked, told, starts>>

RunBenchmark(w) ==
    /\ server[w].at = "benchmark"
    /\ server' = [server EXCEPT ![w].at = "accept", ![w].props = throughput[w]]
    /\ UNCHANGED <<client, con, asked, told, starts>>

\* The discovery thread, next to the server's main loop.
ServerProcessDiscoveryRequest(w, c) ==
    /\ Answers(w) /\ <<c, w>> \in asked
    /\ asked' = asked \ {<<c, w>>}
    /\ told' = told \cup {[to |-> c, at |-> w, props |-> server[w].props]}
    /\ UNCHANGED <<client, con, server, starts>>

-----------------------------------------------------------------------------
(* GetWorkersForSocket(): the timeout is set in whole microseconds, and    *)
(* zero stands for no timeout at all.                                      *)

NotYet(c) == At(c, "discover") /\ client[c].left > 0
Wait(c)   == (client[c].left \div Micro) * Micro

\* Some of the servers in reach get the request.
broadcast(c) ==
    /\ At(c, "broadcast")
    /\ client' = [client EXCEPT ![c].at = "discover"]
    /\ \E heard \in SUBSET {w \in reach[c] : Hears(w)} : asked' = asked \cup ({c} \X heard)
    /\ UNCHANGED <<con, server, told, starts>>

broadcastFails(c) ==
    /\ At(c, "broadcast")
    /\ client' = [client EXCEPT ![c].at = "failed"]
    /\ UNCHANGED <<con, server, asked, told, starts>>

\* A response in time.  It stays, for a copy of it may come too.
discovered(c, d) ==
    /\ NotYet(c) /\ d.to = c
    /\ \E e \in 0 .. (IF Wait(c) = 0 THEN Total ELSE Wait(c)) :
          LET elapsed == Min({client[c].elapsed + e, Total})
          IN  client' = [client EXCEPT
                 ![c].elapsed = elapsed,
                 ![c].left = Max({@ - elapsed, 0}),
                 ![c].workers = IF \E j \in DOMAIN @ : @[j].at = d.at THEN @
                                ELSE Append(@, [at |-> d.at, props |-> d.props])]
    /\ UNCHANGED <<con, server, asked, told, starts>>

discoveryTimeout(c) ==
    /\ NotYet(c) /\ Wait(c) > 0
    /\ client' = [client EXCEPT ![c].left = 0]
    /\ UNCHANGED <<con, server, asked, told, starts>>

\* What comes after the discovery socket is closed is lost.
CloseDiscovery(c) ==
    /\ asked' = {r \in asked : r[1] # c}
    /\ told' = {d \in told : d.to # c}

endDiscovery(c) ==
    /\ At(c, "discover") /\ client[c].left = 0
    /\ client' = [client EXCEPT ![c].elapsed = 0,
                     ![c].at = IF client[c].workers = <<>> THEN "failed" ELSE "connect"]
    /\ CloseDiscovery(c)
    /\ UNCHANGED <<con, server, starts>>

-----------------------------------------------------------------------------
(* ClientSend().                                                           *)

connect(c) ==
    /\ At(c, "connect") /\ client[c].k <= Len(client[c].workers)
    /\ LET w  == client[c].workers[client[c].k]
           id == <<c, Count(c) + 1>>
       IN  /\ Listens(w.at) /\ Len(server[w.at].backlog) < QueueCount
           /\ client' = [client EXCEPT ![c].conns = Append(@, w), ![c].k = @ + 1]
           /\ con' = [con EXCEPT ![id].mine = "open", ![id].theirs = "waiting"]
           /\ server' = [server EXCEPT ![w.at].backlog = Append(@, id)]
    /\ UNCHANGED <<asked, told, starts>>

\* The server is down or busy, or the network fails: the next worker.
connectFails(c) ==
    /\ At(c, "connect") /\ client[c].k <= Len(client[c].workers)
    /\ client' = [client EXCEPT ![c].k = @ + 1]
    /\ UNCHANGED <<con, server, asked, told, starts>>

endConnect(c) ==
    /\ At(c, "connect") /\ client[c].k > Len(client[c].workers)
    /\ client' = [client EXCEPT ![c].k = 1, ![c].workers = <<>>,
                     ![c].at = IF Of(c) = {} THEN "failed" ELSE "create"]
    /\ UNCHANGED <<con, server, asked, told, starts>>

\* pthread_create() may fail; the others are created all the same.  The join
\* passes over a thread that was not created.
create(c) ==
    /\ At(c, "create") /\ client[c].k \in Of(c)
    /\ \E t \in {"send", "error"} : con' = [con EXCEPT ![<<c, client[c].k>>].thread = t]
    /\ client' = [client EXCEPT ![c].k = @ + 1]
    /\ UNCHANGED <<server, asked, told, starts>>

\* close() of all connections; what is in them is lost, and the answers stay
\* only for a result.
CloseAll(c, result) ==
    con' = [id \in Conns |->
        IF id[1] # c \/ con[id].mine # "open" THEN con[id]
        ELSE [con[id] EXCEPT !.mine = "closed", !.response = None,
                             !.thread = IF result = "ok" THEN con[id].thread ELSE "none",
                             !.answer = IF result = "ok" THEN con[id].answer ELSE None]]

\* pthread_join() of all threads, the sum, and close().
join(c) ==
    /\ At(c, "create") /\ client[c].k \notin Of(c)
    /\ \A i \in Of(c) : con[c, i].thread \in {"answered", "error"}
    /\ LET result == IF \A i \in Of(c) : con[c, i].thread = "answered" THEN "ok" ELSE "failed"
       IN  /\ client' = [client EXCEPT ![c].at = result, ![c].k = 1]
           /\ CloseAll(c, result)
    /\ UNCHANGED <<server, asked, told, starts>>

-----------------------------------------------------------------------------
(* SendAndRecieve(), in a thread of its own.                               *)

Runs(id, place) == con[id].thread = place

\* What is sent after the server has closed is lost, and it depends on what
\* has come back from it whether send() fails.
sendRequest(id) ==
    /\ Runs(id, "send")
    /\ \/ /\ con[id].theirs # "closed"
          /\ con' = [con EXCEPT ![id].request = Share(id[1], id[2]), ![id].thread = "recv"]
       \/ /\ con[id].theirs = "closed"
          /\ \E t \in {"recv", "error"} : con' = [con EXCEPT ![id].thread = t]
    /\ UNCHANGED <<client, server, asked, told, starts>>

recvResponse(id) ==
    /\ Runs(id, "recv") /\ con[id].response # None
    /\ con' = [con EXCEPT ![id].answer = con[id].response, ![id].response = None,
                          ![id].thread = "answered"]
    /\ UNCHANGED <<client, server, asked, told, starts>>

\* A mistake: the client's sockets have no timeout, only the server ends the wait.
SilentClosed(id) == con[id].response = None /\ con[id].theirs = "closed"

\* The server has closed without an answer, or sixty seconds have passed.
Silent(id) == con[id].response = None

recvFails(id) ==
    /\ Runs(id, "recv") /\ Silent(id)
    /\ con' = [con EXCEPT ![id].thread = "error"]
    /\ UNCHANGED <<client, server, asked, told, starts>>

-----------------------------------------------------------------------------
(* ServerLoop().                                                           *)

Sock(w) == server[w].sock

accept(w) ==
    /\ server[w].at = "accept" /\ server[w].backlog # <<>>
    /\ server' = [server EXCEPT ![w].sock = Head(server[w].backlog),
                                ![w].backlog = Tail(@), ![w].at = "receive"]
    /\ con' = [con EXCEPT ![Head(server[w].backlog)].theirs = "accepted"]
    /\ UNCHANGED <<client, asked, told, starts>>

receive(w) ==
    /\ server[w].at = "receive" /\ con[Sock(w)].request # None
    /\ server' = [server EXCEPT ![w].ireq = con[Sock(w)].request, ![w].at = "integrate"]
    /\ con' = [con EXCEPT ![Sock(w)].request = None]
    /\ UNCHANGED <<client, asked, told, starts>>

\* A mistake: ServerRecieve() does not close the connection when it fails.
CloseNot(w, response) ==
    /\ server' = [server EXCEPT ![w].at = "accept", ![w].sock = None, ![w].ireq = None]
    /\ con' = IF response = None THEN con
              ELSE [con EXCEPT ![Sock(w)].theirs = "closed", ![Sock(w)].response = response]

\* close() of the connection, with or without an answer: on with the next one.
Close(w, response) ==
    /\ server' = [server EXCEPT ![w].at = "accept", ![w].sock = None, ![w].ireq = None]
    /\ con' = [con EXCEPT ![Sock(w)].theirs = "closed", ![Sock(w)].response = response]

\* A second has passed, or the client has closed.
receiveFails(w) ==
    /\ server[w].at = "receive" /\ con[Sock(w)].request = None
    /\ Close(w, None)
    /\ UNCHANGED <<client, asked, told, starts>>

integrate(w) ==
    /\ server[w].at = "integrate"
    /\ server' = [server EXCEPT ![w].at = "respond"]
    /\ UNCHANGED <<client, con, asked, told, starts>>

\* An answer to a client that has gone is lost.
respond(w) ==
    /\ server[w].at = "respond"
    /\ Close(w, IF con[Sock(w)].mine = "open" THEN server[w].ireq ELSE None)
    /\ UNCHANGED <<client, asked, told, starts>>

Down == [at |-> "down", backlog |-> <<>>, sock |-> None, ireq |-> None, props |-> 0]

\* The end of a server closes its sockets, connections that wait too, and
\* with the lock file it unlocks its host.
Exit(w) ==
    LET its == {Sock(w)} \union {server[w].backlog[x] : x \in DOMAIN server[w].backlog}
    IN  /\ server' = [server EXCEPT ![w] = Down]
        /\ con' = [id \in Conns |->
              IF id \in its THEN [con[id] EXCEPT !.theirs = "closed", !.request = None]
              ELSE con[id]]
        /\ asked' = {r \in asked : r[2] # w}
        /\ UNCHANGED <<client, told, starts>>

\* "FATAL": a socket cannot be bound, or scheduleIntegrate() cannot create its
\* threads, in the benchmark or later.
fatal(w) == server[w].at \in {"listening", "benchmark", "integrate"} /\ Exit(w)

serverKilled(w) == Listens(w) /\ Exit(w)

clientKilled(c) ==
    /\ client[c].at \in {"broadcast", "discover", "connect", "create"}
    /\ client' = [client EXCEPT ![c].at = "killed", ![c].left = 0, ![c].elapsed = 0,
                                ![c].workers = <<>>, ![c].k = 1]
    /\ CloseDiscovery(c) /\ CloseAll(c, "killed")
    /\ UNCHANGED <<server, starts>>

-----------------------------------------------------------------------------
ClientSend(c) ==
    \/ broadcast(c) \/ broadcastFails(c) \/ discoveryTimeout(c) \/ endDiscovery(c)
    \/ connectFails(c) \/ endConnect(c) \/ create(c) \/ join(c)

SendAndRecieve(id) == sendRequest(id) \/ recvResponse(id) \/ recvFails(id)

ServerLoop(w) == accept(w) \/ receive(w) \/ receiveFails(w) \/ respond(w)

Serves(w) == [Down EXCEPT !.at = "accept", !.props = throughput[w]]

Init ==
    /\ client = [c \in Clients |-> [at |-> "broadcast", left |-> Total, elapsed |-> 0,
                                    workers |-> <<>>, conns |-> <<>>, k |-> 1]]
    /\ con = [id \in Conns |-> [mine |-> "none", theirs |-> "none", thread |-> "none",
                                request |-> None, response |-> None, answer |-> None]]
    /\ server = [w \in Workers |-> IF w \in Serving THEN Serves(w) ELSE Down]
    /\ asked = {} /\ told = {} /\ starts = 0

Next ==
    \/ \E c \in Clients :
          \/ ClientSend(c) \/ connect(c) \/ clientKilled(c)
          \/ \E d \in told : discovered(c, d)
    \/ \E id \in Conns : SendAndRecieve(id)
    \/ \E w \in Workers :
          \/ ServerListen(w) \/ ServerStartDiscovery(w) \/ RunBenchmark(w)
          \/ \E c \in Clients : ServerProcessDiscoveryRequest(w, c)
          \/ ServerLoop(w) \/ integrate(w) \/ fatal(w) \/ serverKilled(w)

Spec == Init /\ [][Next]_vars

\* Every thread is scheduled and timeouts pass.  An integral or a benchmark may
\* take forever, and no response need come.
Fairness ==
    /\ \A c \in Clients : WF_vars(ClientSend(c))
    /\ \A id \in Conns : WF_vars(SendAndRecieve(id))
    /\ \A w \in Workers : WF_vars(ServerLoop(w))

FairSpec == Spec /\ Fairness

-----------------------------------------------------------------------------
Returned(c) == client[c].at \in {"ok", "failed", "killed"}

\* ClientSend() succeeds only with an answer for every step of the interval,
\* no step twice and none that was not asked for (n - used_n is not below zero):
\* shares, matching of answers to requests, and all or nothing.
RightAnswer ==
    \A c \in Clients : At(c, "ok") =>
        /\ \A i \in Of(c) : con[c, i].answer \subseteq Interval
        /\ \A x \in Interval : Cardinality({i \in Of(c) : x \in con[c, i].answer}) = 1

\* A client divides the work by throughputs that were measured: a server that
\* is found has finished its benchmark, also when it was started again since.
SharesAreMeasured ==
    \A c \in Clients, i \in 1 .. Cardinality(Workers) :
        i \in Of(c) => Worker(c, i).props = throughput[Worker(c, i).at]

\* A server has the connection it serves and no other, and a client that has
\* returned has none: every path of ServerRecieve(), ServerRespond() and
\* ClientSend() closes the connections that were made.
NoSocketLeft ==
    /\ \A w \in Workers :
          {id \in Conns : con[id].theirs = "accepted" /\ Worker(id[1], id[2]).at = w}
              = {Sock(w)} \ {None}
    /\ \A id \in Conns : con[id].mine = "open" => ~Returned(id[1])

\* recvfrom() was given a timeout of less than a microsecond, that is none.
WaitsForever(c) == NotYet(c) /\ Wait(c) = 0

\* Every ClientSend() returns, with servers that are killed, that fail or that
\* never finish, unless discovery waits for ever.
ClientsReturn == \A c \in Clients : <>(Returned(c) \/ []WaitsForever(c))

\* "Total discovery time: %.3fs": discovery is over after that time.
DiscoveryEnds == \A c \in Clients : <>~(At(c, "broadcast") \/ At(c, "discover"))
=============================================================================
