------------------------------ MODULE Pipeline ------------------------------
(***************************************************************************)
(* pipeline/pipeline.c: a file goes through n children and through the     *)
(* parent, which relays between them with poll() and non-blocking pipes.   *)
(*                                                                         *)
(*   file -> child 0 -> up[0] -> buffer 0 -> down[0] -> child 1 -> up[1]   *)
(*        -> ... -> child n-1 -> standard output                           *)
(*                                                                         *)
(* The parent forks the children one after another, while the first ones  *)
(* already copy.  A child inherits every pipe end its parent has open and  *)
(* closes those that are not its own; a reader meets the end of a pipe     *)
(* when nobody has the other end open, and a writer SIGPIPE.  A pipe holds *)
(* at most PipeCap bytes; a write of up to PipeBuf bytes is not split.     *)
(***************************************************************************)
EXTENDS Integers, Sequences

CONSTANTS
    n,          \* number of children
    File,       \* a sequence of bytes
    ChildBuf,   \* BUFFER_SIZE of copyFile()
    BufSize,    \* BufSize[i]: for bufferSize(n, i)
    PipeBuf,    \* PIPE_BUF
    PipeCap     \* capacity of a pipe

Children == 0 .. n - 1
Buffers  == 0 .. n - 2
Parent   == -1
Procs    == Children \cup {Parent}
Bytes    == {File[k] : k \in DOMAIN File}

ASSUME ConstAssumption ==
    /\ File \in Seq(Bytes)
    /\ n \in Nat \ {0, 1}
    /\ ChildBuf \in 1 .. PipeBuf
    /\ PipeBuf \in Nat \ {0} /\ PipeCap \in Nat /\ PipeBuf <= PipeCap
    /\ BufSize \in [Buffers -> Nat \ {0}]

Least(a, b) == IF a < b THEN a ELSE b

\* bufferSize(): the sizes of the program, which an instance scales down; 3 * 3
\* * 3 * 3, tripled d times, and at most 1 << 17.
size[d \in 0 .. n] == IF d = 0 THEN 81 ELSE 3 * size[d - 1]
bufferSize(i) == Least(size[n - i], 131072)

\* What matters about a size: a write of more than PIPE_BUF may be split.
ASSUME SizeAssumption == \A i \in Buffers : BufSize[i] <= PipeBuf <=> bufferSize(i) <= 4096

VARIABLES
    holds,      \* the pipe ends each process has open
    up, down,   \* contents of the pipes to and from the parent
    taken,      \* bytes that child 0 has read from the file
    out,        \* standard output
    cpc,        \* what each child does next, from "unborn" and "forked" on
    chunk,      \* chunk[i]: what child i has read and not written yet
    rpc,        \* what the parent does next: "pipe", "fork" and "close" for
                \* each child, then "poll" and "scan", or how it ended
    cursor,     \* the child it forks, then the buffer it looks at
    ev,         \* what poll() said of each buffer
    side,       \* which fd of the buffer is positive: "read", "write" or "both"
    data,       \* buffers[i], as it was filled
    available,  \* num_available[i]
    faults      \* may processes be killed? settled at the start

pipes    == <<up, down>>
children == <<cpc, chunk, taken, out>>
buffers  == <<ev, side, data, available>>
relayed  == <<rpc, cursor, buffers>>
vars     == <<holds, pipes, children, relayed, faults>>

\* A process returns, meets SIGPIPE, or is killed from outside.
Ended == {"ok", "sigpipe", "killed"}
RelayEnded == rpc \in Ended
ChildEnded(i) == cpc[i] \in Ended

\* The ends of the pipe that carries buffer i in from child i, and of the one
\* that carries it out to child i + 1.
Up(i, end)   == [pipe |-> "up", buffer |-> i, end |-> end]
Down(i, end) == [pipe |-> "down", buffer |-> i, end |-> end]

Open(end)     == \E p \in Procs : end \in holds[p]
UpWriter(i)   == Open(Up(i, "write"))
UpReader(i)   == Open(Up(i, "read"))
DownWriter(i) == Open(Down(i, "write"))
DownReader(i) == Open(Down(i, "read"))

\* The parent has closed the fds of buffer i.
Closed(i) == Up(i, "read") \notin holds[Parent]

Free(pipe) == PipeCap - Len(pipe)
Front(s, k) == SubSeq(s, 1, k)
Rest(s, k)  == SubSeq(s, k + 1, Len(s))

Closes(p, ends) == holds' = [holds EXCEPT ![p] = @ \ ends]
ChildGoes(i, label) ==
    /\ cpc' = [cpc EXCEPT ![i] = label]
    /\ holds' = [holds EXCEPT ![i] = IF label \in Ended THEN {} ELSE @]
ParentEnds(label) ==
    /\ rpc' = label
    /\ holds' = [holds EXCEPT ![Parent] = {}]

-----------------------------------------------------------------------------
(* spawnChildren().                                                        *)

\* The ends of the pipes made for child i.
Made(i) ==
    {Down(i - 1, end) : end \in IF i > 0 THEN {"read", "write"} ELSE {}}
        \cup {Up(i, end) : end \in IF i < n - 1 THEN {"read", "write"} ELSE {}}

openPipes ==
    /\ rpc = "pipe"
    /\ holds' = [holds EXCEPT ![Parent] = @ \cup Made(cursor)]
    /\ rpc' = "fork"
    /\ UNCHANGED <<pipes, children, cursor, buffers, faults>>

fork ==
    /\ rpc = "fork"
    /\ holds' = [holds EXCEPT ![cursor] = holds[Parent]]
    /\ cpc' = [cpc EXCEPT ![cursor] = "forked"]
    /\ rpc' = "close"
    /\ UNCHANGED <<pipes, chunk, taken, out, cursor, buffers, faults>>

\* The parent keeps the ends it reads from and writes to.
parentCloses ==
    /\ rpc = "close"
    /\ Closes(Parent, {Down(cursor - 1, "read"), Up(cursor, "write")})
    /\ IF cursor < n - 1
       THEN cursor' = cursor + 1 /\ rpc' = "pipe"
       ELSE cursor' = 0 /\ rpc' = "poll"
    /\ UNCHANGED <<pipes, children, buffers, faults>>

\* A mistake: the loop over write_fds forgets the last child before this one.
InheritedTooFew(i) == {Up(j, "read") : j \in 0 .. i - 1} \cup {Down(j - 1, "write") : j \in 1 .. i - 2}

\* read_fds[0 .. i-1] and write_fds[0 .. i-2], where write_fds[j-1] leads to
\* child j.
Inherited(i) == {Up(j, "read") : j \in 0 .. i - 1} \cup {Down(j - 1, "write") : j \in 1 .. i - 1}

\* A child closes them and the parent's ends of its own pipes.
childCloses(i) ==
    /\ cpc[i] = "forked"
    /\ Closes(i, Inherited(i) \cup {Down(i - 1, "write"), Up(i, "read")})
    /\ cpc' = [cpc EXCEPT ![i] = "read"]
    /\ UNCHANGED <<pipes, chunk, taken, out, relayed, faults>>

-----------------------------------------------------------------------------
(* The children: copyFile().                                               *)

\* read() of the first child, from the file.
readFile ==
    /\ cpc[0] = "read"
    /\ LET k == Least(ChildBuf, Len(File) - taken)
       IN  /\ chunk' = [chunk EXCEPT ![0] = SubSeq(File, taken + 1, taken + k)]
           /\ taken' = taken + k
           /\ ChildGoes(0, IF k > 0 THEN "write" ELSE "ok")
    /\ UNCHANGED <<up, down, out, relayed, faults>>

\* read() of the others, from a pipe: it waits for data or for the end.
readPipe(i) ==
    /\ i > 0 /\ cpc[i] = "read"
    /\ LET k == Least(ChildBuf, Len(down[i - 1]))
       IN  /\ k > 0 \/ ~DownWriter(i - 1)
           /\ chunk' = [chunk EXCEPT ![i] = Front(down[i - 1], k)]
           /\ down' = [down EXCEPT ![i - 1] = Rest(@, k)]
           /\ ChildGoes(i, IF k > 0 THEN "write" ELSE "ok")
    /\ UNCHANGED <<up, taken, out, relayed, faults>>

\* write() into a pipe: all at once, as a chunk is no larger than PIPE_BUF.
\* Without a reader, SIGPIPE ends the child.
writePipe(i) ==
    /\ i < n - 1 /\ cpc[i] = "write"
    /\ \/ /\ UpReader(i) /\ Len(chunk[i]) <= Free(up[i])
          /\ up' = [up EXCEPT ![i] = @ \o chunk[i]]
          /\ ChildGoes(i, "read")
       \/ ~UpReader(i) /\ ChildGoes(i, "sigpipe") /\ UNCHANGED up
    /\ chunk' = [chunk EXCEPT ![i] = <<>>]
    /\ UNCHANGED <<down, taken, out, relayed, faults>>

\* A mistake: what is left is written again from the start of the chunk.
Restarted(s, k) == Front(s, Len(s) - k)

\* total_write: what a short write() leaves.
Left(s, k) == Rest(s, k)

\* write() of the last child to standard output.
writeOut ==
    /\ cpc[n - 1] = "write"
    /\ \E k \in 1 .. Len(chunk[n - 1]) :
          /\ out' = out \o Front(chunk[n - 1], k)
          /\ chunk' = [chunk EXCEPT ![n - 1] = Left(@, k)]
          /\ ChildGoes(n - 1, IF k < Len(chunk[n - 1]) THEN "write" ELSE "read")
    /\ UNCHANGED <<up, down, taken, relayed, faults>>

child(i) ==
    \/ childCloses(i)
    \/ i = 0 /\ readFile
    \/ readPipe(i) \/ writePipe(i)
    \/ i = n - 1 /\ writeOut

-----------------------------------------------------------------------------
(* The parent: the loop of main().                                         *)

\* Mistakes: POLLHUP counts although there is data; POLLERR is not looked at.
HupFirst(i)  == ~UpWriter(i)
ErrUnseen(i) == FALSE

\* POLLHUP without POLLIN, and POLLERR.
Hup(i) == up[i] = <<>> /\ ~UpWriter(i)
Err(i) == ~DownReader(i)

\* What poll() says of the fds of buffer i that are positive, and the three
\* tests made of it.  A closed fd answers POLLNVAL, which no test looks at.
Tests(i) ==
    LET reads  == ~Closed(i) /\ side[i] = "read"
        writes == ~Closed(i) /\ side[i] = "write"
    IN  [can_read   |-> reads /\ up[i] # <<>>,
         can_write  |-> writes /\ Free(down[i]) >= PipeBuf,
         can_finish |-> (reads /\ Hup(i)) \/ (writes /\ Err(i))]

\* poll() sleeps until there is something to say.
poll ==
    /\ rpc = "poll"
    /\ \E i \in Buffers : Closed(i) \/ \E test \in DOMAIN Tests(i) : Tests(i)[test]
    /\ ev' = [i \in Buffers |-> Tests(i)]
    /\ cursor' = 0
    /\ rpc' = "scan"
    /\ UNCHANGED <<holds, pipes, children, side, data, available, faults>>

\* A mistake: a finished buffer is not closed.
FinishesNot(i) == FALSE

Finishes(i) == ev[i].can_finish

\* A buffer that finishes is closed; after the last one, poll again, or return if
\* that one finishes.
Advance(i) ==
    /\ rpc = "scan" /\ cursor = i
    /\ IF i < n - 2
       THEN /\ cursor' = i + 1
            /\ Closes(Parent, IF Finishes(i) THEN {Up(i, "read"), Down(i, "write")} ELSE {})
            /\ UNCHANGED rpc
       ELSE /\ cursor' = 0
            /\ IF Finishes(i) THEN ParentEnds("ok") ELSE rpc' = "poll" /\ UNCHANGED holds
    /\ UNCHANGED <<children, ev, faults>>

\* A mistake: a buffer is filled again before it has been written out.
FillsOver(i) == up[i] # <<>> /\ ~Closed(i)

Fills(i)  == available[i] = 0 /\ ev[i].can_read
Drains(i) == available[i] > 0 /\ ev[i].can_write

fill(i) ==
    /\ Advance(i) /\ Fills(i)
    /\ LET k == Least(BufSize[i], Len(up[i]))
       IN  /\ data' = [data EXCEPT ![i] = Front(up[i], k)]
           /\ available' = [available EXCEPT ![i] = k]
           /\ up' = [up EXCEPT ![i] = Rest(@, k)]
    /\ side' = [side EXCEPT ![i] = "write"]
    /\ UNCHANGED down

\* How many of the k bytes given to it a non-blocking write() takes: as many as
\* there is room for.
Accepted(pipe, k) == Least(k, Free(pipe))

\* A mistake: the size of the buffer is taken off instead of what was written.
RemainsOfSize(i, k) == available[i] - BufSize[i]

Remains(i, k) == available[i] - k

\* offset_buffers[i] is where the buffer starts, and stays there after a write.
drain(i) ==
    /\ Advance(i) /\ Drains(i)
    /\ DownReader(i)
    /\ LET k == Accepted(down[i], available[i])
       IN  /\ down' = [down EXCEPT ![i] = @ \o Front(data[i], k)]
           /\ available' = [available EXCEPT ![i] = Remains(i, k)]
           /\ side' = [side EXCEPT ![i] = IF Remains(i, k) = 0 THEN "read" ELSE @]
    /\ UNCHANGED <<up, data>>

\* The child that should read has ended: SIGPIPE.
brokenPipe(i) ==
    /\ rpc = "scan" /\ cursor = i /\ Drains(i)
    /\ ~DownReader(i)
    /\ ParentEnds("sigpipe")
    /\ UNCHANGED <<pipes, children, cursor, buffers, faults>>

\* Nothing to transfer: the buffer is finished or left alone.
pass(i) ==
    /\ Advance(i) /\ ~Fills(i) /\ ~Drains(i)
    /\ side' = [side EXCEPT ![i] = IF ev[i].can_finish THEN "both" ELSE @]
    /\ UNCHANGED <<up, down, data, available>>

relay ==
    \/ openPipes \/ fork \/ parentCloses
    \/ poll
    \/ \E i \in Buffers : fill(i) \/ drain(i) \/ brokenPipe(i) \/ pass(i)

-----------------------------------------------------------------------------
(* Processes are killed, wherever they are.                                *)

childKilled(i) ==
    /\ faults /\ cpc[i] # "unborn" /\ ~ChildEnded(i)
    /\ ChildGoes(i, "killed")
    /\ UNCHANGED <<pipes, chunk, taken, out, relayed, faults>>

parentKilled ==
    /\ faults /\ ~RelayEnded
    /\ ParentEnds("killed")
    /\ UNCHANGED <<pipes, children, cursor, buffers, faults>>

-----------------------------------------------------------------------------
Init ==
    /\ holds = [p \in Procs |-> {}]
    /\ up = [i \in Buffers |-> <<>>] /\ down = [i \in Buffers |-> <<>>]
    /\ taken = 0 /\ out = <<>>
    /\ cpc = [i \in Children |-> "unborn"]
    /\ chunk = [i \in Children |-> <<>>]
    /\ rpc = "pipe" /\ cursor = 0
    /\ ev = [i \in Buffers |-> [can_read |-> FALSE, can_write |-> FALSE, can_finish |-> FALSE]]
    /\ side = [i \in Buffers |-> "read"]
    /\ data = [i \in Buffers |-> <<>>]
    /\ available = [i \in Buffers |-> 0]
    /\ faults \in BOOLEAN

Next == relay \/ parentKilled \/ \E i \in Children : child(i) \/ childKilled(i)

Spec == Init /\ [][Next]_vars

\* Every process runs, and its blocking call returns once it can.
Fairness == WF_vars(relay) /\ \A i \in Children : WF_vars(child(i))

FairSpec == Spec /\ Fairness

-----------------------------------------------------------------------------
(* Invariants.                                                             *)

\* Types, and the limits of pipes and buffers.
TypeOK ==
    /\ up \in [Buffers -> Seq(Bytes)] /\ down \in [Buffers -> Seq(Bytes)]
    /\ \A i \in Buffers : Len(up[i]) <= PipeCap /\ Len(down[i]) <= PipeCap
    /\ data \in [Buffers -> Seq(Bytes)] /\ available \in [Buffers -> Nat]
    /\ \A i \in Buffers : available[i] <= Len(data[i]) /\ Len(data[i]) <= BufSize[i]
    /\ side \in [Buffers -> {"read", "write", "both"}]
    /\ ev \in [Buffers -> [can_read : BOOLEAN, can_write : BOOLEAN, can_finish : BOOLEAN]]
    /\ cpc \in [Children -> {"unborn", "forked", "read", "write"} \cup Ended]
    /\ chunk \in [Children -> Seq(Bytes)] /\ \A i \in Children : Len(chunk[i]) <= ChildBuf
    /\ taken \in 0 .. Len(File) /\ out \in Seq(Bytes)
    /\ rpc \in {"pipe", "fork", "close", "poll", "scan"} \cup Ended /\ cursor \in Children
    /\ holds \in [Procs -> SUBSET UNION {Made(i) : i \in Children}]
    /\ faults \in BOOLEAN

\* What is on its way to child i, the nearest first.
OnTheWay ==
    LET to[i \in Children] ==
            IF i = 0 THEN chunk[0]
            ELSE chunk[i] \o down[i - 1] \o Front(data[i - 1], available[i - 1])
                          \o up[i - 1] \o to[i - 1]
    IN  to[n - 1]

\* Without faults nothing is lost, repeated or overtaken between the file and
\* the output, in whatever chunks and however often poll() returns: the output,
\* then what is in the children, pipes and buffers, is what was read.
NothingLost == ~faults => out \o OnTheWay = Front(File, taken)

\* Without faults the parent closes the fds of a buffer only when the buffer and
\* the pipe into it are empty and the child has ended: POLLHUP with POLLIN is
\* not the end.
ClosedWhenDrained ==
    ~faults /\ rpc \in {"poll", "scan", "ok"} =>
        \A i \in Buffers : Closed(i) => available[i] = 0 /\ up[i] = <<>> /\ ChildEnded(i)

\* A child copies with its own two pipe ends open and no other, whatever the
\* parent had open when it forked the child and whatever it has closed since.
OwnEndsOnly ==
    \A i \in Children : cpc[i] \in {"read", "write"} =>
        holds[i] = {Down(i - 1, "read"), Up(i, "write")} \cap Made(i)

\* The output is the beginning of the file.
PrintsPrefix == out = Front(File, Len(out))

-----------------------------------------------------------------------------
(* The abstract specification.                                             *)

Capacity ==
    LET sum[i \in Children] ==
            IF i = 0 THEN ChildBuf ELSE sum[i - 1] + ChildBuf + 2 * PipeCap + BufSize[i - 1]
    IN  sum[n - 1]

Stream == INSTANCE ByteStream WITH
    Window <- Capacity,
    done   <- (~faults /\ cpc[n - 1] = "ok")

\* The whole pipeline is one copy of the file: whatever dies, the output is its
\* beginning, and without faults the last child succeeds only when everything
\* has come through.
ImplementsStream == Stream!Spec

-----------------------------------------------------------------------------
(* Liveness.                                                               *)

\* Without faults everything is printed and every process succeeds: no cycle of
\* full and empty pipes stops the parent and the children, and nobody keeps an
\* end open that a reader waits for.
Delivered ==
    ~faults ~> out = File /\ rpc = "ok" /\ \A i \in Children : cpc[i] = "ok"

\* Whoever is killed, and whenever, the parent while it forks included, no
\* process is left waiting: the end of one closes pipes, and the closed pipes
\* end the others.
AllEnd == <>(RelayEnded /\ \A i \in Children : cpc[i] = "unborn" \/ ChildEnded(i))
=============================================================================
