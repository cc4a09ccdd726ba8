# Verification of OSCourse

TLA+ models of the programs in this repository, TLC configurations that check
them on small instances, and proofs that TLAPS checks. The programs are
exercises in operating systems: most move data between processes that share
semaphores, signals, pipes, FIFOs, message queues or sockets, and what is hard
about them is what the operating system may do between two of their steps.

Each model follows the control flow of its program: one action for each system
call that another process can notice, with the guard the code or the kernel puts
on it. Data is abstracted to what the properties tell apart: a chunk of a file
is known by its number, a name by its owner, a step of an integral by its
number.

Every model has a section of *mistakes*: variants of single definitions (a
forgotten reset, a missing flag, a swapped order) that no specification uses.
They are there to show that each property fails when the code is wrong in the
way the property is about; `PROJECT.json` pairs them.

## Inventory

### semaphores/ — file transfer over shared memory

| | |
|---|---|
| State | a set of five System V semaphores (`SERVER`, `CLIENT`, `INIT`, `FULL`, `EMPTY`), one shared buffer with a size; both outlive the processes. In each process: the position in the file, `total_num_written`. |
| Operations | server: `acquireServer`, two `SETVAL`, `finalizeInit`, `waitForClient`, `copyIntoSharedMemory`; client: `acquireClient`, `waitForServer`, `copyFromSharedMemory`; exit with the kernel's `SEM_UNDO` |
| Interaction | only through the set and the buffer; any number of servers and clients compete for the one block |
| Hard | atomic tests of several semaphores by the idiom {-1, 0, +1}; deaths at any point with only some operations undone; counters left over from an earlier session; `SETVAL` while others may sleep on the semaphore; the second look at `shm->buffer.size` |
| Correct means | the buffer has one user; it never changes under a reader; a server succeeds only when its file has been printed; nobody in a copy loop waits for the dead |

### signals/ — file transfer by SIGUSR1 and SIGUSR2

| | |
|---|---|
| State | per process: dispositions, mask, pending signals, a flag set by the handler, the bit position, the buffer |
| Operations | server (the child): ready, size, content, wait for the confirmation; client (the parent): wait, swap handlers, ask for each bit, confirm, write |
| Interaction | `kill`, `SIGCHLD`, `PR_SET_PDEATHSIG` |
| Hard | signals do not queue; one signal has two meanings; handlers run between any two steps; test before `sigsuspend`; the parent may die before `prctl` |
| Correct means | one signal under way at a time, met by the handler meant for it; output is the beginning of the file, and all of it at success; nobody is left behind |

### pipeline/ — a relay through n children

| | |
|---|---|
| State | pipe ends held by each process, contents of the pipes, a buffer for each pair of neighbours, what `poll` last said |
| Operations | `pipe`, `fork`, closing of ends in parent and child; in the children `read` and `write`; in the parent `poll` and one turn for each buffer |
| Interaction | bytes, end of file and `SIGPIPE` over pipes; the inheritance of pipe ends |
| Hard | partial writes; `POLLHUP` together with `POLLIN`; answers of `poll` that are used while the children go on; ends inherited and not closed; cycles of full and empty pipes |
| Correct means | one copy of the file comes out; an end of file is seen only after the data; everything ends, also when something dies |

### send/ — file transfer over named FIFOs

| | |
|---|---|
| State | the sync FIFO with names in it, one FIFO for each attempt of each client, who has which open |
| Operations | client: announce, `poll` with a timeout, `execvp` of itself, copy; server: take a name, open without blocking, `execvp` of itself on `ENXIO`, copy |
| Interaction | the sync FIFO is shared by all; a client's FIFO by it and the server that took the name |
| Hard | stale names; timeout against a late server; end of file before a writer has come; data of a FIFO vanishes with its last user |
| Correct means | files do not mix; a success is lost only to a timeout; no server waits for a client that is gone |

### linkedlist/ — a doubly linked list

| | |
|---|---|
| State | a list object with the sentinel, and nodes, in a heap |
| Operations | create, insert, append, prepend, erase, pop at both ends, clear, destroy; front, back, size, moves of an iterator, access through it |
| Hard | two chains of pointers under any sequence of calls; allocation failures; reused addresses |
| Correct means | it implements a sequence with stable iterators; no node is lost, or used after it is freed |

### nprocesses/ — numbers printed in order

| | |
|---|---|
| State | a message queue that is keyed by the source file and never removed |
| Operations | parent: fork, wait for the last message; child: receive, print, send |
| Hard | runs share the queue; `fork` fails half way; messages of an interrupted run stay |
| Correct means | a number follows its predecessor; all runs return |

### parallelworkloads/ — integration on many cores, and over the network

| | |
|---|---|
| State | client: workers found, connections, one thread and one share for each; server: the lock of its host, its sockets and measured throughput, the connection served, the request; scheduling: the topology read from `/sys`, the distribution, threads and where they may run, results |
| Operations | `ClientSend` (discovery by broadcast, `connect`, shares, threads, sum); the start of a server (lock, sockets, benchmark), its discovery thread, `ServerLoop` (`accept`, receive, integrate, respond); `getSysCPUTopology`, `distributeWork`, `scheduleIntegrate` |
| Interaction | UDP broadcast, TCP connections with receive timeouts on both sides; threads and `join` |
| Hard | one of several servers, connections or threads fails; timeouts on both sides; a server answers one client at a time, and may take any time; it can be reached before it is ready, and die and come back; truncation of shares and of timeouts; machines whose CPUs share cores in any way |
| Correct means | an answer covers every step once; work is divided by measured throughputs; connections are closed on every path; clients return; as many pieces as threads, on the cores they were meant for |

`network/` holds a second copy of `CPUTopology` and `ScheduleTrapezoid` (in an
older C++); the two agree but for syntax, and one model stands for both.

## Modules

| Module | Models | State and actions against the code |
|---|---|---|
| `SemGuards` | what each `semop()` waits for | predicates on the values of the set |
| `SemOps` | the `struct sembuf` arrays, and `semop()` | the arrays as they stand in the source; `semop` performs one operation after the other on a copy |
| `SemTransfer` | semaphores/ | `sem`, `buf`: the kernel's; `undo`: what `SEM_UNDO` will take back; `pc`: the place in the program. `waitEmpty` and `waitFull` stand for a process that is about to call the `semop()` of its loop as well as for one that sleeps in it |
| `SerialDelivery` | what semaphores/ promises | the chunks printed, in order, and who has succeeded |
| `SemTransferProofs` | proofs about these | |
| `SignalTransfer`, proofs in `SignalTransferProofs` | signals/ | `c`, `s`: the two programs, each a record of what it does next (`pc`), its dispositions, its mask and its variables; `pend`: pending signals. Handlers are actions that run between any two steps |
| `ByteStream` | what signals/ and pipeline/ promise | the output is a prefix, with a bounded number of bytes on the way |
| `Pipeline`, proofs in `PipelineProofs` | pipeline/, with `bufferSize` as in the source | `holds`: who has which pipe end open; `up`, `down`: pipes; `ev`: the answer of `poll()`; `relay` is the parent, `child(i)` a child |
| `FifoSend`, proofs in `FifoSendProofs` | send/ | `sync`: names in the sync FIFO; `fifo`: the clients' FIFOs; `try` counts restarts of a client |
| `LinkedList`, `ListADT`, proofs in `LinkedListProofs` | linkedlist/, and what its header promises | `heap`: the header and the value at each address, spoilt (`Junk`) when it is freed; `allocated`; `call`: the call that is under way or was the last, with its arguments; `result`: what it returned. `ListADT` has the same calls on a sequence: each of its steps names the call, and what it does and answers follows from the arguments |
| `NProcesses`, proofs in `NProcessesProofs` | nprocesses/ | `q[t]`: messages of type `t` |
| `Integration`, proofs in `IntegrationProofs` | parallelworkloads/network | `client`, `server`: one record for each process; `con`: one for each connection, with its two ends, what is on the way in it and the client's thread; `asked`, `told`: datagrams of the discovery |
| `ScheduleTrapezoid`, proofs in `ScheduleTrapezoidProofs` | getSysCPUTopology, distributeWork and scheduleIntegrate | `machine`: which CPUs share a core; `topology`: what the program reads of it; `dist`: CPUs and steps of each thread. A piece and a result are sets of steps; weights are in tenths |

Each `MC...` module gives one of them its small values. Parameters are CONSTANTS
with a named assumption.

Order of writing, and what is left: `SemTransfer` with its proofs came first, as
the program with the most interaction; then `SignalTransfer`, `Pipeline`,
`LinkedList`, `FifoSend`, `NProcesses`, `Integration`, `ScheduleTrapezoid`; then the
proofs, from the programs with any number of processes to the list, the pipeline,
the signals and, at the end, the scheduling. All parts with a state of their own
are modelled, and every safety property that a run checks is proved.

## What is checked

`tlc -config X.cfg M` in this directory; the longest run takes about a minute.

| Run | Instance | Result |
|---|---|---|
| `sem_core` (`MCSemTransfer`, `SemCore.cfg`) | two servers with two and one chunks, two clients; any set of them may be killed or meet an I/O error; every start the set may have been left in | `IInv`, `BufferExclusive`, `OkMeansPrinted`, `FalseAlarmIsHarmless`, `OpsAgree`, `BufferStable`, `ImplementsDelivery`, `Delivered`, `ClientDeathNoticed`, `ServerDeathNoticed` hold |
| `sem_short_write` | one server, one client, a chunk of two bytes, short writes | `PrintsWhatWasSent` **fails** |
| `sem_empty_file` | an empty file, no faults | `EarlyDeathNoticed` **fails** |
| `signal` | five bytes of two bits in blocks of three: a full block, a short one, the empty one; I/O errors, deaths of either process | `TypeOK`, `LockStep`, `RightHandler`, `ImplementsStream`, `Delivered`, `NoOrphan` hold |
| `pipeline` | three children, five bytes, buffers of two and one, pipes of three | `TypeOK`, `NothingLost`, `ClosedWhenDrained`, `OwnEndsOnly`, `ImplementsStream`, `Delivered`, `AllEnd` hold |
| `pipeline_short_write` | four children, the first buffer larger than `PIPE_BUF`, no faults | `PrintsPrefix` **fails** |
| `linkedlist` | five addresses, two values; memory may run out at any time | `WellLinked`, `NothingLeaked`, `ImplementsList` hold |
| `fifo_send` | two servers, with files of two chunks and of one, two clients, one timeout each | `OneToOne`, `OneWriter`, `SuccessArrives`, `Delivered`, `ServerEndsToo` hold |
| `nprocesses` | a run of four and a run of three | `InOrder`, `AllReturn` hold |
| `integration` | a client that reaches both servers and a client that reaches one; throughputs 1 and 2, four steps; one server is up, and one may be started, or the first again | `RightAnswer`, `SharesAreMeasured`, `NoSocketLeft`, `ClientsReturn` hold |
| `discovery` | one client, one server, a clock of half microseconds | `DiscoveryEnds` **fails** |
| `schedule` | every machine of up to five CPUs, `/sys` readable or not, up to eleven steps and six threads | `PiecePerThread`, `Placement`, `FewStepsLost` hold |

### Bounds, and why they are enough

* `sem_core`: a second server and a second client are what it takes for a
  session to follow, or to try to overlap, another one; a file of two chunks
  uses the buffer, hands it back and uses it again; the empty chunk at the end is
  always sent. All starts are taken that satisfy the part of the invariant
  that outlives processes, so that a third session would begin in a state that
  is already among them.
* `signal`: `CharBits = 2` and `SizeBits = 2` keep the protocol as it is: a size,
  then as many bits as it says. The second block is shorter than the first and
  differs from it in every place.
* `pipeline`: three children have one buffer that is both written from and read
  into by relayed data, and unequal buffers; pipes hold less than the file.
* `pipeline_short_write`: four children are the fewest for which `bufferSize()`
  gives a buffer above `PIPE_BUF`. `SizeAssumption` says that the small sizes of an
  instance are on the same side of it as the program's. There are no faults
  in it (`QuietSpec`): the relay does it alone.
* `linkedlist`: five addresses give a first, a last and three inner nodes;
  addresses are symmetric (the run has safety properties only).
* `fifo_send`: `SyncCap` names fit in the sync FIFO, `FifoCap` chunks in a
  client's; both files have chunks, so that they could mix, and one is longer than a
  client's FIFO; one timeout for each client (`MaxTimeouts`) lets each come back while
  its old name is still around. There is no empty file in the run: to its client it is a
  server that ends before its first write, which a killed one does too, and the theorems hold for it.
* `nprocesses`: two runs of unequal length, so that the last message of one is
  an inner message of the other.
* `integration`: a broadcast reaches the client's own network (`reach`), so one
  client shares a server with the other and has one to itself; unequal shares
  with a remainder that the truncation leaves to the last connection. `Total`
  and `Micro` are two ticks each: all that matters is whether whole
  microseconds are left, a part of one, or nothing.
  `Serving` and `MaxStarts`: one server is up and one start is left, so that
  there is a server that is asked while it still starts, and one that dies and
  comes back while clients still know it from before.
* `schedule`: five CPUs are enough for two cores with hyperthreads and one
  without, for neighbours and strangers on a core, and for cores with three
  CPUs; six threads are more than any of these machines runs at once, and some
  have more threads than steps, some more steps than ten for each CPU. `Wrap` is any
  number far above the CPUs.

### Faults

Where processes may be killed, whether or which is settled in the initial state
(`faulty` in `SemTransfer`, `faults` in `Pipeline` and `FifoSend`), so that one
run checks both what holds in spite of them and what is promised without them.
In `SignalTransfer`, `NProcesses` and `Integration` being killed is visible in
the state and the properties speak of it.

### Fairness

All liveness properties assume weak fairness of each process: it is scheduled,
and a blocking call that stays possible returns. Strong fairness is nowhere
needed. Nothing is assumed about faults, nor about timeouts in send/ (nothing says that two
minutes pass before a server comes). In `Integration` timeouts do pass, as
`SO_RCVTIMEO` makes a blocking call return, but an integral or a
benchmark may take for ever and a response to the broadcast may never come.

## Findings

* `sem_short_write`, `semaphores/common.c:362`: after a short `write()` the loop
  passes the same address and size again. The beginning of the chunk is printed
  twice, and its end may not be printed at all: when the client hands the buffer back,
  the first of two bytes was printed twice and the second never (`PrintsWhatWasSent` counts
  how often each byte was printed by then). Short writes as such
  do not violate the property: with the address and the rest in place (`at |-> total[c]`,
  at most `buf.size - total[c]` bytes) TLC finds no violation.
* `pipeline_short_write`, `pipeline/pipeline.c:321`: the same in the relay, once
  a buffer is larger than `PIPE_BUF`, as the first ones are from four children on.
* `sem_empty_file`, `semaphores/common.c:240`: the wait for `INIT` does not look
  whether the server is still there. A server with an empty file may be gone
  before the client gets there; the client waits for ever and keeps the block.
* `discovery`, `network/NetworkClient.c:78`: less than a microsecond of the
  discovery time is truncated to a timeout of zero, which means none.

Other behaviour that came up while modelling, and that no document of the
repository contradicts:

* semaphores/: when a client dies, another may take its place before the server
  notices, and prints the rest of the file. If the dead one held the buffer, server and
  new client wait for each other for ever. A client may report "Server has died"
  after a complete transfer; `FalseAlarmIsHarmless` shows that nothing is lost then.
* send/: a server that is killed leaves its client with a part of the file and
  with success. A client's timeout after the server's first open and before its
  first write loses the file of a server that reports success.
* signals/: the exit status of a client after a good transfer is a race between
  its own return and the handler of `SIGCHLD`.
* pipeline/: the fds of closed buffers stay in the poll set, and the parent spins
  until the last buffer has finished; after the death of a middle child the parent may return 0
  with a truncated output.
* parallelworkloads/: `thread_siblings_list` may be a range, `0-1`. The second number
  is then read with its minus sign into an unsigned, so that threads of the
  core are pinned to its first CPU only; and a core with three or more CPUs
  counts as one with two.
* parallelworkloads/: truncation in `distributeWork` loses up to one step for each
  thread; when a thread cannot be created the others go on writing into results
  that are freed.
* nprocesses/: a run may print out of order after one that was interrupted and
  left a message in the queue.

## What is proved

TLAPS proves these for all values of the constants that satisfy
`ConstAssumption` (any number of processes, nodes and machines, files of any
length), not only for the instance TLC checks. There are two exceptions: the refinement in
semaphores/ is for whole writes, and what is proved of the data in pipeline/ (`Conservation`
and `Refinement`) is for two or three children. Where either hypothesis is missing the
program does not do it, as the violated runs show. Sets of servers, clients, workers, runs and
nodes are finite where something in them is counted. Each model has an inductive
invariant `IInv`, which theorem `Invariance` of its proof module establishes:
`Spec => []IInv`.

### semaphores/ (`SemTransferProofs`)

**`ArraysDoWhatTheGuardsSay`**: the arrays of `common.c`, executed as the
kernel does, do on all natural values of the semaphores what the guards of
`SemGuards` say, and fail with `EAGAIN` exactly when the peer is gone. Each operation is
a step that skips, stops or goes on; {-1, 0, +1} comes to a test for one.

**`Invariance`**. That the buffer has
one user is not inductive. It needs that the buffer is one token, in `FULL`, in
`EMPTY`, in the hands of a process, or lost (`TokenInv`); that nobody passes on a
token while it is reset (`ResetQuiescent`); for that, that a server in its setup is alone,
which it knows from the presence semaphores (`PresenceInv`); which are true only
if the kernel undoes exactly what each process has done (`UndoInv`), and if there
is one process for each role (`SingleInv`). `IInv` is the conjunction, with
the types. Most steps change no role and leave the last three alone; the end of a
process takes its role and its undo away together; the four steps that take a
role have guards that say why nobody else has it.

From it follow **`TypeCorrect`**, **`ResetIsQuiescent`**, **`Exclusion`** (`BufferExclusive`),
**`Stability`** (the action property `BufferStable`) and **`OpsAlwaysAgree`**, which joins the
two proofs: in every reachable state the arrays do what the actions do. TLC checks `IInv` in
`sem_core` too.

**`SessionsInvariance`**: what success and failure mean takes a second invariant,
`Sessions`, inductive relative to `IInv`. It says which server the client in the block
has met, and where the next chunk of that server's file is at each pair of labels of
the two (in the buffer, in the client's hands, printed), also while one client follows
another that died; and what is printed when either ends. From it follow
**`SuccessIsPrinted`** (`OkMeansPrinted`), **`FalseAlarm`** (`FalseAlarmIsHarmless`) and
**`Refinement`**: with whole writes (`~ShortWrites`) `Spec` implements
`SerialDelivery`, each step as one of its steps or as none. The hypothesis is
needed: `sem_short_write` shows that short writes print twice. `Sessions` was checked by TLC
on the instance of `sem_core` before it was proved, with whole and with short writes.

### signals/ (`SignalTransferProofs`)

**`Invariance`**. That no two signals are under way is not inductive: it needs to know who
may send. `OneTurn` says that of all pending signals, flags set by a handler and
places where a process does not wait there is one at a time. A process gives its turn
away with each signal and gets it back with the other's; hence **`InStep`** (`LockStep`), even
when either dies. But that a process sends only what the other waits for takes the rest:
`ServerPlace` and `ClientPlace` say which bit of which block each is at and which handlers
and phase go with it, and `Meeting` relates the two. Within a block they are at the same bit, or the
server is one ahead and the one pending signal says which bit it was; the client has all
bits before (`Got`), so that with the last bit of the size both know the same number of bits,
and both leave the loop of `recieveN()` and `sendN()` after the same one. That is a fact about
binary numbers (`NumberIs`: a number less than 2^`SizeBits` is the sum of its bits), by induction
over the bits. Between two blocks the client prints, or waits, and the server reads
at most one block ahead (`Rest`). Hence **`Handled`** (`RightHandler`) and **`TypeCorrect`** (nothing is
put behind the size, the block or the buffer). With what is printed (`Printed`) the
two processes implement `ByteStream` with a window of two buffers: **`Refinement`**.

The parts of the invariant were checked by TLC on the instance of `signal`, with `Whole`
read as a remainder, before they were proved: some sets in it are infinite.

### pipeline/ (`PipelineProofs`)

**`Invariance`** has four parts beside the types, each inductive relative to those before it.
`Ends` says which pipe ends each process has, from the place it has come to: what a child
inherits is one end of every pipe made so far and both of its own, and what it closes
leaves its own two. Hence **`OwnEnds`** (`OwnEndsOnly`). `Answers` says that what `poll()` said of
a buffer is still so at its turn: only the parent empties what it reads and fills what it
writes, and ends that are closed stay closed. `Quiet` says that without faults a child ends
only after those before it, with the pipe into it empty; so nobody meets `SIGPIPE`, and
**`ClosesDrained`** (`ClosedWhenDrained`) holds. **`TypeCorrect`** bounds pipes and buffers.

`Flow` says that there are numbers `g`, how much of the file each child has read, such that
between two neighbours the pipe, the buffer, the other pipe and the chunk are the slices of the file
from one number to the other; a child that met `SIGPIPE` has lost its chunk. Each step
moves one boundary between slices. Its hypothesis is `Unsplit`, every buffer fits
into `PIPE_BUF`. By `bufferSize()` that is so with two or three children (lemma `SmallBuffers`,
and `SizeAssumption`: sizes are on the side of `PIPE_BUF` on which the program's are), and from
four on the first buffer is larger and `pipeline_short_write` shows what happens then. So
**`Conservation`** (`NothingLost`) and **`Refinement`** are stated for `n <= 3`, and for a file
and pipes of any length: the pipeline
implements `ByteStream` with the sum of all pipes, buffers and chunks as its window. Whatever
dies, the output is a beginning of the file; that the last child has succeeded only when all
of the file is out is part of the refinement where nothing is killed, and false after a death. `IInv` was
checked by TLC on the instance of `pipeline` before it was proved.

### send/ (`FifoSendProofs`)

**`Invariance`** follows a name: before its client announces it, it is nowhere; then it is in the
sync FIFO once, or one server has it, or it is lost; a FIFO that a server has opened
has no second one to come. What a client has printed and what its FIFO holds is, in
this order, what that server has sent. Hence **`FifosHaveOneWriter`**,
**`FilesReachOneClient`** (`OneToOne`) and **`SuccessReachesClient`** (`SuccessArrives`).

### linkedlist/ (`LinkedListProofs`)

**`Invariance`**: the pointers of a list that is ready are a ring through the sentinel
that meets every allocated node once, both ways; what `llDestroyNodes()` has not freed
is linked from its iterator to the sentinel. The ring is a sequence of addresses that
is not in the heap, and no variable was added for it: the invariant says that there is
one, and each call gives the new one from the old one (a place more, a place less). Hence
**`LinksAreInverse`** (`WellLinked`) and, as a walk along the pointers is the ring (by
induction over its places), **`NothingIsLeaked`** (`NothingLeaked`), and **`Refinement`**:
the pointers implement `ListADT`, the sequence with stable iterators of the header, call by call:
for the same call with the same arguments, the new element is where the call puts it, the
erased one is that of the iterator or at the end the call names, and the answer is the element, the
iterator, the number or the `NULL` that the sequence gives.

### nprocesses/ (`NProcessesProofs`)

**`Invariance`**: for every number, the children that have yet to send for it, the
messages of its type, the children that have taken one, the numbers printed next
and the runs that returned with it are together no more than were printed. With it
**`NumbersInOrder`** (`InOrder`) holds for any number of runs of any lengths, interrupted or not.

### parallelworkloads/network (`IntegrationProofs`)

**`SharesPartition`**: for any number of connections and positive throughputs,
the shares of `GetResponses()` are disjoint, cover the interval and never add up to more
than `n`, so that `n - used_n` does not wrap. This is arithmetic, by induction over the
connections. **`Invariance`** says that servers answer with a throughput they measured,
that both ends of a connection and the server's queue agree on who has it, and that
what is on its way in a connection is its share. Hence **`AnswersAreRight`** (`RightAnswer`),
**`ThroughputsAreMeasured`** (`SharesAreMeasured`) and **`SocketsAreClosed`** (`NoSocketLeft`).

### parallelworkloads/ (`ScheduleTrapezoidProofs`)

The steps are simple and the state is not: what has to be shown is what
`distributeWork()` returns on a machine with any number of CPUs that share cores in
any way, as long as the smallest CPU of a core stands for it (`ConstAssumption`, which also
has twice as many CPUs fit into an unsigned).

* The topology (`TopologyRead`): the loop over the CPUs gives `S` cores with
  hyperthreads and `C` without, in the order of their first CPUs, and every core of the
  machine once; with a range in `/sys` the second number is no CPU.
* The layout (`Position`, `Distribution`): a core's threads come to a closed form of
  the quotient and the remainder of the threads by the CPUs, so that the sums over the
  cores before it do, too. The loops end at the first core without threads, and
  all cores after it have none (`ManyOrFew`, `Leftovers`): nothing is left out. The list is
  therefore a block of equal pieces for each core, at these places (`Laid`).
* Placement (`WellPlaced`): how many threads start on a core is the length of the
  one block with its first CPU; cores with hyperthreads get theirs first (`SmtCoresFirst`).
* The steps (`Accounts`): along the places, what was given away is never more than the weights
  so far are worth, and less by not more than one step for each piece (`BlockBounds`); at
  the end the weights are all of `total_weight` (`Weighed`).

**`Invariance`**: the list keeps that layout from the distribution on, the pieces of the
threads launched so far are consecutive intervals of the lengths in the list, a thread
that ended has left its piece in its result, and what was added up are the pieces of
threads that ended. After a thread was refused it keeps only the list and the types:
the results are freed then, and no sum is returned. From it and the facts above follow **`EveryThreadHasAPiece`** (`PiecePerThread`),
**`CoresBeforeHyperthreads`** (`Placement`) and **`LessThanAStepEach`** (`FewStepsLost`). The
invariant was checked by TLC, on machines of up to three CPUs with up to four threads, with
the list itself in place of its layout, which TLC cannot search for.

### Only model-checked

* All liveness properties: fairness and ENABLED are out of the prover's reach.

Where a fact about recursive data is proved (sums of shares, the list of pieces, walks
along a list, what is on its way through the pipeline), the induction is one over the set of places for which it
holds, from the well-foundedness of `<` on `Nat`.

## What is not modelled, and why

* Parsing of arguments and printing: sequential text processing.
* `TrapezoidIntegrator.hpp`: a loop over floating-point numbers. The doubles of
  `distributeWork` are exact fractions in the model; rounding could lose one more
  step where a share is a whole number.
* Errors of calls that set things up (`shmget`, `mkfifo`, `pipe`, `sigaction`,
  `malloc` outside the list): they end the program before it interacts.
* `read()` and `write()` that fail in `copyFile()` of pipeline/ (`pipeline.c:28-31`, `37-41`) and
  of send/ (`send/common.c:14-16`, `20`): the process ends and its descriptors are closed, which
  the others cannot tell from its being killed there (`childKilled`; `serverKilled`, `clientKilled`), but for the exit status and,
  in pipeline/, ten seconds of sleep before it.
* pipeline/ with one child (`pipeline.c:244-246`): the parent returns at once, there is nothing to relay.
* parallelworkloads/network, in the client:
  * `setsockopt()` that fails after `connect()` (`NetworkClient.c:309-313`). It is given a valid
    option of a valid socket. The client would close the socket and go on with the next worker, as
    after a failed `connect()`, but the server would accept one connection without a request more, as
    it does from a client that was killed.
  * What `pthread_create()` leaves in `thread_ids[i]` when it fails (`NetworkClient.c:188-196`). POSIX does
    not say. The array is zeroed and the model takes it that it stays so and the thread is not
    joined; a library that writes there first has the client join what is no thread, which is undefined.
  * A `CLOCK_REALTIME` that is set back during the discovery, and failures of `realloc()` and
    `clock_gettime()` there (`NetworkClient.c:69-72`, `106-109`), with which `ClientSend()` would fail.
  * The sockets of the discovery and of listening, and those for which `connect()` or `setsockopt()` failed,
    have no state: `NoSocketLeft` is about connections, and would not show a leak of these.
* `sendAll()` takes the answer -1 of `send()` for a huge number of bytes. Packets
  are smaller than a socket's buffer and go whole or not at all, and then the
  error is noticed nevertheless; the model has whole packets.
* The unit tests of the list (googletest) were read as documentation.
