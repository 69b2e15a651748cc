# A TLA+ verification project for Renata2304/Facultate

The repository is the collected coursework of a computer-science degree: some
forty independent programs under `Anul I` ... `Anul IV`, most with a README of
their own. There is no single program to verify. This project models the ones
with state, concurrency or a protocol of their own, thirteen programs in all,
and says of every other one why it is left out or when it comes.

Contents: [inventory](#1-inventory), [modules and code](#2-the-modules-and-the-code),
[runs](#3-the-runs), [disagreements](#4-where-documents-and-code-disagree),
[proofs](#5-what-is-proved), [limits](#6-what-is-only-model-checked-and-what-is-left-out),
[plan](#7-plan), [how to run](#8-how-to-run).

Paths below are relative to the repository. Abbreviations:

| short | directory |
|---|---|
| SO2 | `Anul II/Semestrul I/SO/Tema 2 - so_scheduler` |
| ASC1 | `Anul III/Semestrul II/ASC/Tema1 - Le Stats Sportif` |
| PCOM1, PCOM4 | `Anul II/Semestrul II/PCOM/Tema 1`, `Tema 4` |
| APD1, APD2 | `Anul III/Semestrul I/APD/Tema 1`, `Tema 2` |
| GW | `Anul II/Semestrul I/OOP/GwentStone` |
| TV2 | `Anul II/Semestrul I/OOP/ProiectPart2` |
| SDA1, SDA2 | `Anul I/Semestrul II/SDA/Teme/Tema 1`, `Tema 2` |
| AA | `Anul II/Semestrul I/AA` |
| IOCLA1 | `Anul I/Semestrul II/PCLP 2 - IOCLA/Tema 1` |

## 1. Inventory

### 1.1 Concurrent programs

**User-level thread scheduler (SO2, `so_scheduler.c`).** A library: a program
calls `so_init`, forks one thread and calls `so_end`; every thread may fork
others, wait for and signal devices, or spend time with `so_exec`.
*State:* one global, unlocked structure: an array of threads, a priority queue
`q` kept in an array and served from its end, the current thread, a semaphore
`done`; per thread a status, a priority, the time left of its quantum, the
device it waits for and a semaphore `in_exec`.
*Operations:* `so_init`, `so_fork`, `so_wait`, `so_signal`, `so_exec`,
`so_end`, and inside them `func_thread`, `add_thread`, `verif`.
*Interaction:* every simulated thread is a pthread. There is no lock: the
thread that holds the processor posts the `in_exec` of the next one, then waits
for its own. The last thread posts `done`, for which `so_end` waits before it
joins and frees everything.
*Hard:* two pthreads are inside the library around every hand-over; the freeing
races with the last `sem_post`; one hand-over too few stops the program, one
too many runs two handlers at once; ties in priority are resolved by the
direction of an insertion scan over a queue that is read backwards.
*Correct when:* one handler runs at a time, it is the current one and has the
highest priority; equals take turns by quantum, in order; every ready thread
runs; `so_end` frees last, and returns.

**Asynchronous job server (ASC1, `app/`).** A Flask server that numbers each
POST, queues it for a pool of threads, and lets clients poll for the result.
*State:* the counter `job_counter`, the queue, the dictionary `jobs` from id to
status, one result file per id, the shutdown flag.
*Operations:* the POST handlers (all through `handle_request`), `submit_task`,
`TaskRunner.run`, `write_in_file`, `get_results`, `graceful_shutdown`.
*Interaction:* Flask runs every request in a thread of its own; handlers and
pool share everything above, and only the queue is synchronised.
*Hard:* the counter's read-modify-write, the test of the queue's size apart from
`get`, the registration after the `put`, a status that promises a complete
file, tasks submitted while the server shuts down, exceptions in a calculation.
*Correct when:* a task goes to one thread, "done" means the job's own complete
file, a client with an id gets no error and nobody else's result, work accepted
before a shutdown is on disk when the shutdown returns.

**Task dispatcher and hosts (APD2, `MyDispatcher.java`, `MyHost.java`).** A
dispatcher gives tasks to hosts by one of four algorithms; every host is a
thread that executes tasks by priority, some of them preemptible.
*State:* per host an `ArrayList` of tasks, the current task, the work left, the
`running` flag; the dispatcher's last index.
*Operations:* `MyDispatcher.addTask`; `MyHost.run`, `getNextTask`, `addTask`,
`getQueueSize`, `getWorkLeft`, `shutdown`.
*Interaction:* the dispatcher's thread calls `addTask` and reads the loads
while the host's thread changes them; nothing synchronises the two.
*Hard:* the list and the work left under two writers; the choice among changing
loads; preemption between quanta.
*Correct when:* a task finishes, once, and is not preempted against its flag;
the highest priority runs, arrival order among equals; round robin is balanced;
the least loaded host is chosen; the work left is what is left.

**Parallel contours (APD1, `tema1_par.c`).** Threads rescale an image, a share
of its rows each; `main` joins them, frees the image read, samples a grid and
draws the contour of every square (marching squares).
*State:* image, rescaled image, grid, the threads' row ranges.
*Operations:* `pthread_create`, the rows, `pthread_join`, sampling, marching.
*Interaction:* the threads share both images; the joins are the only
synchronisation. An image small enough is not rescaled and forks nobody.
*Hard:* the split of rows when they do not divide by the number of threads,
reading before the joins and freeing before them, the border of the grid.
*Correct when:* what `main` samples is whole, nobody reads freed memory,
neighbouring contours meet.

### 1.2 Protocols

**IPv4 router (PCOM1, `router.c`).** A single loop that receives a frame and
forwards it, answers it or keeps it.
*State:* a static routing table sorted with `qsort`, an ARP table that only
grows, a queue of packets whose next hop has no MAC address yet.
*Operations:* `main`'s loop, `get_best_route` and `cmp`, `get_arp_entry`,
`no_next_hop`, `reply_arp`, `echo_reply`, `icmp_err`.
*Interaction:* the neighbours, over raw sockets: packets and ARP messages in any
order, late or lost.
*Hard:* one queue for all next hops; a packet changed (TTL, checksum) before it
waits; a binary search over prefixes that may nest; one's-complement arithmetic
in an `int`; frames edited in place.
*Correct when:* no packet is lost, doubled or reordered within its next hop, its
TTL drops by one, its checksum stays right, a matching route is found.

**Web client (PCOM4, `client.c`).** Reads commands and sends each to a library
on the web, as one HTTP request on a connection of its own.
*State:* the flags `logged_in` and `library`, the cookie, the token, the
descriptors it holds.
*Operations:* register, login, logout, entering the library, reading, adding and
deleting books, exit.
*Interaction:* a server outside the repository that may refuse, forget a session
or close the connection at any point; responses come in pieces.
*Hard:* cookie and token of different sessions; a response cut anywhere, so that
the end of its header must be found again after every piece and what is missing
be counted; every command opening a socket that nobody closes.
*Correct when:* the token sent is of the session whose cookie is sent; nothing
that did arrive is missed.

### 1.3 Interpreters of commands

**GwentStone (GW).** A card game for two, played by a list of commands.
*State:* decks, hands, the four rows of the table, mana, heroes, turns, wins.
*Operations:* the commands of `ForActions.forAc`: end a turn, place a card, use
an environment card, attack, use an ability, attack the hero, use a hero's
ability; each with its chain of errors.
*Hard:* cards move between lists by index; flags last until the right player's
turn ends; health changes in seven places.
*Correct when:* no dead card stays, none is in two places, a frozen one waits.

**POO TV, stage 2 (TV2).** A film service driven by requests.
*State:* accounts with tokens and four lists of films each, the film database
with its counters, the session: page, account, films shown, page history.
*Operations:* pages, back, log in and out, register, filter, tokens, premium,
purchase, watch, like, rate, subscribe, adding and deleting a film.
*Hard:* lists of films copied by page; deletion by name in some lists of some
accounts; counters apart from the lists they count.
*Correct when:* the films shown exist and are allowed, counters and lists agree.

### 1.4 Data structures and calculations

**Trains and stations (SDA1, `station.c`).** Linked lists of cars by platform:
arrive, leave, add, remove by weight, move a stretch to another platform, order,
repair an overloaded train, and five searches. *Hard:* relinking at the ends;
the sliding window of the heaviest sequence. *Correct when:* the lists are the
trains the operations describe.

**Tree map and cipher (SDA2, `TreeMap.c`, `Cipher.c`).** An AVL tree with
parent links whose nodes, duplicates included, are threaded in a list; the
cipher keeps the words of a text in it and makes keys from queries over it.
*Hard:* rotations and deletions that must keep child links, parent links and the
thread in agreement; offsets and remainders. *Correct when:* the tree is a
balanced search tree, threaded in order; decrypting undoes encrypting.

**AVL tree and hash table (AA).** Two dictionaries run on the same commands.
*Hard:* rebalancing after deletions; chains of collisions. *Correct when:* both
have exactly the keys that the commands leave.

**Sensor packets (IOCLA1, `main.c`).** Records of three lengths, back to back
in one block that is reallocated and shifted. *Hard:* offsets are found by
walking over stored lengths; blocks overlap when they move. *Correct when:*
`print` shows the list the commands asked for.

**Statistics calculations (ASC1, `task_runner.py` 111-414).** Nine functions of
a table of survey rows. *Hard:* which end of which order is "best"; grouping
with missing categories. *Correct when:* the answers agree with one another.

### 1.5 The other components

| component | reason | status |
|---|---|---|
| Proof-of-work miner (ASC Tema 2) | GPU threads race to publish a nonce and its hash | planned |
| Table queries (PP Tema 2), lambda calculus (PP Tema 3) | pure: merging; substitution without capture | planned |
| POO TV, stage 1 | superseded by stage 2 | not modelled |
| JSON parser (PCOM4 `parson.c`) | vendored | not modelled |
| Topology and checks of the router (PCOM1), `TestWebserver.py` (ASC1), the checkers | test harnesses of the courses | not modelled |
| Matrix solvers (ASC Tema 3), PageRank, image resizing (MN), circuits (ELTH) | floating point | not modelled |
| OpenGL assignments (EGC), image effects (EGC2), notebooks (IA2) | graphics, numerical and randomised | not modelled |
| PCLP 1 Tema 1-2, IOCLA Tema 2, PP Tema 1, SDA laboratories | one-shot programs and exercises | not modelled |
| Spring laboratories (TWEB) | thin calls into a framework and a database | not modelled |
| GPS tracker (SI), PM, IOC, Fizica, VLSI | documents, configuration, circuits without source text | not modelled |

`PROJECT.json` lists each of them with its sources. A component's sources are
its implementation: vendored code, test harnesses and the drivers the courses
hand out (`tema1.c`, `tema2.c` of SDA, `helpers.c` of APD1) are not among them.

## 2. The modules and the code

| module | models | checked by | proofs |
|---|---|---|---|
| `SoScheduler` | SO2 `so_scheduler.c` | `MCSoScheduler` | `SoSchedulerProofs`, over `InductionLemmas` |
| `OneProcessor` | the abstract specification of the same | `SoScheduler!IsOneProcessor` | `SoSchedulerProofs` |
| `StatsServer` | ASC1 `app/task_runner.py`, `app/routes.py` | `MCStatsServer` | `StatsServerProofs` |
| `Statistics` | ASC1 `app/task_runner.py`: the calculations | `MCMachines` | |
| `Router` | PCOM1 `router.c`: the loop, ARP, ICMP, the queue | `MCRouter` | `RouterProofs` |
| `RouteLookup` | PCOM1 `get_best_route`, `cmp` | `MCStructures` | `StructuresProofs` |
| `HeaderChecksum` | PCOM1: the TTL and checksum update | `MCHeaderChecksum` | `StructuresProofs` |
| `MyHost` | APD2 `MyHost.java` | `MCMyHost` | `MyHostProofs` |
| `MyDispatcher` | APD2 `MyDispatcher.java` | `MCMachines` | `MachinesProofs` |
| `Contours` | APD1 `tema1_par.c` | `MCMachines` | `MachinesProofs` |
| `WebClient` | PCOM4 `client.c`, `helpers.c` | `MCMachines` | `MachinesProofs` |
| `GwentStone` | GW `ForActions.java`, `CardInput.java`, ... | `MCGames` | `GamesProofs` |
| `PooTV` | TV2 `Actions.java`, `Database.java`, pages | `MCGames` | `GamesProofs` |
| `Station` | SDA1 `station.c` | `MCStructures` | `StructuresProofs` |
| `Trains` | the abstract specification of the same | `Station!StationIsTrains` | `StructuresProofs` |
| `TreeMap`, `Cipher` | SDA2 `TreeMap.c`, `Cipher.c` | `MCStructures` | |
| `CipherText` | SDA2 `Cipher.c`: `encrypt`, `decrypt`, `printKey` | `Cipher!DecryptUndoes` | `StructuresProofs` |
| `Dictionaries` | AA `AVL.c`, `Hash.c` | `MCStructures` | |
| `PackedArray` | IOCLA1 `main.c` | `MCStructures` | `StructuresProofs` |

An `MC` module adds what a `.cfg` needs (symmetry sets, a topology, decks).
`MCGames`, `MCStructures` and `MCMachines` hold several programs that have
nothing to do with each other: the variable `on` says whose behaviour it is, and
the state of the others does not change, so the states add up and do not
multiply.

Definitions under a comment that begins with "Mutant" are variants of the
definition that follows them with a plausible mistake in it; no specification
uses them. Each property is known to be violated by at least one of them, which
is what shows that it constrains the code at all.

### 2.1 SoScheduler

A call of a scheduled thread is one action up to its last `sem_post`:

| action | code |
|---|---|
| `Exec` | `so_exec`: `remaining_time--`, `verif`, `sem_wait` |
| `Fork` | `so_fork` by a thread: allocation, `add_thread`, `so_exec` |
| `Wait`, `Signal` | `so_wait`, `so_signal`, each with its `so_exec` |
| `Refused` | every early return with `INVALID_TID` or -1, and a failed `malloc` |
| `Terminate`, `SelfPost`, `Exit` | the end of `func_thread`: `verif`; the `sem_post` after `sem_post(&done)`; the return |
| `Resume` | a `sem_wait(&in_exec)` returns, in `func_thread` or `so_exec` |
| `SoInit`, `MainForkTake`, `MainFork`, `MainForkFails` | `main`'s `so_init`; the first `so_fork` up to its wait for `done`; the rest of it; its failed `malloc` |
| `SoEnd`, `SoEndWait`, `SoEndFree` | `so_end` up to `sem_wait(&done)`, up to the joins, and the freeing |

`Verif` is `verif` with its five outcomes as disjuncts, on the values the call
has computed so far. One action per call is sound because only the thread that
holds the processor executes these lines, and after its last post a call
touches nothing shared before its own `sem_wait`: the first is not assumed but
is `MutualExclusion` and `RunnerIsCurrent`, proved below; the place where the
second fails, `sem_post(&done)` followed by `sem_post(&in_exec)`, is split into
two steps. `remaining` is an integer without width: a C `int` could only
overflow after 2^31 calls with the processor kept.

`OneProcessor` is what the library promises, without semaphores, queue and
quantum: every call is one step (`Spend`, `Create`, `Block`, `Wake`, `Finish`)
after which a ready thread of the highest priority runs; `Wake` wakes exactly
the waiters of one device; `End` comes when all have finished. `IsOneProcessor`
says that `SoScheduler` implements it with the statuses, priorities and devices
of the threads as they are: `Exec`, `Fork`, `Wait`, `Signal`, `Terminate`,
`MainFork` and `SoEndFree` map to these steps, and the hand-over itself
(`Resume`, `SelfPost`, `Exit`) and the rest of `main` to none.

`main` follows the way the library is used: it initialises, forks once, ends,
and may start again; it may also call `so_end` at once. Handlers may do any
legal call in any order and return at any time.

### 2.2 StatsServer

Every access to shared data is a step. A handler loads, stores and loads the
counter (`CountLoad`, `CountStore`, `CountRead`: `job_counter += 1` and
`job_id = job_counter` are separate bytecodes between which CPython may switch
threads), then `Check`, `Put`, `Register` are the three lines of `submit_task`,
and `Reply` the response. A pool thread runs `Leave` or `See` (the two tests of
the loop), `Get`, `Calculate`, `Open`, `Dump`, `Mark` (`write_in_file`). The
shutdown handler is `SetFlag` and `Joined`; a client's poll is `PollId`,
`PollStatus`, `PollFile`. `Start` is `ThreadPool.start`.

Of the calculations only the outcome matters: a result, or an exception, which
leaves `run` and ends the thread. `queue.Queue` (external) is a sequence with a
blocking `get`. History variables: `accepted` (put before the flag was set),
`raced` (two handlers interleaved on the counter) and `poll[p].known` (the id
had been returned to a client).

### 2.3 Router, RouteLookup, HeaderChecksum

`Router` takes one frame per step, as the loop does: `IpIn` is an IP packet,
with one disjunct per way through the code (`BadChecksum`, `Unreachable`,
`Expired`, `EchoReply`, `Forward`, `Enqueue`), `ArpRequest` and `ReplyArp` the
two ARP branches. `Lose` is the network: a request of the router's, or the
reply to it, that never arrives. A reply comes to a request under way, though
`reply_arp` takes any (replies nobody asked for are left out). A frame is a record; `sent` is what the router
sent, in order. Its route lookup is a function from destination to next hop:
`RouteLookup` models how that function is computed, so `Router` is checked for
any correct one. The two are joined by this interface only.

`RouteLookup` is the loop of `get_best_route` over any table that satisfies
the order `cmp` gives to `qsort`: `Match`, `GoLeft`, `GoRight` are the three
branches, `Return` the end. A mask of leading ones is written as the size of
the block it selects, and `ip & mask` as the first address of the block; a
prefix may have bits below its mask, as some in the tables do.

`HeaderChecksum` has a header's TTL, the sum of its other words and its
checksum. `Update` is the expression of `router.c` line 282 in `int` and its
storing in 16 bits (`% Word`); `Forward` is one router, so a behaviour is a
packet on its way.

### 2.4 MyHost, MyDispatcher

`MyHost` is the thread of one host and the dispatcher's thread on its list.
`java.util.ArrayList` (external) is modelled at the level at which it breaks:
`add` counts the change and reads the size (`AddBegin`), then writes element
and size (`AddStore`); `remove` searches (`Finish`), then moves the elements and
writes the size (`Remove`); `forEach` tests the change counter at every element
(`Each`) and at the end (`EachEnd`). `totalTime` is a plain `long`, so `+=` and
`-=` are a read (`AddTimeRead`, `Work`) and a write (`AddTimeWrite`,
`WorkEnd`). Only one thread calls `addTask` and only one host thread runs, as in
the assignment's main program. Memory is sequentially consistent, which is
stronger than Java promises for the unsynchronised list: the model can miss an
anomaly of the memory model, it adds none.

`MyDispatcher` is `addTask` with its reads of the hosts' loads as separate steps
(`Scan`, `Compare`, `Reread`, `Choose`), `RoundRobin` and `SizeInterval`. Hosts
are reduced to a list of what is left of their tasks and work between any two
reads (`HostRuns`).

### 2.5 Contours, WebClient

`Contours`: `pthread_create` gives thread `id` the rows from `start(id)` to
`end(id)`; `rescale_row` is one row of one thread; `pthread_join` needs every
thread at its end and frees the image read; `sample_grid` and `march` are
`main`'s two sequential stages. A pixel is what the sampling makes of it, 1 or
0, and the rescaled image may hold any. `RESCALE` and `STEP` are the constants
of the program, scaled down.

`WebClient`: `Type` is a command up to its request, with the connection every
turn of the loop opens and the one a request opens. `receive_from_server` is two
loops, `at = "header"` and `at = "body"`: a turn of either reads a piece of any
size (`ReadPiece`), the end of the connection (`ReadEnd`) or an error, which
ends the program (`ReadFails`, as a failing `connect` or `write` does in
`Type`). The first looks for the end of the header after every piece
(`buffer_find`, `header_end`) and is left when it has come and tells a
Content-Length; the second reads up to the total (`ReadUpTo`), an unsigned sum
(`size_t`): without an end of the header it is the largest there is. The server
decides its answer and response before the first piece (`Serve`, `Respond`), may
close at any time (`Close`) and forget a session (`Expire`). A response is the
length of its header, that of its body, and whether the one tells the other. What
the client looks for is in the header (the cookie) or in the body (all else):
`Search` finds it, or not, or either while only some of that part has come.
`Handle` does with what it finds what its command does (`Login`, `Logout`,
`EnterLibrary`, ...); `at = "undefined"` is a `strstr` without success whose null
is used, as for a list of books that is refused or empty. A cookie is the number
of its session, a token that of the session it was given in; `Garbage` is text cut
from something else.

### 2.6 GwentStone, PooTV

`GwentStone` has one action per command. Its chain of errors is a sequence of
`<<condition, message>>` (`PlaceError`, `AttackError`, ...), of which the first
that holds is printed and changes nothing (`Refuse`). An index outside a list
is an exception that ends the program (`Throw`). `Strike` is the end of an
attack and of an ability: attacker marked, target changed and, without health,
removed. Commands that only print are left out. A game's decks come shuffled
(`Setups`); `NewGame` is the beginning of the next game of the same input.

`PooTV` has one action per request of `Actions.action`, `Update` being the
replacement of an account and a film's counters. `stack` is the history that
`Back` goes through, `coming` the films that may still be added. `DeleteMovie`
goes through the lists the code goes through: those of the account that is logged
in, the others' notifications. Before anybody has logged in it dereferences
null (`Crash`). Recommendations, for premium accounts at the end, print and are
`Finish`.

### 2.7 Station, Trains

`Station` has the cars as allocated cells with `weight` and `next`, and `first`
for each platform. `At` follows the links, and `List` is what it comes by. `arrive_train` ... `fix_overload_train`
are the functions of `station.c` that change a train, and `find_...` and `secv` the
ones that answer. `Free` also forgets what the freed cells held. Copying cells,
as `order_train` does, is moving them: `Rebuilt` is the order in which its loops
copy the cars, the lightest first and each in front of the last, and `Linking` their
links. `Trains` has a sequence of weights for
each platform and the same operations on sequences; `StationIsTrains` says
that `Station` implements `Trains` with the weights read along the links.

### 2.8 TreeMap, Cipher

A heap `t` has the links and heights of all nodes; functions that walk up or down
are recursive operators on it. `insert` and `delete` are the whole calls, with
`avlFixUp`, the rotations and the threading (`Thread`, `Unthread`,
`InsertDuplicate`). Node `n` has key `Key(n)`: a key has a few nodes, its
duplicates. A model step that would read a freed node sets `undefined` and the
behaviour stops there: what follows is anything. `cutOff` and `deletions` note
which deletions there were.

`Cipher` fills the map with the words of a text (`ReadWord`), and has the queries
as operators, evaluated in every state; `encrypt`, `decrypt` and the printed key,
which need no map, are in `CipherText`. `nivel` is the
level of the most frequent word as the loop computes it. `lvl` searches right of a
greater word and left of a smaller one, the wrong way round: a search that ends on
the left has no return (`garbage`, any value), and one that comes to a null link
on the right uses it and crashes (`Crash`). So a level query crashes whenever a
word is smaller than the root's (`LevelCrashes`), and only one that does not makes
a key (`MadeKeys`).

### 2.9 Dictionaries, PackedArray, Statistics

`Dictionaries` runs `AVL.c` and `Hash.c` side by side on the same commands
(`Insert`, `Delete`, `Search`, `Replace`), beside the set of keys the commands
leave. An AVL subtree is only reached from its parent, so it is a value. The
hash table has a bucket's item and its chain; `wild` marks a chain whose last
link was never set, with any value the memory can have there.

`PackedArray` keeps the block as bytes `<<record, k>>`, the k-th byte of a
record, so that a record torn by a wrong shift is no record. `add_last`,
`add_at`, `delete_at`, `find` are the commands, with the list they ask for as
history. `memcpy` between overlapping blocks is undefined in C; the constant
`Copy` says what it does: `"whole"` is the behaviour of the C library the program
is built with (glibc on x86-64, where `memcpy` is `memmove`), `"forward"` copies
byte by byte.

`Statistics` has the rows the server has loaded as its state, and a definition
for each of the nine calculations. A mean is a pair of sum and count, compared
and subtracted without rounding. A dictionary is the sequence of its entries
in the order Python keeps.

## 3. The runs

Twelve runs, each of which ends within minutes. Distinct states in parentheses.

| run | question | instance |
|---|---|---|
| `sched_safety` (148 k) | Does the lock-free hand-over keep one handler running, the right one, and is nothing freed too early? `MutualExclusion`, `PriorityRespected`, `DoneIsLast`, `NoUseAfterFree` | 3 threads, 2 priorities, 1 device, quantum 2, 6 calls, failing `malloc`, `so_wait` also when nothing else is ready |
| `sched_discipline` (325 k) | If no handler waits alone: `IsOneProcessor` (the refinement), `FifoAmongEquals`, `QuantumEnforced`, and, fairly scheduled, `ReadyRuns`, `EndCompletes` | the same with 2 devices and 5 calls, `LoneWait = FALSE` |
| `stats_safety` (645 k) | `TakenOnce`, `AnswersRight` (done means one's own complete result, and no error for an id one has), `DoneStays`, `DrainsBeforeReturn` | 2 requests, 2 pool threads, a client that polls any id at any time, a shutdown at any time, calculations that raise |
| `stats_liveness` (201 k) | `TaskRuns`: does every queued task run? | the same without the client, every thread scheduled fairly |
| `stats_lost_status` | `StatusTruthful` is violated: the finding of section 4 | 1 pool thread |
| `router` (949 k) | `PacketsKept` (none lost, doubled or left queued by a reply; one TTL each), `FlowOrder`, `QueuedLeaves` | 3 IP packets of any kind, 1 ARP request, 2 neighbours and a host behind one of them, ARP messages late or lost |
| `checksum_adds_up` (262 k) | `AddsUp` | every 16-bit sum, TTLs up to 4 |
| `host_races` (4.4 M) | `FinishOnce`, and `PreemptionNests` (what is begun and unfinished is preemptible and of lower priority than what executes; of equals one finishes before another begins) under every interleaving | 3 tasks with any of 2 durations, 2 priorities, either flag; `Overlap = TRUE` |
| `host_serial` (793 k) | `WorkLeftExact`, `PicksHighest`, `AddedFinishes`, `ShutdownEnds` when `addTask` does not overlap the host's accesses | the same, `Overlap = FALSE` |
| `games` (1.3 M) | GwentStone: `CardsSound` (no card dead or in two places), `FrozenWaits`. POO TV: `CrtMoviesFresh`, `AccountsAgree` (ratings counted once, nothing watched that was not bought) | four pairs of decks and heroes, 3 turns; two accounts, two films of one name, 4 features |
| `structures` (282 k) | `FindsDisjoint`; `StationIsTrains` (the refinement), `HeaviestFound`; `TreeSound`; `CipherRight`; `DictionariesAgree`; `PackedIsList` | every table of up to 3 routes over 8 addresses, every address; 2 platforms and 3 cars; 4 keys twice and 2 deletions; texts of 5 words; 5 keys in 2 buckets; 3 records |
| `machines` (841 k) | `ChoosesFairly`; `ContoursRight`; `OwnToken`, `PiecesDoNotMatter`; `StatisticsAgree` | 3 hosts, 4 tasks; 4 images, 1 to 4 threads; 2 sessions, 16 descriptors, responses of 3 to 6 units in any pieces; every survey of up to 4 rows |

### 3.1 Bounds, and why they are enough

* **Scheduler.** Three threads are the fewest for a queue with two elements
  while a third runs, so for order, for a tie, and for a waiter that is woken
  past another. Six calls are enough to fork both, let a quantum of 2 expire,
  wait and signal; a thread that has finished is recycled after `so_end`, so
  several lives of the scheduler are covered. Two devices are needed to see that
  a signal leaves the waiters of the other one alone. The proved invariants do not
  depend on these bounds.
* **Server.** Two requests and two threads are the fewest for a race for a task
  and a race for an id. One client suffices, since polls change nothing.
  Properties about a job's id are guarded by `~raced`: once two handlers have
  the same id (a behaviour the runs include) nothing useful can be said of it,
  and section 4 lists the race itself.
* **Router.** Three packets are the fewest for two in the queue and one that
  overtakes or follows. A packet with a wrong checksum is dropped before any
  other field is read, so only one such packet per neighbour is enumerated.
  TTLs 1 and 2 are the two sides of the test.
* **Route lookup.** Three routes make the search take either half; sizes 1,
  2 and 8 give nested, disjoint and default blocks. The theorem has no bound.
* **Checksum.** Sums of all 2^16 values; TTLs only add a small number to them,
  and the theorem covers all of them.
* **Hosts.** Three tasks are the fewest for a middle element to be removed from
  a list while another is added. Durations are whole quanta; a rest of a
  quantum is section 4.
* **Dispatcher.** With three hosts the scan has a first, a middle and a last one;
  four tasks wrap round robin once.
* **Games.** Rows of two cards are full after two; the decks bring together
  what interacts: an exchange of health with a health of zero, a card without
  damage, a steal into a row with room and into a full one, and each hero. Three
  turns end each player's turn once and start a second round. The two films have
  one name because the code compares names, and one is banned for one account.
* **Stations.** Three cars give a first, a middle and a last one; two weights
  give equal neighbours; two platforms give a move between trains.
  The theorems have any number of each.
* **Tree map.** Four keys in any order need every single and double rotation;
  a second node for each gives duplicates at either end of the list; two
  deletions are the fewest for a node whose neighbour has gone.
* **Dictionaries.** Five keys in two buckets make chains of any length, and
  trees in which a deletion unbalances the root.
* **Packets.** Three records of three lengths: one in the middle goes, with
  overlapping moves in both directions. The theorem has any records, in any number.
* **Contours.** One to four threads on three rows, so with fewer, as many and
  more than rows; images that are, and are not, rescaled. All pixels are free.
* **Client.** Two sessions for a token that outlives its own; 16 descriptors are
  used up by six commands, more than any way to the library needs. A header of
  three or four units ends in a terminator of two, a body has up to two: pieces cut
  before, inside and after the terminator and the body, and come several at once. The
  theorem has responses of any size.
* **Statistics.** Four rows over three states with two kept (`Top`): one is left
  out, and ties occur.

Deadlock is not checked (`CHECK_DEADLOCK FALSE`) because all these programs may
stop: a bounded instance runs out of calls, packets or tasks, and what must not
stop is stated as a liveness property. State symmetry is used only in runs
without liveness, over identities the code never compares by order.

### 3.2 Fairness, and why the code justifies it

* **Scheduler:** weak fairness of each thread's steps: Linux runs every runnable
  pthread. It also says that handlers are finite, since a thread with the
  processor must call or return; a handler that loops for ever without calls
  starves the others, as the library is cooperative. `main` need only finish an
  `so_end` it has begun.
* **Server:** weak fairness of every handler and every pool thread, and of
  `Start`. Clients need not poll, nobody need shut down. The pool spins, so its
  threads are always runnable.
* **Router:** weak fairness of `ReplyArp(n)`: a neighbour asked answers, unless
  a message is lost, which the property allows for.
* **Host:** weak fairness of the host's thread and of an `addTask` that has
  begun. The dispatcher need not add tasks.

The command interpreters and data structures have no liveness property: each
call ends by itself, and nobody need issue another.

## 4. Where documents and code disagree

One disagreement is a finding with a run of its own:

**A finished job can be "running" for ever** (`stats_lost_status`,
`StatusTruthful`). `submit_task` puts the task and then writes "running"
(ASC1 `app/task_runner.py:38-39`); a pool thread that finishes in between has
its "done" overwritten. The README, line 41: "running if it's execusion is
not done yet or done if it's finished".

The modules state further ones, which TLC finds violated on the instances below:
take the named `.cfg`, put the property in the place of its properties (and of
its symmetry, if it is a temporal one), and change the constants named. They
restrict what the properties of section 3 may claim; the last column has the
guard.

| `.cfg`: constants; property | what it shows | guard it causes |
|---|---|---|
| `SchedSafety`: 2 tasks, `TimeQuantum = 1`, `MAX_NO_THREADS = 2`, `MaxCalls = 2`, `AllocFails = FALSE`; `WaitBlocks` | `so_wait` with nothing else ready returns at once; the README says it blocks the thread until the device is signalled | `LoneWait` in `sched_discipline` |
| `SchedDiscipline`: 2 tasks, `TimeQuantum = 1`, `NumEvents = 1`, `MAX_NO_THREADS = 2`, `MaxCalls = 2`; `SoEndDestroys` | after a failed first `so_fork` the token of `done` is gone and `so_end` waits for ever | in `EndCompletes` |
| `SchedSafety`: `TimeQuantum = 1`, `MAX_NO_THREADS = 2`, `MaxCalls = 3`, `AllocFails = FALSE`, `LoneWait = FALSE`; `WithinCapacity` | nothing compares `no_threads` with `MAX_NO_THREADS`, the "maximum number of threads" | none |
| `StatsSafety`: 1 worker, no pollers, `BadRequests`, `Shutdowns = FALSE`; `UniqueIds` | two handlers interleaved on the counter return one id | `~raced` |
| the same with `EnvSet = TRUE`; `PoolStarts` | with `TP_NUM_OF_THREADS` set, `range` of a string raises and the pool does not start | `EnvSet = FALSE` |
| `StatsLiveness`: `BadRequests = FALSE`; `ShutdownReturns` | two threads see one last task, one blocks in `get`, and the shutdown joins it for ever | none: `DrainsBeforeReturn` is about a shutdown that returns |
| `Router`: `MaxPackets = 2`, `MaxRequests = 0`; `RightHop` | `reply_arp` (`router.c:156`) sends the whole queue to the MAC address that just arrived; the README, lines 55-56, speaks of the packets that correspond to that IP address | `PacketsKept` says sent, not where |
| the same; `ErrorsReturn` | ICMP errors keep the destination address of the packet they answer | none |
| the same; `EchoReturns` | an echo reply is addressed to the router's own MAC | none |
| `Structures`, `Sizes = {1, 2, 4}`; `MostSpecific` | with nested blocks the search may miss the longest match | disjoint blocks in `FindsDisjoint` |
| `Structures`; `DefaultFound` | a mask of 0 never beats the initial `max_mask` of 0 | no default route in `FindsDisjoint` |
| `ChecksumAddsUp`; `NextAccepts` | the corrected sum can be the other zero of one's complement, which an equal router refuses | `AddsUp` is what a receiver that sums tests |
| `HostRaces`: 2 tasks; `HostSurvives` | `forEach` and `add` together end the host's thread with an exception `run` does not catch | `Overlap` in `host_serial` |
| the same; `NoTaskLost` | `remove` and `add` together can lose the task added | `Overlap` |
| `HostSerial`: 2 tasks, `Quantum = 2`, `Durations = {2, 3}`; `WorkLeftExact` | a task whose duration is no multiple of the quantum leaves the work left too small for ever | whole quanta in `host_serial` |
| `Games`; `HoundSteals` | Heart Hound puts the card on row `4 - row` (`CardInput.java:238`), the mirror of which is `3 - row`: a card of row 2 stays where it is, and for row 0 there is no such row | exceptions end the game in the model as in the code |
| `Games`; `WonOnce` | a hero whose health is already 0 is attacked again and its killer wins again | none |
| `Games`; `LikedWatched` | the mark "watched" is the film's and not the account's (`Movies.java:188`): an account can like a film that another one watched | `AccountsAgree` says bought |
| `Games`; `RatingIsAverage` | a second grade of an account adds to the sum and not to the count (`Movies.java:237`) | none |
| `Games`; `BuyersRefunded` | the account that deletes a film it bought gets nothing back (`Database.java:36`) | none |
| `Structures`; `OverloadIsTrain` | a platform without a train, of power -1, is taken for overloaded (`station.c:348`) | none |
| `Structures`; `NoCarLost` | cars moved to a platform without a locomotive are dropped unfreed when a train arrives there (`station.c:94`) | none |
| `Structures`: `SamePlatform = TRUE`; `StationIsTrains` | moving cars within one platform goes wrong (`station.c:214-295`) | `SamePlatform = FALSE` |
| `Structures`; `SizeIsNodes` | `insert` counts twice, but for the first node (`TreeMap.c:304,319,359`) | none |
| `Structures`; `NoFreedUse` | a deletion unlinks a node only when another key follows (`TreeMap.c:414`); the freed one is read later | the model stops there |
| `Structures`; `ListVisitsAll` | a key inserted before one with duplicates is linked past them (`TreeMap.c:348-351`) | `TreeSound` is about the tree's own nodes |
| `Structures`; `LevelQueryReturns` | a search for a word smaller than the root's goes right until it uses a null pointer (`Cipher.c:113-118`) | `MadeKeys` of `CipherRight` are of queries that return |
| `Structures`; `LevelOfMostFrequent` | the count goes on from one word to the next (`Cipher.c:105-153`, against the comment at 124-129) | `CipherRight` says nothing of the level |
| `Structures`; `DeletedIsGone` | deleting a bucket's item before a chain keeps the key deleted and frees the chain's first (`Hash.c:259-265`) | in `DictionariesAgree` |
| `Structures`: `Copy = "forward"`; `PackedIsList` | a `memcpy` that copies byte by byte tears records (`main.c:60,171`) | `Copy = "whole"` |
| `Structures`: `Indexes <- WithNegative`; `PackedIsList` | `delete_at` of a negative index forgets the last record | indexes from 0 |
| `Machines`: `Sizes <- ImageWide`; `ReadsInside` | the last row of the grid is read past the end of an image wider than high (`tema1_par.c:109`) | `ImageSizes` |
| `Machines`; `EnteredMeansAccess` | an error of the server is taken for a token, with the message that one has entered (`client.c:175-180`) | `OwnToken` allows no token |
| `Machines`; `EndsOnExit` | the descriptors of every turn of the loop stay open (`client.c:46`) until the program ends by itself | `Limit` |
| `Machines`; `ByAverage` | within a state, means come in the order of the categories (`task_runner.py:385`), not in descending order of the means as the comment at 341-342 says | none |

Without an instance: the docstrings of `worst5` and `best5`
(`task_runner.py:144,187`) each name the other's list, and a question in neither
list is answered by `best5` as by `worst5`; a mean without rows divides by zero;
an id returned for a request after a shutdown has no entry in `jobs`, so polling
it raises `KeyError`; a calculation that raises ends its pool thread, so when
all have ended the queue is not served any more; `inorderKeyQuery`
(`Cipher.c:92`) never doubles its 100 entries though `Cipher.h` says so;
`add_book` uses fields that may be missing (`client.c:257-260`), and the end of
the input repeats the last command.

## 5. What is proved

All theorems are checked by TLAPS with no step left out. They hold for every
value of the constants that satisfies the assumption named with the module, and
for any number of threads, requests, packets, hosts, tasks, rows or sessions;
TLC evaluates the assumptions on every run. Where a theorem has a further
hypothesis, it is the guard under which the run of section 3 checks the property,
and section 4 says what goes wrong without it.

| module | property of a run | theorem | hypothesis |
|---|---|---|---|
| `SoSchedulerProofs` | `MutualExclusion` | `Exclusive` | |
| | `PriorityRespected` | `RespectsPriority` | |
| | `DoneIsLast` | `DonePostedLast` | |
| | `NoUseAfterFree` | `FreedLast` | |
| | `IsOneProcessor` | `ImplementsProcessor` | `~LoneWait` |
| | `FifoAmongEquals` | `FirstComeFirstServed` | `~LoneWait` |
| | `QuantumEnforced` | `QuantumHolds` | `~LoneWait` |
| `StatsServerProofs` | `TakenOnce` | `TaskTakenOnce` | |
| | `AnswersRight` | `AnswersAreRight` | |
| | `DoneStays` | `DoneIsStable` | |
| | `DrainsBeforeReturn` | `ShutdownDrains` | |
| `RouterProofs` | `PacketsKept` | `NoPacketLost` | |
| | `FlowOrder` | `FlowKeepsOrder` | |
| `StructuresProofs` | `FindsDisjoint` | `FindsDisjointRoutes` | |
| | `AddsUp` | `ChecksumStaysRight` | |
| | `StationIsTrains` | `RelinkingKeepsTrains` | `SamePlatform = FALSE` |
| | `HeaviestFound` | `HeaviestSequence` | `SamePlatform = FALSE` |
| | `PackedIsList` | `PackedShowsList` | `Copy = "whole"`, indexes from 0 |
| `MyHostProofs` | `FinishOnce` | `TasksFinishOnce` | |
| | `PreemptionNests` | `InterruptsNest` | |
| | `PicksHighest` | `HighestIsPicked` | `~Overlap` |
| | `WorkLeftExact` | `WorkLeftIsExact` | `~Overlap`, whole quanta |
| `MachinesProofs` | `ChoosesFairly` | `DispatcherIsFair` | |
| | `ContoursRight` | `ContoursAreRight` | |
| | `OwnToken` | `TokenIsOwn` | |
| | `PiecesDoNotMatter` | `NoPieceIsMissed` | |
| `GamesProofs` | `CrtMoviesFresh` | `ShownIsFresh` | |
| | `AccountsAgree` | `AccountsStayRight` | |
| | `CardsSound` | `CardsStaySound` | |
| | `FrozenWaits` | `FrozenCardsWait` | |

The argument is the same throughout: an inductive invariant `IInv`, a
conjunction of named parts each commented with what it says of the code; a lemma
that `Init` implies it; one lemma per action, or per group of actions that
disturb the same parts; the property from the invariant.

### 5.1 `SoSchedulerProofs` (assumes `ConstantsOK`)

`Invariance: Spec => []IInv`, where
`IInv == TypeOK /\ Tokens /\ QueueInv /\ StatusInv /\ CreatedInv /\ MainInv`.
From it: `TypeCorrect`, `Exclusive` (`MutualExclusion`), `RunsCurrent`
(`RunnerIsCurrent`: who holds the processor is `curr_thread`),
`RespectsPriority` (`PriorityRespected`), `DonePostedLast` (`DoneIsLast`),
`FreedLast` (`NoUseAfterFree`): all of `sched_safety`, for any number of
threads, priorities, devices and calls, with failing allocations and lone waits.

*Why a strengthening.* `MutualExclusion` says that two threads are not in their
handlers; it is not inductive, since a thread with a posted semaphore is about
to enter one. `Tokens` therefore counts the processor as held from the
`sem_post` on, and ties it to `curr` and to `done`: at most one of "somebody
holds the processor" and "`done` is posted" is true. That `verif` posts for the
right thread needs the queue's threads to be created and not the caller's own
(`QueueInv`, `StatusInv`); that a new thread starts with an empty semaphore, and
that freeing finds every thread gone, needs `CreatedInv` and `MainInv`.

*How.* Lemmas about the operators come first: `SlotForIs` (the scan stops inside
or one past the queue), `AddThreadIs` and `AddAllIs` (they keep the queue sorted
and its members), `FrontIs` (removal of the last), `VerifIs` (what each outcome
of `verif` leaves). `VerifStep` is the heart: one call of `verif` moves the
token and preserves three conjuncts at once. Then one lemma per action builds
the arguments with which its call reaches `VerifStep`.

*Whose turn it is.* The second half of the module proves the safety properties
of `sched_discipline` under its condition `~LoneWait`: no handler calls `so_wait`
when nothing else is ready (with such a call the processor stays where it
is and a waiting thread goes on, which `OneProcessor` does not allow). `TurnInv`
adds to `IInv` what a refinement needs and safety did not: `Placed`, a thread's
status says exactly where it is (ready exactly when in the queue, terminated once
out of its handler); `Once`, neither the queue nor `threads` names a thread
twice, without which a removal would leave a second entry behind; and
`TimeLeft`, the current thread has time left while an equal is next, so that a
quantum that reaches zero does so in the very call that gives the processor
away. `KeepsBehind` says of two queues that nobody who enters, or stays, passes
an equal of the first; `AddThreadKeeps`, `AddAllKeeps` and the removal from the
end have it, and it composes, through the loop of `so_signal` by `SetInduction`.
`NextTurn` then shows of every action, at once, the invariant, the step of
`OneProcessor` it maps to, the FIFO order and the quantum. `ImplementsProcessor`
is the refinement theorem: the initial states map to initial ones, and every step
to a step of `OneProcessor` or a stutter.

### 5.2 `StatsServerProofs` (assumes `ServerConstants`)

For any requests, pool threads and clients, requests and threads being finitely
many. `TakenOnce` needs `OnePlace`: a task that was put is queued once, or in the
hands of one thread, or neither, and a queued one is not on disk. The others are
about ids, and hold only as long as no two handlers have interleaved on the counter
(`raced` is part of the properties). `IdsApart` is what an id is worth until then:
every handler that has stored the counter stored a value of its own, below the
present one. With it `FileInHand` follows each file through `open`, `dump` and
`mark`: nobody else writes it, so what the thread marks as done is its own result.
`PollKnown` carries the check of the status in `get_results` to the later reading
of the file. `Leaving` and `Kept` are the shutdown: a thread leaves only with the
flag set and nothing accepted queued, and an accepted task is queued, in hand, or
on disk; when all have left, only the disk remains. `CountBound` bounds the
counter, which two handlers may also set back, by a cardinality argument.

### 5.3 `RouterProofs` (assumes `RouterConstants`)

For any hosts and next hops, any number of frames of either kind. `PacketsKept` is
made inductive by `FromLog` and `InPlace`: every frame sent and every packet in
the queue is of a packet that came, and each packet that came is in one place, the
answers, the queue, or neither if its checksum was wrong. `WaitingTtl` says that a
waiting packet has been counted down already, since `reply_arp` does not do it
again. `FlowOrder` needs `QueueOrder`: the queue is in order of arrival, and what
it holds for a next hop came after everything sent towards it. This is
maintained because a packet is queued only while its next hop is unresolved
(`QueueUnresolved`) and the one reply that resolves it empties the queue in order.

### 5.4 `MyHostProofs` (assumes `HostConstants`)

`FinishOnce`, `PreemptionNests` and the types hold under every interleaving of
`addTask` with the host. The reason is `StoresBeyond`: an `add` that read the size
before a `remove` stores at or after the size it read, beyond what the `remove`
moves; so a task can be lost (section 4) but not listed twice (`ListedOnce`), and
a finished one does not come back (`Over`).

For `PreemptionNests`, `NestInv`: a task that was begun has only tasks of lower
priority before it in the list (`Leads`), so `forEach`, which keeps the first of
equals, comes to it before it can pick an equal one; and whatever is added during
`forEach` or `remove`, a begun task is in the part of the list they deal with
(`Within`). `Scanned` is `forEach` on its way: the current task has beaten, or
comes before, every task passed. `Above`, the property with the steps in between,
follows when the next task is picked: a task left for another was preemptible, and
a begun one that was passed over is of lower priority than the one picked.

The other two assume `~Overlap`: `addTask` does not run between the host's
accesses to the list (`Serial`). The part `forEach` has passed at its end is then
the whole list, and `Scanned` gives `PicksHighest`. `WorkLeftExact` relates a running total to a sum over the list;
`Totals` is that relation at the points where one of the two was updated and
the other was not yet. It assumes besides that durations are multiples of the
quantum: otherwise the last quantum takes more from the total than was left, and
TLC shows the property violated.

### 5.5 `MachinesProofs` (assumes `DispatcherConstants`, `ImageConstants`, `ClientConstants`)

`MCMachines` runs four programs of which only the one named by `on` moves;
`EachAlone` says that a behaviour of `MachinesSpec` is one of each.

*Dispatcher.* `Rounds(k)`: round robin has gone over all hosts `k` times and, in the
present round, given a task to `1 .. lastIndex`; `Balanced` is read off from it.
For the scans, `LoadsFall`: between a call and its choice no host gets a task, so
a load read later is no larger; `Scanning`: the host kept is no more loaded
than any it has passed was at the call. That executing a quantum of a list does
not increase the work left needs sums over lists (`WorkFalls`).

*Contours.* The shares are products and quotients: `ShareIs` (a share ends where
the next begins), `StartEnds` (the first begins at 0, the last ends at `RESCALE`),
`StartsRise` and `SharesCover` (every row is in a share) are lemmas of integer
arithmetic, by which no row is done twice and none is left out, for any number of
rows and threads. The invariant then
follows the threads: created in order (`Created`), each in its share with the
rows behind it done (`InShare`, `ByRow`), all at their end when `main` goes on
(`Joined`). `CornersAre` gives the corners a square's configuration stands for, so
that neighbours agree on those they share.

*Web client.* `Session`: the client is logged in exactly when it has a cookie, a
request under way is one its state allows, and a login that was accepted has opened
a session. `OwnToken` alone is not inductive: that no login changes the cookie
while a token of the session before it is held rests on login being refused to who
is logged in, which the client tests when the request is typed, many steps before the
answer is handled. `Reception` is about the two loops: the first goes on while the
header has not come or tells no length, the second while something of the response is
missing, and its total is then the size of the response; each piece keeps it because
the end found (`header_end`) is the end of the header, however the terminator was cut.
`NoPieceIsMissed` follows with `Bodies` (a response from which a text is cut has a
body) and `SearchIs` (in all of a response a text that is there is found).
`ClientConstants` says that no response is larger than a `size_t`.

### 5.6 `StructuresProofs` (assumes `LookupConstants`, `WordIsLarger`, `StationConstants`, `PackedConstants`)

*The table.* `SearchTypes` (`TypeOK`: in particular the indices never leave the table) and
`FindsDisjointRoutes` (`FindsDisjoint`), for tables of any length over any
address space. The strengthening is `Searched`: in a table of disjoint blocks
without a default route a match is the one kept or still between `left` and
`right`. `LeftIsHigher` is the step that needs disjointness: if the address lies
above (below) the block in the middle, every matching block does too and
is on that side of the table. `Kept` says that a kept match is right of the
range, so that the last one is never searched again.

*The header.* `ChecksumStaysRight` (`AddsUp`): over any number of routers, header and
checksum add up to all ones. `UpdateAddsOne` reduces the complement arithmetic
to `c + 1` for every checksum below the largest word (the largest would need a
header that sums to 0, and its TTL is above 0); a TTL smaller by one is what
that makes up for.

*The station.* `StationInvariance`: `StationInv` says that on every platform the
links lead through a sequence of cars, each once (`Once`, `Linked`), all of them
allocated, and that no two platforms share a car (`Apart`). It is what makes the
refinement provable at all: `Trains` knows no links, and a step that relinks one list
is a step of `Trains` only if no other list runs through the cars it changes.
`ListIs` is the step from links to sequences (links that lead through a sequence are
read as that sequence) and carries every operation: each has a lemma
(`LeaveStep`, `AddStep`, `RemoveStep`, `MoveStep`, `OrderStep`, `FixStep`, ...) which names the sequences
after it, shows that the new links lead through them (`LinkedSame` for the platforms
it leaves alone), and that their weights are the ones `Trains` has. A move is a
cut and a splice (`CutLinked`, `SpliceLinked`); the passes of `remove_train_cars`
keep what `Without` keeps, link by link (`PassIs`); `order_train` is an
induction over the weights, in which the cars copied so far are those up to a weight, each
once, the heaviest first (`Arranged`, `ArrangesNext`). `RelinkingKeepsTrains` and
`HeaviestSequence` follow. For the second `SlideFinds` shows by induction over the
slides that the sum kept is the window's and the maximum that of all windows so far,
and `BestIs` that the scan over the platforms keeps the first best. `StationConstants`
bounds weights to 1 .. 9999: `order_train` looks for the lightest car above 0 and
below 10000 (`station.c:472-487`), so that a car of weight 0 is dropped where it orders the others, and a
train of cars that all weigh 10000 or more is left as it was.

*The packed array.* `PackedInvariance`: `PackedInv` says that there are offsets at
which the records of the list lie, byte by byte, each beginning where the one before
ends (`Laid`). The list shown is right because a walk over the lengths comes by
exactly these offsets (`WalkIs`), which needs every record before the
one looked for to be whole: `PackedIsList` speaks of what is printed and the invariant of the
block. An insertion opens a gap by moving the tail (`AddOpens`,
`InsertLays`), a deletion moves the tail over the record that goes (`DeleteLays`),
and `memcpy` of the whole (`MemcpyIs`) makes both a patch of the block.

*The cipher.* `DecryptUndoesEncrypt` is `DecryptUndoes` of `CipherRight` for every
alphabet, message and key of offsets (positions in the text, so numbers from 0):
what `% 26` does to sums and differences that C would leave negative (`ShiftUndone`),
and that both directions give a letter the same offset, because a space stays
one.

### 5.7 `GamesProofs` (assumes `TVConstants`, `GwentConstants`)

*POO TV*, for any accounts, films, grades and prices, the accounts being
finitely many. `TVInv` adds to the two properties what
makes them inductive. `InSession`: outside the pages of an account nobody is logged
in, nothing is shown and the history is empty; a page in the history that shows films
was entered by the account that is logged in, so that going back to it cannot show
them to another. `Unseen`: a film still to be added is in no list and no counter,
so that its ratings start at 0 and stay with its raters. That nothing is watched or
liked that is not purchased, or rated that is not watched (`WatchedBought`), is kept by
a deletion because it takes a film from all four lists of an account or from none;
`DatabaseChanges` is what an addition and a deletion have in common. `Updates` is the step of the features that change an account and a
film's counters, with `Becomes` for the account.

*GwentStone*, for any decks of different cards and heroes among the four, rows of
any length, any number of turns and games. `CardsSound` and `FrozenWaits` come from
one invariant, `GwentInv`. `Different` says that decks, hands and rows hold every
card once. What keeps it is how a command changes a list: the new one is a
`Thinner` one, whose cards have origins in the old list that are all different
(`ThinnedDiffer`), or one card leaves a list for the end of another
(`MovedDiffer`). `AllSturdy` says of the cards that may still be placed what
`NoDeadCard` says of those on the table. `FrozenStays` is then a matter of origins:
every command changes the table so that a card's origin is `Gentle` to it (same
card, still frozen and no more active if it was frozen), and since no other card has its id, its
origin is what the property calls the same card. `Strikes` is the step for attacks
and abilities, where both positions may be one card; `LivingIs` is an induction over
the loop by which Firestorm takes the dead away. A stolen card may even come back
to its own row, as the arithmetic of `heartHound` allows (`RowToRow`).

### 5.8 `InductionLemmas`

The library's induction theorems take an operator as their argument, which the
provers cannot instantiate. `LeastElement` and `SetInduction` say the same of sets
of numbers, from the well-foundedness of `<`. On them rests what is proved of
recursive functions: `Iterates` (in `StructuresProofs`) shows that an equation which gives
`g[k]` from `g[k - 1]` defines one. On them also rest the lemmas about
finite sums: `SumOf` is a function on the subsets of a set, defined by one equation;
`SumExists` shows that there is one, `SumAnyOrder` and `SumLaws` that a sum does
not depend on the order and loses or gains what an element contributes, and
`SumOfPlaces` turns a sum over a list without repetition into a sum over its
elements, which is how `getWorkLeft` and the dispatcher's loads are reasoned about.

## 6. What is only model-checked, and what is left out

* **Liveness** (`ReadyRuns`, `EndCompletes`, `TaskRuns`, `QueuedLeaves`,
  `AddedFinishes`, `ShutdownEnds`): outside the prover's reach.
* **Trees, the cipher and the dictionaries** (`TreeSound`, `CipherRight`,
  `DictionariesAgree`): `TreeMap`, `Cipher` and `Dictionaries` walk up and down
  trees of any shape with recursive operators, about which these provers have no
  induction. The three are checked on all small instances and not proved, but for
  the half of `CipherRight` that needs no tree (`DecryptUndoesEncrypt`).
  `Station` and `PackedArray` recurse over numbers only, so they are written with
  recursive functions, whose values the lemma `Iterates` gives.
* **Statistics**: `StatisticsAgree` is about sums of arbitrary tables, which are folds
  over data, and about `SortSeq`, which keeps the order of ties only as TLC evaluates
  it; its definition says nothing of a list with ties.

Left out on purpose: identifiers returned to callers (`tid_t`), logging, the
text of HTTP requests, bodies and results; IP payloads; raw sockets and `select`;
the parsing of the route file and of JSON input; the growth of `ArrayList`'s
array; weak memory; what is only printed. In `StatsServer` the nine calculations
are a result or an exception; `Statistics` says what they compute. Arrays of
`so_scheduler.c` are as long as needed (`WithinCapacity` shows that the program
does not test it). Where C has undefined behaviour the model has a choice
(`garbage`, `Garbage`, `wild`, `Copy`) or stops (`undefined`).

## 7. Plan

Further work, in order. A module takes its place among the runs by merging
questions that share an instance.

1. **Abstract specifications and refinement.** After `OneProcessor`, which is
   proved, and `Trains`: a job service (a job is submitted, running, answered once)
   implemented by `StatsServer` as long as no two handlers raced; a
   store-and-forward node with a queue per next hop implemented by `Router`.
2. **More of the programs.** `GpuMiner` (threads that publish nonce and hash
   separately), `Tables` (merging and queries), `Lambda` (substitution without
   capture, the two reduction strategies).

## 8. How to run

In this directory: `tlc -workers 2 -config SchedSafety.cfg MCSoScheduler`
(`PROJECT.json` lists the module of each `.cfg`), and `tlapm SoSchedulerProofs.tla`.
`PROJECT.json` maps every definition to the lines it models, lists the runs, the
variants that violate each property, the findings, the hazards of the code and
the theorems.
