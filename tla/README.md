# A verification of morecpp

morecpp is a collection of C++ programs: a Boost.Asio chat server and its client,
concurrent containers with and without locks, hand-written containers, smart
pointers and linked lists, string classes, textbook algorithms and small demos.
There is no build that ties them together; each source file is a system of its
own. The modules in this directory model the parts that keep state, run
concurrently or make promises in their comments, tests or READMEs. TLC checks
them on small instances, and TLAPS proves the properties that matter most for
every value of the constants.

    tlc -workers 2 -config MCChat.cfg MCChatServer.tla
    tlapm ChatServer_proofs.tla

## 1. Inventory

What each component keeps, what it does, what makes it hard, and what makes it
correct. The last column says where it stands.

### Concurrent and distributed

| component | state | operations | hard | correct when | status |
|---|---|---|---|---|---|
| **chat server** `runboost/chat_server.cpp` | the acceptor; the room's set of sessions; per session an outbox, a name, a stopped flag, one read and one write outstanding | accept, start, deliver, read a line (text, `/name`, `/quit`, oversized, empty), write completion, stop, room join/leave/broadcast, Ctrl-C | handlers of many strands on several threads; a connection may fail at any moment; handlers that were posted before it failed still run | every member gets the room's messages in order, without a gap; a stopped session leaves once; queued messages get written | modelled |
| **chat client** `runboost/chat_client.cpp` | outbox, connected, closing, one read and one write outstanding; a second thread reads the keyboard | start, connect, write, write and close, close, read and write completions, the input thread, Ctrl-C | lines are typed before the connection is up; `/quit` races the last write; two threads | lines go out in order behind the name; `/quit` sends everything; every way to end ends the program | modelled |
| **lock-free stack** `concurrency/lock_free_stack.cpp` | a head pointer with an external count; nodes with an internal count | push/emplace, pop | ABA, use after free, split reference counts | linearizable; a node is freed by its last reader, exactly once | modelled |
| **closable queue** `concurrency/thread_queue.cpp` | a `std::queue`, a closed flag, a mutex and a condition variable | push, try_pop, wait_and_pop, close; worker and producer loops | lost wakeups, spurious wakeups, close against push and wait | FIFO, each job once, nobody sleeps on a job or on a closed queue | modelled |
| **DNS cache and work queue** `concurrency/dns.cpp` | cache under a shared mutex, queue of domains, worker threads | find, update, push, stop, worker loop | lost wakeups; a stop while domains wait | every pushed domain is in the cache that main prints, and main gets there | example 3 modelled |
| **lookup table** `concurrency/threadsafe_lookup_table.cpp` | buckets, a shared mutex each | value_for, add_or_update_mapping, remove_mapping | per-bucket locks, an iterator used after the search | refines one atomic map | modelled |
| **mutex stacks** `concurrency/my_stack.cpp`, `lock_base_stack.cpp` | a `std::stack` and a mutex | push, pop, empty | producers that interleave; `empty()` and `pop()` lock apart, which only a second consumer would notice | everything pushed is taken, in LIFO order; pop never throws in the examples | modelled |
| **parallel accumulate** `concurrency/accumulate.cpp` | per-block results | partition, sum | the last block, fewer elements than threads | each element counted once, in order | modelled |
| **timers, thread demos** `sample_boost/timer.cpp`, `cthreads/*.c`, `concurrency/hello.cpp`, `race_deadlock.cpp` | a shared counter | tick, increment | lost updates | the count is exact | what is synchronised is modelled |
| **two-lock queue** `concurrency/single_thread_queue.cpp` | | | | | not modelled |

### Sequential containers and owners

| component | state | operations | hard | correct when | status |
|---|---|---|---|---|---|
| **circular buffer** `impl/circular_buffer.cpp` | slots (optionals), head, tail, size | push, push_overwrite, pop, front | wrap-around, full and empty look alike, slots must be reset | a bounded FIFO queue whose overwrite drops the oldest | modelled |
| **conflating queue** `impl/conflating_queue.cpp` | a list of entries and a map of iterators into it | push_overwrite, pop | an iterator that outlives its node; a push of which the second or third step throws | no iterator to a freed or an older entry; a FIFO of distinct keys with the newest values, as long as nothing throws | modelled |
| **learning::Vector** `containers/vector.hpp` | an allocation, size and capacity | emplace_back, push_back, reserve, pop_back, clear, destruction | exceptions in the middle of growth, arguments that alias elements, overflow of the doubled capacity | lifetimes are balanced, calls take effect entirely or not at all, growth is amortized | modelled |
| **ds::List** `algorithms/linked_list/link.hpp` | a ring of nodes around a sentinel, a size, an allocator | insert, emplace, erase of one or of a range, push and pop at both ends, clear, copy, move, swap | the sentinel's neighbours after swap and move; allocators that differ; an allocation that throws | rings intact in both directions, every node freed by its own allocator, refines a sequence | modelled |
| **linked-list exercises** `doubly.cpp`, `linked_list.cpp`, `data/list.hpp` | nodes and links | push, pop, insert, erase; pair-wise swap, count, cycle detection, trees to lists | links at both ends, links rewired during a walk | refine sequences; keep every node | modelled, except `MyStack` and `__erase_` |
| **unique_ptr** `impl/simple_unique_ptr.cpp`, `containers/unique_ptr.hpp` | a pointer | move, reset, release, swap | reset to the object that is owned | exactly one owner | modelled |
| **string classes** `strings/compact.hpp`, `string.hpp` | a buffer or a heap block | construct, copy, move, concat, substr | the switch between the two, order of free and take | one owner per heap block, refines a sequence | `CompactString` modelled |
| **task manager** `algorithms/design/design.cpp` | a map and an ordered set | add, edit, rmv, execTop | the two disagree | execTop runs the task of the highest priority and then of the highest number | modelled |

### Pure algorithms

| component | functions | hard | correct when | status |
|---|---|---|---|---|
| **graphs** `algorithms/graphs` | flood fill, topological order, 0-1 search, counting paths, schedules of semesters, union-find, Dijkstra and counting shortest paths | outdated heap entries, union by root, subsets of what is ready | the answer is that of reachability, of all routes, of all schedules | modelled |
| **dynamic programs** `algorithms/dp` | edit distance, knapsack, jobs, partitions, palindromes and others | tables updated in place, upper and lower bounds | best over all choices; two versions agree | modelled, except `solve_sudoku` |
| **strings** `algorithms/strings`, `data/string_hasing.hpp` | KMP, masks of parity, subsequences, matching, hashing | the failure table, the empty prefix | the answer is that of all substrings or subsequences | modelled |
| **trees** `algorithms/trees` | heights, sums over paths, lowest common ancestor, next links, distances | negative sums, recursion against queue | the answer is that of the places of the nodes | modelled |
| **arrays and bits** `algorithms/array`, `binary_search`, `bits`, `vec`, `data`, `pearls` | three sums, Fenwick and sparse tables, partition, heap sort, trapped water, bitmaps | indices at the ends, bits in words | the answer is that of all indices | modelled |

### Not modelled

| component | why |
|---|---|
| `concurrency/single_thread_queue.cpp` | neither class can be instantiated: `push` assigns a `const node*` to a `node*`, and `empty()` is declared `void` and returns a value |
| `tensor/matrix.hpp`, `tensor/fft.hpp` | the first has syntax errors; the second is floating-point arithmetic |
| `strings/string.hpp` | `~String()` is declared and nowhere defined, so no program has a `String` |
| `data/vec.hpp`, `algorithms/data/treap.hpp`, `__erase_` of `data/list.hpp`, the move assignment of `SimpleUniquePtr`, the copies of `my_vector` | do not compile when they are used |
| `algorithms/dp`'s `solve_sudoku` | reads tables that nothing initialises; every answer is possible |
| `MyStack` of `linked_list.cpp`, `to_lower` and `strdup` of `vec.cpp` | a linked stack and copies of characters, sequential and without a case that a model would tell |
| examples 1 and 2 of `dns.cpp` | readers and one-shot tasks on the cache of example 3; the lookup is a function of the domain, so no order of them can be told from another |
| `coroutines` | `co.cpp` does not compile (line 50); `cou.cpp` resumes one counter from one thread |
| `cthreads/sharing.c`, `concurrency/hello.cpp`, `race_deadlock.cpp` | `sharing.c` increments and prints a counter without a lock and promises nothing about it; the other two share nothing between threads |
| daytime programs in `sample_boost` | one line per connection, no state |
| `stl`, `atorus`, `lan` | tours of the library |

The components do not call each other, except that client and server speak a
line protocol (`runboost/chat_protocol.hpp`). Each side is modelled against an
arbitrary peer, so neither relies on the other to behave. `PROJECT.json` lists every component with its status and every
hazard with its line.

## 2. How the modules are built

A component has a module of its own with its state as variables and one action
per handler, operation or atomic step; the names are those of the code. Where
the component promises something a user could state without knowing the code,
an abstract module states it, and the detailed module has a refinement mapping:

| detailed | implements | meaning |
|---|---|---|
| `ChatServer` | `TotalOrderBroadcast` | one log; each session receives the messages from its arrival to its departure |
| `LockFreeStack` | `LifoStack` | each call takes effect in one step |
| `CircularBuffer` | `BoundedFifo` | a bounded queue, overwriting drops the oldest |
| `ConflatingQueue` | `ConflatedFifo` | distinct keys in order of arrival, each with its newest value; what a push that throws may drop and leave |
| `Vector` | `VectorObject` | a sequence and a capacity; a call that throws changes nothing except elements moved from |
| `RingList`, `DoublyLinkedList`, `CompactString` | `SequenceObjects` | objects that hold sequences; copies, moves, swaps and throws take effect as a whole |
| `LookupTable` | `LookupMap` | one map; each call takes effect at one moment between its start and its return |

`MC*.tla` add what only model checking needs: symmetry, inputs, or a choice of component.
A run without such a module checks the component's module directly. `MCContainers`, `MCLists`
and `MCThreads` hold several small systems, and `MCSequences` the vector and the lists of
`MCLists`; a behaviour starts by choosing the one it
runs, and what the others' variables hold then never changes. `MCAlgorithms` has one step per
call of a pure function. `*_proofs.tla`
hold theorems. Definitions named `X_Something` after a definition `X`, with the
comment "Mutant", are wrong versions of `X`: with one of them in the place of `X` TLC
finds the property violated that `PROJECT.json` pairs it with, which shows that
the property depends on the code being as it is.

## 3. The models

### ChatServer

One action per handler of the io_context. A strand runs its handlers one at a
time in posting order, so the room's strand is the queue `roomQ` and a session's
strand the queue `strandQ[s]` of the messages `deliver()` has posted. The read and
write completions of a session are bound to its strand too but come at any time
after the operation began, so they are actions enabled while the operation is
outstanding: `readOp` and `writeOp`. A handler is one step, because it only
touches the state of its own strand and posts to others. The exception is
`chat_session::start()`: it runs in the accept handler, outside the
session's strand (L250-252), and its three calls are three steps (`StartJoin`,
`StartDeliver`, `StartRead`), between which other threads run.

`OnOversized`, `OnNothing`, `OnQuit`, `OnRename` and `OnText` are the branches of
`on_read`; `ReadFailed`, `WriteFailed` and `AcceptFailed` its and the others' error
paths; `RoomJoin`, `RoomLeave` and `RoomBroadcast` the handlers of the room.
`Stop` is an operator that the handlers which call it share. Messages are
reduced to who speaks, under which name and to which end.

What the model shows the code to do, beyond its properties: `on_read` does not test
`stopped_`, so lines that had already arrived when a write failed are broadcast
after the room was told that their sender left; messages that wait in
the outbox are dropped when a session stops; the acceptor is closed by a handler
that is posted to the io_context and not to a strand; the wait on the signals is
not renewed, so a second Ctrl-C does nothing.

`log` and `written` are history variables, the messages in the order of the room
and of each socket.

### ChatClient

The strand's handlers (connect, posted writes and closes, read and write
completions), the input thread, the signal handler and `main`, against a server
and a user that do anything. `posted` is the queue of the strand. After
`io.run()` has returned, `main` joins the input thread or detaches it (L225-233);
what a detached thread does while `main` destroys the objects it uses is
undefined behaviour and is not modelled. At the end of its input the program
closes without sending what is queued; no document promises otherwise, so
`QuitSendsAll` is stated for `/quit` alone, which closes by way of `close_after_write_` (L136).

### LockFreeStack

One action per atomic access: allocate and fill a node, the exchange that links
it, the load of `head_`, the exchange that takes a reference, the read of
`next`, the exchange that unlinks, the transfer of counts, the release. Addresses
are reused after `delete`, so ABA happens. Memory is
sequentially consistent: the model does not show whether the acquire, release and
relaxed orders are enough.

### ThreadsafeQueue

What runs under the mutex is one action; the notification comes after the unlock
and is another. A thread that waits on the condition variable is asleep until a
notification or a spurious wakeup, and then tests the predicate under the lock
again. `Workers`, `Producers`, `Pollers` and `Closer` are the threads of the two
examples, with any number of each, and a poller to steal jobs. A `push` on the closed
queue throws; the model lets that end the thread.

### CircularBuffer, ConflatingQueue

One action per call, as the classes are not thread safe. In `ConflatingQueue` list nodes
are addresses that are reused, so an iterator that outlives its node is visible. A push of a new
key takes up to three steps: the oldest entry of a full queue goes (L225-229), the new one is appended to the list
(L231), and the map is told of it (L233). The last two allocate. `Emplace` has an outcome for each place where
`std::bad_alloc` may leave the call: the eviction alone, the eviction and an entry that the map does not know,
or all of it. The code takes nothing back, so behaviours go on from each of these states, and finding 3
comes from the second. `unmapped` in `ConflatedFifo` is the set of keys with such an entry: only a
key in it can be pending twice. Evictions and pops go by the key of the oldest entry (L227), and so take a
newer entry of the same key out of the map, which is in the model too. Keys and values that throw when they are
hashed, compared or moved are left out.

### RingList, DoublyLinkedList, CompactString

One action per call over a heap of addresses: `next`, `prev`, the value and, in
`RingList`, the allocator that each node came from. The private helpers of the code
(`reset_empty`, `repair_sentinel_links`, `link_before`, `unlink`, `steal_nodes_from`) are
operators of the same name from heap to heap, and a call composes them in the order of
the code. An allocation throws when no address is left, so every copy can fail
in the middle. `propagates` stands for the allocator traits that the code asks, and
allocators may be unequal. The move assignment between unequal allocators moves element
by element and, when an allocation throws, leaves both lists with a part: `MoveStops`
in `SequenceObjects` says exactly that much.

`DoublyLinkedList` has one list, since copying it would share nodes and nobody does; nodes
are passed to `insert_after` and `erase` as the main program obtains them. `CompactString` keeps
a text in the object up to a length of `BUFFER_SIZE` and in a heap block above; characters are
members of a small set. Its sequences are checked through the same `SequenceObjects`.

### UniquePtr, TaskManager

`UniquePtr` has the pointers, the objects that exist and those that were released to the
caller, who may delete them, or give them to a pointer again. `TaskManager` has the map and
the ordered set as they are in the code, of pairs that are negated; its calls are those
the problem allows (add a task that is absent, edit and remove one that is there). A `st.insert` that
throws between the changes of the map and the set (L24, L30) is not modelled: `RunsHighest` is about calls that return.

### Vector

One action per construction of an element, because each constructor may throw.
What `std::move_if_noexcept` selects is chosen at the start: a move that cannot throw, a
copy, or a move that may throw because the element cannot be copied. Elements
that can be neither moved nor copied only meet `GrowRefused`. `emplace_back` gets
something to make an element from or one of the vector's own elements, to copy
or to move. A block is an allocation with its size and its slots; freed blocks are
reused. `appends` and `moves` are history variables.

### DnsWorkers

Example 3 of `dns.cpp`: `main` pushes the domains, stops the queue, joins the workers
and prints the cache; the locked parts of `push`, `pop` and `stop` are actions, the
notifications after the unlock are others, and so is the store in the cache. A waiting
worker is in `asleep` until a notification or a spurious wakeup. The lookup is a function of the
domain, so the cache is the set of domains that it holds.

### LookupTable

Taking the bucket's lock, the search, what is done with its result, and the release with
the return are four steps of a call. The hash is any function from keys to buckets, so two keys
in one bucket and two in different ones are both met.

### MutexStack, ParallelAccumulate, SharedCounters

The example programs with their threads: producers and a main that joins and drains;
a range of any length up to a bound that is split for any number of hardware threads, zero
included, with concatenation as the addition, so that order shows; and two counters whose
increments are a load and a store, one under a semaphore and one on a strand that two
threads run.

### The algorithms

`GraphAlgorithms`, `DynamicPrograms`, `StringAlgorithms`, `TreeAlgorithms`,
`ArrayAlgorithms` and `LinkedLists` translate each function to an operator of the same name, with the
loops of the code as recursion or folds in their order: a heap is a set of pairs of which
the least is taken, an array a sequence or a function. The operator at the end of each (`Graph`, `Dp`,
`Strings`, `Trees`, `Arrays`, `Lists`) dispatches a call, and the `Promise` beside it says
what the answer has to be, from a definition that has nothing in common with the
algorithm: all subsets, routes, subsequences, schedules or positions. The calls of
each file's `main` are among the inputs.

What the functions do that a reader might not expect; no document says otherwise,
and the promises are stated for the rest:

- `fill` looks for border cells with one bound for rows and columns, so it misses
  some of grids that are wider than high (the promise is for `Height >= Width`).
- `number_blast_suffix` and `number_blast_prefix` differ on negative numbers.
- `remove_invalid_parentheses` also returns strings of the right length that are not balanced.
- The two heights differ on an empty tree (0 and -1); `min_cost_time` answers -1 for one node.
- `make_array_increasing` takes the length before it adds sentinels and answers for the
  array without its last element.
- `count_distinct_subseq` overflows beyond about 30 letters; `insert_interval` has an unused
  loop that would not end.
- `bitmap_sort` drops duplicates, which is why the benchmark refuses inputs that have some.

## 4. The runs

Every run ends with no error, except the three marked *violation*.

| run | instance | properties | what it shows |
|---|---|---|---|
| `chat` | 2 sessions, 2 lines or 1 line and 1 fault, no Ctrl-C | `MemberView` `NameAnnounced` `WriteChain` `StoppedLeaves` `DepartureAnnounced` | What was written, queued and posted to a member adds up to the log from its arrival on; no text carries a name the room has not been told of; a queued message of a running session always has a write working towards it; whichever of reader, writer, `/quit` and oversized line stops a session first, it leaves the room, and is announced, once |
| `chat_liveness` | 2 sessions, 1 fault, Ctrl-C | `ImplementsBroadcast` `EventuallyWritten` `ShutdownWhenAlone` | The strands implement the broadcast; messages get written; only a connected client keeps the server alive after Ctrl-C |
| `chat_ctrl_c` *violation* | 2 sessions, Ctrl-C | `CtrlCShutsDown` | Finding 1 |
| `chat_oversized` *violation* | 2 sessions, 1 line | `OversizedNoticeSent` | Finding 2 |
| `conflating_throw` *violation* | 2 keys, 2 nodes | `MapMatchesList` | Finding 3 |
| `lock_free_stack` | 3 threads, 2 addresses, 3 pushes, counts up to 4 | `NoUseAfterFree` `ReferencesCounted` `NoLeak` `Linearizable` | With an address reused under three readers, the counts free each node once, and every call takes effect in one step |
| `thread_queue` | 2 workers, 2 producers of 2 jobs, 1 poller, a close | `FirstInFirstOut` `WakeupsCoverQueue` `StopsDrained` `EveryJobProcessed` `AllWorkersStop` `QueuedIsTaken` | No wakeup and no job is lost, whoever steals jobs and whenever the queue closes |
| `chat_client` | 3 lines, 1 received | `SentInOrder` `QuitSendsAll` `Terminates` | Lines leave in order, behind the name; `/quit` sends them all; the program ends |
| `containers` | see below | `OnlyStoredEngaged` `IteratorsValid` `StorageOwned` `RunsHighest` `ImplementsFifo` `ImplementsConflation` `ImplementsSequences` | Queues and strings behave as their abstract specifications and keep neither stale values nor stale iterators, and every block and object has one owner, also when a compact string cannot get a block or the conflating queue a node of its list or map; the task manager runs the right task |
| `sequences` | see below | `Lifetimes` `AppendIsAmortized` `NodesIntact` `ImplementsVector` `ImplementsLists` | The vector's elements live exactly where they will be destroyed, whatever throws, and growth relocates fewer than two elements per append; vector and lists are sequences to their callers, and every node is in one list, linked both ways, and freed by its own allocator, whatever was moved, swapped and thrown |
| `threads` | see below | `CountsExact` `ImplementsMap` `EveryDomainCached` | The table is one atomic map; the dns program prints a full cache; nothing that threads count is lost or counted twice |
| `algorithms` | see below | `GraphAnswers` `DpAnswers` `ArrayAnswers` `ListAnswers` | Each function answers what its definition says |

Some properties join what is of one kind in several systems: `CountsExact` is `DrainsAll`, `AddsEveryElement` and
`NoLostCount`; `StorageOwned` is `BlocksOwned` of the compact strings and `OneOwner` of the pointers; `NodesIntact` is
`RingsIntact` and `NodesLinked`, and `ImplementsLists` the refinements of both lists; `GraphAnswers` is about
trees too, and `ArrayAnswers` about strings. The type invariants of the client, the stack and the conflating queue are conjuncts of `SentInOrder`,
`ReferencesCounted` and `IteratorsValid`; those of the chat server, the queue of jobs, the circular
buffer and the vector are proved (section 6).

**Bounds.** Two sessions suffice for a message that crosses a join, a rename or a
departure of another member, and two lines for a rename that is followed by a
text, or for texts of two members; one broken connection already meets
every other handler at every point. More of each multiplies the states by the
interleavings of independent handlers (`chat`, the largest run, has 3.6 million states).
`MaxLines` counts the lines of all clients, `MaxFaults` their failures and `MaxEvents` both together,
so that `chat` has two lines, or one line and one fault. Three
threads and two addresses are the least with which one address is popped, freed,
pushed and popped again while a third thread still holds it; `MaxCount` only bounds
the reservations of one head. Two workers and two producers are the least where one
wakeup can go to the wrong thread. A buffer of three
slots has first, inner and last indices; four keys for three places force every
case of the conflating queue, a key that is pending twice and evicted included. The vector's limit is not a power of two and is
more than half of `SizeMod`, so the last doubling is capped and would overflow if it
were not. `containers`: a buffer of 3 slots; 4 keys, 2 values and a queue of 3; 3 compact strings of up to 2 characters, of
which 1 fits in the object, and 3 blocks; 2 pointers and 3 objects; 3 tasks with 2
priorities and 2 users. `sequences`: a vector of limit 5 with a `size_t` of 8 values and 6 appends; 2 ring lists with 3
nodes and 2 allocators; a doubly linked list of 4 nodes.
Two objects are what a copy, a move or a swap needs, and the last
allocation fails. `threads`: 3 threads on 2 keys in 1 or 2 buckets; 2 workers and 3 domains; 2
producers of 2 values; ranges of up to 9 elements for up to 4 hardware threads and 2 elements per
block, which meets a remainder, an exact division and fewer elements than threads; 2 iterations
of 2 threads; 2 timers up to 4. `algorithms`: every graph of 3 or 4 nodes, every grid of 9 cells, every
array or word of up to 4 or 5 elements out of 2 to 4 values, every tree of up to 4 or 5 nodes,
as the function can take, and a few hand-made inputs where the case needs a longer one (a union of
two trees needs 7 nodes).

**Symmetry** is used where sessions, threads or values are not told apart, in runs
without liveness properties. The refinements checked under symmetry
(`Linearizable`, `ImplementsVector`) are safety properties whose abstract specification is as symmetric.

**Deadlock** is checked everywhere except in `algorithms`, whose calls return. Elsewhere, where a program may really stop, a disjunct of
`Next` says so (`Idle`, `Finished`, `Ended`, `Gone`) with the condition under which it may,
so that a model that stops anywhere else is an error.

**Fairness.** The chat server assumes that the io_context's threads run every
handler that is ready, that closing a socket or acceptor completes its
operations, and that a write completes or fails; nothing is assumed of clients or
of who presses Ctrl-C. The client assumes the same of its outgoing side and that
`main` goes on. The queue assumes that the scheduler runs each thread that can run; it
does not assume spurious wakeups, polls or a close. The dns program assumes the same of its
main thread and of each worker.

## 5. Findings

1. **Ctrl-C does not shut the server down while a client is connected.**
   `runboost/README.md:8` lists "`signal_set` for Ctrl-C shutdown", but
   `chat_server::stop()` (L235) only closes the acceptor. Sessions keep their reads
   outstanding, so `io.run()` does not return. What does hold is `ShutdownWhenAlone`.
2. **The notice about an oversized line is never sent.** L106 delivers "message
   too large; closing connection" and L107 calls `stop()`, which sets `stopped_` before
   the handler that `deliver()` posted can run; that handler then drops the message (L61).
3. **A push that throws leaves an entry that the map does not know.** `impl/conflating_queue.cpp:84-86` says
   "The following invariants are maintained: Every key appears at most once in the list. Every key in the list
   has exactly one corresponding entry in the map." L231 appends the entry and L233 enters it into the map;
   when the second allocation throws, nothing removes the entry again, nor puts back the one that a full queue
   dropped at L226-228. The next push of the key does not find the entry and appends a second one. What does hold
   is `IteratorsValid`: no later call reaches a freed node or an older entry of a key, and entries without an
   iterator leave by way of eviction and `pop` in their turn.

## 6. The proofs

TLAPS proves these for every value of the constants that satisfies the module's
named assumption: any number of sessions, threads, jobs, slots and values.

| theorem | module | establishes |
|---|---|---|
| `TypeAndWrites` | `ChatServer_proofs` | `TypeOK` and `WriteChain` |
| `NoStoppedMember` | `ChatServer_proofs` | `StoppedLeaves` |
| `DeparturesTold`, `NamesKnown` | `ChatServer_proofs` | `DepartureAnnounced`; `NameAnnounced` |
| `MembersSeeTheLog`, `TotalOrder` | `ChatServer_proofs` | `MemberView`; `ImplementsBroadcast` |
| `MemorySafe`, `CountsExact`, `NothingLeaks` | `LockFreeStack_proofs` | `NoUseAfterFree`; `ReferencesCounted`; `NoLeak` |
| `Linearizability` | `LockFreeStack_proofs` | `Linearizable` |
| `Fifo`, `NoLostWakeup`, `CloseDrains` | `ThreadsafeQueue_proofs` | `FirstInFirstOut`; `WakeupsCoverQueue`; `StopsDrained` and `NoneAsleepAfterClose` |
| `EachJobOnce` | `ThreadsafeQueue_proofs` | `EveryJobProcessed` |
| `Invariants`, `Refinement` | `Containers_proofs` | `TailFollows` and `OnlyStoredEngaged`; `ImplementsFifo` |
| `NoStaleIterator`, `Conflates` | `Containers_proofs` | `IteratorsValid`; `ImplementsConflation`, both with the throws of a push |
| `StorageStaysOwned`, `TextsImplement` | `Containers_proofs` | `StorageOwned`; `ImplementsSequences` |
| `HighestFirst` | `Containers_proofs` | `RunsHighest` |
| `NodesStayIntact`, `ListsImplement` | `Lists_proofs` | `NodesIntact`; `ImplementsLists` |
| `BalancedLifetimes`, `Amortized` | `Vector_proofs` | `TypeOK` and `Lifetimes`; `AppendIsAmortized` |
| `WholeOrNothing` | `Vector_proofs` | `ImplementsVector` |
| `AtomicMap`, `NothingLost` | `Threads_proofs` | `ImplementsMap`; `CountsExact` |
| `LinesInOrder`, `QuitSends` | `ChatClient_proofs` | `SentInOrder`, with `TypeOK` and `WriteChain`; `QuitSendsAll` |

**Chat server.** `StoppedLeaves` (a stopped session has its leave queued, or is out of the
room with no join queued) is not inductive: a leave handled before the join of the same session would break it.
`IInv` adds why that cannot be: `Starting` (the accept
handler works for a session whose read has not begun), `BeforeJoin` (a session
whose join has not been posted cannot have stopped, joined or left) and `LeaveIsLast`
(on the room's strand no join or leave of a session follows its leave). The step
proof has one step per handler; lemmas state what `Append` and `Tail` do to what is
pending on the strand.

What the room announces is read off the *story*: the log, followed by the messages of the handlers
that are pending on the room's strand. A handler of the room moves one message from the second part
to the first and leaves the story as it was (`StoryRuns`), so `StoryInv` need only be shown where a session
posts: `ArrivesFirst` (the first message of a session is its only arrival), `DepartsOnce` (it departs once,
when it stops), `MembersAnnounced` (the room has the sessions that the log has as arrived and not as
departed) and `NamesTold` (each message carries the number of renames of its session before it).
`DepartureAnnounced` and `NameAnnounced` are what that says of the log, the front of the story.
`Effects` reduces the twenty actions to three cases: nothing is told, one of join, leave and speech is
posted, or the front handler runs.

`MemberView` is inductive only together with `StrangersView` (who is not in the room was handed
nothing public), and the refinement needs `TakenFromLog`, which is about stopped sessions too: what a session
took before it stopped stays an interval of the log. For a running session that follows from
`MemberView`, because what is written and queued is the beginning of what was handed over
(`PublicPrefix`). A room handler appends one message to the log and to the strand of each member;
every other handler moves messages along the chain from strand to outbox to socket. A `WriteDone` of a
public message maps to `Receive`, a handler of the room to `Publish` with `Join`, `Leave` or `Say`, all else to stuttering.

**Lock-free stack.** One invariant carries all four theorems. The stack is the one path from `head` along
the nodes' `next` to `NULL` (`Path`, with the lemma that there is at most one); nodes on it are live and
distinct, and each live node off it is at some thread (`NoLeak`). `ReferencesCounted` gives for each node what its
holders, its external and its internal count must add up to in each phase of its life: linked by a push, in the stack,
unlinked and not yet settled, settled. A thread that is about to read a node holds a reference, so the node
cannot be freed (`NoUseAfterFree`), and a compare-exchange that succeeds on an equal head has not met
another node at the same address. `OneGotChanges` and `AbstractReturn` carry the refinement of `LifoStack`.

**Queue.** `WakeupsCoverQueue` says that while a worker sleeps there are
at least as many threads on the way (about to notify, or about to test the
predicate) as jobs. A push adds a job and a thread about to notify; a notification trades that
thread for a woken one; a pop removes a job and, at worst, the thread that took
it. The cardinality steps rest on lemmas about replacing one thread in a set.
`NoneAsleepAfterClose` needs `ClosedOnce`, and `StopsDrained` that `push` throws on a
closed queue. `EveryJobProcessed` rests on `AcceptedOnce` (producers number their jobs) and
`HandedOutOnce` (a popped job was processed, is held by one busy worker, or went to a thread that
called `try_pop`, and there are no more of the last kind than such threads).

**Circular buffer.** `TailFollows` fixes the tail as `size_` places behind the
head modulo the capacity, which tells full from empty; lemmas about `%` for
an index that is advanced by one carry the rest. The refinement
maps the contents to the sequence of the `size_` slots from the head; each call maps to
the call of the same name.

**Vector.** `Lifetimes` and `AppendIsAmortized` share one inductive invariant. `CapacityPays` says
that below the limit the capacity is at least the number of relocations so far: growing from a
full capacity c relocates c elements and makes the capacity 2c, or reaches the limit, after which
it never grows again. With `size_ <= appends` this gives fewer than two relocations per append,
and `Limit < SizeMod` is what keeps the doubling from overflowing. `Progress` says what is built
at each point of a call. The lemmas about the heap say which slot an action brings to life or
ends; an action of the vector then has to show that the owned slots change likewise.
`WholeOrNothing` maps the contents to what the slots below `size_` store. `Halfway` says what a call that
may still throw has left in the slots it has read: a copy has changed nothing, and only a move that can
throw has spoiled the old elements, which is what `spoiling` allows.

**Lookup table.** A call acts on what its search found a step earlier, so `ImplementsMap` needs to know
that nothing moved in between: `FoundIsCurrent` (the place a thread is about to use is where a
search would find its key now), which rests on `Exclusive` (two threads in one bucket both read) and on
`OneEntryPerKey`. The lemmas `AppendEntry`, `AssignEntry` and `RemoveEntry` say what each change of a
bucket does to the value that a search for any key returns. `value_for`, `add_or_update_mapping` and
`remove_mapping` map to the abstract `Effect`, the call's start and end to `Begin` and `Return`, and taking
the lock and searching to stuttering.

**Conflating queue.** `TypeOK /\ IteratorsValid` is inductive, through every outcome of a push. It cannot be the
agreement of map and list that the comment of the class promises (finding 3); what survives a throw is that
an iterator leads to a node in the list with its key, and that no entry behind that node has the key. The
second part is what an update needs to reach the newest value. `Agree` states the invariant of any list, map and
nodes, so that the lemmas can be applied twice in a `push_overwrite` that evicts: `Dropped` for the
eviction, `Added` for the new entry, with the map as it was or with its key. `RoomMade` says what both cases of a push have
in common. For the refinement the same lemmas have counterparts about the
sequence of the entries (`EntriesDropped`, `EntriesAdded`) and the keys that the map does not lead to (`UnfoundDropped`,
`UnfoundAdded`). The assumption is `ConflatingQueueAssumption`: a capacity above 0, a `NoEntry` that is neither a node nor
an entry, and a `BadAlloc` that is neither. There may be any number of nodes, also fewer than the capacity.

**Several small systems in one module.** In `MCContainers`, `MCLists` and `MCThreads` a behaviour is one
of a chosen system, and the variables of the others stand still. The lemma `Alone` says that each step
is then a step of each system or leaves it alone, so each has an invariant of its own, whatever the choice. The theorems
about the vector and the lists are about `Spec` and `ListsSpec`; a step of `MCSequences` is a step of one and leaves the other
alone, so its behaviours satisfy both.

**Semaphore and strand.** What has been stored is the set of the pairs (thread, iteration) that are behind their
store; `SemaphoreInv` says that `cnt` is its cardinality, and that a thread between its load and its store is the
only one past the semaphore and has loaded the present `cnt`. With all threads done the set is the whole
product. `StrandInv` says the same of the two timers: one runs at a time, it has passed the test
`count_ < Limit`, and a timer is off only when the limit was reached.

**Stack with several producers.** `ContentsInv`: stack and taken together hold each pushed value, and
as many values as were pushed. `DrainInv` is about the main thread, which starts after the joins.

**Parallel sum.** `Cut[i]` is where block `i` ends: at `i` times the block size, and at the length for the last
one. `StartedInv` says that the started blocks lie between their cuts, `EndedInv` that each result is the sum between
its cuts. The sum is a concatenation, so joining the results is the range in order, however they came to be.

**Compact strings.** `CompactInv`: each string holds some text, in its buffer or in a block (`Holds`); no block is in
two strings; each allocated block is in one. `Renewed` is about any operation that replaces one string's content and
releases its former block, and nearly all operations are instances of it; a move has two strings that change.

**Unique pointers, task manager.** `OneOwner` and `RunsHighest` are inductive with the types. For `execTop` one has to
show that a non-empty finite set of pairs has a least one in the lexical order (`FirstExists`), which is what
`*st.begin()` is, and that negation turns it into the greatest.

**Doubly linked list.** `Listed(M)`: `M` is a sequence of distinct nodes, `next` and `prev` run through it from `head` to
`tail`, and its nodes are those allocated. `DoublyInv` says that there is such an `M`, and the walks in both directions
return it (`AlongIs`). Inserting and removing change `M` in one place.

**ds::List.** The helpers of the class are operators from heap to heap, so the lemmas are about any heap `h` and not about
the variable. `Good(h, R, C)`: in `h` each list `l`, the temporary included, has exactly the nodes `R[l]` as its ring, linked in both
directions, distinct from those of other lists, owned by its allocator, with the values `C[l]`, and every allocated
node is in a ring. Each helper takes a good heap to a good heap and says what becomes of `C`: `EmplaceGood`,
`EraseGood`, `ClearGood`, `StealGood`, `SwappedGood`. The last two share `ExchangeGood`: two lists that take each other's
ends are good once the end nodes point at their new sentinel, which is what `repair_sentinel_links` is
for. `RingInv` is that some `R` and `C` are good for the nodes, with the temporary empty. Loops (`PushAll`, `EraseAll`, `clear`,
the walk along a ring) are functions on `0..n` that refer to themselves; `RecursionExists` shows that such a function
exists, by induction over `n`, and `RingIs`, `PushAllGood`, `EraseAllGood` and `ClearGood` what it computes. Each call of the class then maps to the operation on
sequences of the same name; a constructor or assignment that throws maps to stuttering, and the
move between unequal allocators that throws to `MoveStops`.

**Chat client.** `SentInOrder` follows from what is still on its way: `Order` numbers the outbox
after what was sent, with the name counted once it is in front, and `LinesPosted` says that the strand's
handlers hold exactly the lines from `NextLine` to the last that was typed, in that order.
`QuitSendsAll` needs to know why the client ends: `Reasons` for the handlers that close it, and `Endings`
for the flags they leave. Only the last line typed sets `close_after_write_`, and only a chain of
writes that has emptied the outbox acts on it.

**Recursion and induction.** The library's induction theorems cannot be used, but `WFMin` can: `SetInduction`
derives from it that a set of numbers with 0 in it that is closed under successor is `Nat`. With
it `PublicIs` shows that `Public` is the value of the function its definition builds, and `Path` that a
list has one end.

**Assumptions.** Each theorem rests on the named assumptions of its modules only: bounds are natural numbers, the
values that stand for "none" are not members of the sets they are added to, addresses of lists and nodes differ, and where counts are taken
(`Threads` and `Nodes` of the lock-free stack, `Pollers` of the queue, the nodes of the lists, the tasks, the threads that increment) the
set is finite. `MCContainersAssumption`, `MCListsAssumption` and `MCThreadsAssumption` say so for the systems those modules
hold. They are constraints on names and bounds that every program satisfies, not on how many of anything there are,
except that the characters, or what the lists store, are at least two, for the literals of the model.

**Only model-checked.** Liveness, under fairness and outside the prover's reach: `EventuallyWritten`, `ShutdownWhenAlone`,
`AllWorkersStop`, `QueuedIsTaken`, `Terminates` and `EveryDomainCached`. The algorithms: what a recursive
definition computes for every input needs induction over data, and most of them are RECURSIVE operators, which a module
with a theorem may not reach. The weak memory orders of the lock-free stack are in no model.

## 7. What is left

1. **DnsWorkers**: its queue has no safety property of its own. One that counts wakeups, as `WakeupsCoverQueue` does, would hold
   for `push` and `stop` and could be proved the same way.
2. **The algorithms**: functions whose loops are folds or functions on intervals (`heapify`, the Fenwick tree,
   the knapsack row) could be proved with `RecursionExists`, one module per file that does not reach a RECURSIVE operator.
3. **ChatClient and ChatServer together**: both are modelled against any peer; a composition over a
   lossless connection would show what a user of both sees.
4. **LockFreeStack**: the same accesses over a memory model in which the relaxed orders mean something.
