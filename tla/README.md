# BiteBitBitten: a verification project

BiteBitBitten is a BitTorrent client in C: a command line, an event loop (epoll), a pool of
threads and a directory of `.torrent` files. This directory holds TLA+ modules that model its
core, configurations that check them with TLC, and proofs that TLAPS checks.

    tlc -config MCPieces.cfg MCPieceExchange.tla     # a run, see the table of runs
    tlapm PieceExchangeProofs.tla                    # the proofs of a module

Paths below are relative to `src/`.

## 1. The system

One process. The *event loop* (`main.c`) is one thread: it waits in `epoll_wait` and runs a handler
for standard input (commands), three timers, a UDP socket (trackers), the peers' TCP sockets, and
`notify_pipe`. The *pool* (`threads/pool_thread.c`) has four threads that take tasks from a ring.
The loop pushes tasks; a task writes its result, a struct, to `notify_pipe`, and the loop handles it.
Tasks share memory with the loop without locks: piece buffers, the torrents' arenas, and, because
some task arguments are locals of handlers, the loop's dead stack frames.

| component | source | state | operations |
|---|---|---|---|
| piece download | `announcer/announcer.c` 232-645, `threads/tasks.c` 205-331 | the swarm, each peer's state, bitfield, current piece and blocks; two slabs of bitfields and piece buffers; the torrent's bitfield, requested pieces and counter; the files | connect, handshake, BITFIELD, HAVE, UNCHOKE, PIECE, disconnect; verify and write tasks; their results |
| thread pool | `threads/pool_thread.c` | a ring with head, tail and count, `stop` | push, worker, destroy |
| trackers | `announcer/announcer.c` 13-155, `announcer/udp.c`, `client/client.c`, `threads/tasks.c` 1-204 | each tracker's state, the active one, the table of UDP requests | tick; UDP CONNECT, ANNOUNCE, ERROR; DNS and HTTP tasks and results |
| disk layout | `parser/parser.c` (offsets), `threads/tasks.c` 270-316 | file offsets and bytes | fill in offsets; write a piece |
| session | `repl/repl.c`, `init/init_session.c`, `main.c` | list of torrents, an arena for each, the saved `.torrent` files | add, delete, exit, end of input, restore at the start |
| event loop | `main.c`, `event_loop/` | descriptors and their handlers | wait, dispatch |
| peer pool | `announcer/announcer.c` 203-356, 493-522 | an array of 200 pointers to peers of which the first `pool_count` are known, the array of connected peers, each peer's state, tries and socket | parse peers, add, pick, evict, connect, connected, disconnect |
| bencode parser, paths | `parser/parser.c` | the buffer of the file, in which names are changed | parse, skip, find the info value, make a torrent of the tree, sanitise names |
| SHA-1 | `SHA1/SHA1.c` | none | hash |
| resume files | `resume/` | a file for each torrent | read, write (nobody calls them) |
| arenas | `arena/arena.h` | reserved, committed and used bytes | create, push, destroy |
| file preallocation | `files/` | files | allocate, copy |

How they interact: a command or the start of the program puts a torrent in the list (session); the
client timer ticks its active tracker (trackers); answers fill the peer pool, and the peer timer
connects peers (`main.c:86-93`; the same call in `CL_client_tick` is commented out); messages of
peers drive the download, whose tasks go through the thread pool and write through the disk layout.
Deleting a torrent unmaps the arena that all of these point into.

**What is hard here**, and what makes each part correct:

- *Piece download.* A piece goes peer -> buffer -> hash task -> result -> write task -> result ->
  bitfield, in two kinds of threads, with a buffer, a stack frame and a "current piece" that change
  meanwhile. Correct: nothing is written or claimed unverified; nothing is lost, or counted twice;
  what is claimed is on disk; a requested piece arrives; two peers do not share a buffer.
- *Thread pool.* Lost wakeups, wrap-around, stopping while threads sleep. Correct: a fair FIFO queue
  that can be destroyed at any time.
- *Trackers.* Timeouts against late answers, tasks against ticks, one stack frame for two tasks.
  Correct: one outstanding request for each torrent, no revived tracker, no tracker that keeps a torrent.
- *Disk layout.* Files and pieces that end at the same or at different bytes, files of no bytes, short
  writes, several threads in one file. Correct: each byte at its place, and a write that is reported
  is a whole one.
- *Session.* Arenas that go while work points into them, kills between list and directory. Correct:
  no stray pointers, no torrent twice, list and directory agree, restored torrents go on.

- *Peer pool.* Pointers that an eviction copies, sockets whose peer has another one by then, a limit that
  is tested before a connection starts and not when it succeeds. Correct: no address or object twice, the
  swarm is the set of connected peers, nobody is forgotten unfairly, everybody is tried.
- *Parser and sizes.* Two walks over the same bytes (`parse_value`, `skip_value`) that have to agree, names
  changed in the buffer that is hashed afterwards, remainders of zero, shifts of 32 bits. Correct: the
  tree and the info hash are those of the file, the files it names are below its directory; what is asked for is what is waited for.

All hazards, each with its line and the properties that watch it, are in `PROJECT.json`.

## 2. The modules

Names in the modules are those of the code where TLA+ allows; `map` in `PROJECT.json` gives the
lines of each definition. Definitions named `X_...` (`BlocksOf_inclusive`) are mistakes a programmer
might make in `X`; no action uses them, they exist to see that a property notices them.

**PieceExchange** (checked by `MCPieceExchange`). One torrent. One action for each handler, handlers
being atomic because the loop is one thread; a task is two steps, taking it and running it, since its
argument is read after other handlers ran. Data is blocks: a cell of a buffer or file holds the index of the piece whose right
bytes it carries, or `Junk`, so that a hash check means what it should. `slot` is the peer's index
into the slabs; it is given from `peers_count` and never moved. `frame` is the local `piece_task` of
`handle_piece`: the queue holds a pointer to it, a later `handle_piece` or any later call
(`stack_reused`) overwrites it, and a thread that finds it overwritten may do anything (`crashed`).
`process = "hung"` is the loop of an unknown message, which `recv` never ends.
What may go wrong around the client is the constant `Faults`. A short read is a "bad" block: the bytes it
leaves are right or not. Time (the 300 seconds between tries, three failures) is left to nondeterminism: any peer
not connected may be tried at any time. Requests and answers of other pieces' blocks are
`outstanding`; "unasked" removes the need to have asked. HAVE and BITFIELD are taken in range. CHOKE,
INTERESTED and NOT INTERESTED set bits nobody reads; a REQUEST is answered by nothing.
A write (`Written`) is of `data_len` bytes, which is the number of pieces (`tasks.c:249`): of a part of the piece, or of the piece, the
pieces after it and the buffers that follow in the slab. A failing one stops at any byte before that.

**TaskPool**, **TaskQueue** (`MCTaskPool`). The code touches the ring only between lock and unlock,
so a critical section is a step. `pthread_cond_wait` may return for no reason. `TaskQueue` is what
the loop expects: tasks start in order, each once, until the pool is closed. `TaskPool` implements it
by `pending <- Ring`, `running <- ` the tasks of threads outside the lock, `closed <- stop`.
`threadpool_push` has no test for a full ring: the push overwrites the task that waits longest. `MaxPending` is how many
tasks the loop has waiting at most, and may be more than the ring's slots; `overrun` remembers that a push found none.

**Announcer** (`MCAnnouncer`). All torrents of a session. `at` walks `CL_client_tick` through the
list, one torrent a step, for threads run meanwhile. Tracker numbers count from 1, so that the code's index 0 is 1 here. Request ids are
the lowest free ones; ids are only compared. An answer may come for any request in the table at any
time; others have no effect in the code, so no network is needed for lost, doubled and reordered
datagrams. `overwritten` is a history variable: the arguments of a task were replaced before a thread had
read them; what a tracker promises, it promises until then. Time is `expired`: the 5 seconds of a tracker
that is waited for pass at some time (`five_seconds_pass`), and each announcement, resolved name and answer to a CONNECT
(`udp.c:78`) starts them again. A tracker past the last one and the
peers of an HTTP answer (copied to a null pointer, `tasks.c:169`) lead to `undefined`. Torrents
without trackers are left out.

**DiskWrite** (`MCDiskWrite`). A byte is its position in the torrent. `filled`, `offset` and
`total_size` are the loop of `fill_in_calculated_field_in_TR_info`; each thread walks the files as
`write_piece_to_disk` does, a file a step, and leaves the loop when all is written, when the files are done or when the next one is past the piece; an open or a `pwrite` may fail or be short. `% UintRange`
is the conversion of a file's rest to `uint32_t`. The length given is the right one; that the caller
gives another one is `PieceExchange`'s `data_len`. `Found` are the files that `open` finds. The code opens `file->path` (`tasks.c:297`), from the
root; the file it has allocated has `download_path` in front (`file_interactions.c:127`), and nobody writes to it. **PieceStore** is what the download expects of the files:
a thread begins a piece, stores bytes of it, in any order and any number at a time, and reports it, successfully only when
all its bytes are stored; what is stored stays. `DiskWrite` implements it by `stored <- ` the bytes of the pieces that are
at their place in a file, `writing <- ` the pieces of the threads in the loop, `reports <- results`.

**Session** (`MCSession`). An arena is an address range, mapped or not, and may be mapped again for
another torrent; work is counted: tasks of the pool and events (requests, connections, unread
results) that point into an arena. Using one that is not mapped is `undefined`. The end of input unmaps all arenas, and the loop goes on (`spinning`). Saved files outlive
the process: `start_again` at any time, `killed_copying` with half a file. `CMD_list`, `CMD_print`
and `CMD_help` change nothing and appear only where they would touch what is gone (`list_undefined`).
`faultless` is a history variable: none of the faults (failing files, deletion of a busy torrent, end of
input) has happened, and no torrent was added under the name of another's file. A restored torrent gets no bitfield and `TORRENT_NEEDS_CHECK`, and no code leads out of that state.

**PeerPool** (`MCPeerPool`). An object is a `TR_peer` of the arena; `peer_pool` is the whole array, so that
the pointers behind `pool_count` are there for `peer_pool_add` to take. `ANN_refill_peers` with `pick_peer` is
one handler, walked a place a step (`scan`): a peer that was picked is connecting or waits afterwards, so that
the repeated walks from the start come down to one. `sock` is the event the peer's socket is registered for, `stray` a
socket that was overwritten without being closed; its event finds the peer with another socket.
Memory behind `peers[50]` is overwritten in `swarm_overflows`. `waiting` is the 300 seconds, `failed_tries` stops
at the limit. `hash_failed` is taken for connected peers only: the results of PieceExchange
are all of connected peers (`ConnectedInv`, section 4). `moved` and `reconnected` are history variables that the properties need: see section 3.

**Paths**, **Sizes** (composed in `Inputs`) and **Bencode**, **Metainfo** (with these in `MCInputs`) are functions
of an input, which grows by a character, a byte or a token: a state is an input. `Inputs` is a module of its own because Bencode
and Metainfo use RECURSIVE operators, which no module with proofs may reach. A text is a
sequence of tokens; each counts as a byte. The parser returns a value and the cursor behind it, `null`, or
"past" when it reads behind the buffer, which is where a text is too short. `bare` marks
a key without digits, on which `skip_value` may never end (`parser.c:209`), `lax` a string or number that is not
proper bencode and is accepted. `Paths` ends with the file that `allocate_file` makes; the buffer it puts the name together
in is `PathBuffer`. `Metainfo` goes from the tree to the torrent and keeps where in the buffer each
string lies, since `sanitize_file_BEN_string` writes there (`BufferAfter`) before `get_info_hash` reads it. In `Sizes`
the size of a last piece comes from `info_total_size`, which is 0 for a torrent of a single file;
a mask is the set of its bits and a shift takes its operand modulo the width of an int, which is what the build's
shift instruction does; `BlockSize` and `IntBits` are constants.

**Arena** (also in `MCInputs`). `arena_push` and `arena_push_zero` do the same to the arena; the commits of the
loop are counted at once (`Chunks`). `aborted` holds the size the assertion failed for. `mmap` and `mprotect` succeed.

The theorems are in **PieceExchangeProofs**, **TaskPoolProofs**, **DiskWriteProofs**, **AnnouncerProofs**,
**SessionProofs**, **PeerPoolProofs**, **InputsProofs** and **ArenaProofs**, each of which extends the module it is about.

## 3. What TLC checks

| run | properties | instance, and why it is enough |
|---|---|---|
| `pieces` | `TypeOK`, `HaveWasVerified`, `TasksPerUnchoke`, `AbandonedOnlyThus` | 2 peers, 2 pieces of one block, 2 threads, 2 UNCHOKEs, the faults "handshake", "bad" and "stack" (the others make too many states; "unknown" is in the next run, and the theorem holds with all). Two peers and threads are what it takes for a frame to be overwritten by the other peer and for a result to meet a peer that has moved on. |
| `pieces_calm` | `OneStage`, `CountedOnce`, `WritesWhatWasVerified`, `DiskHoldsHave`, `ArrivesUnlessWritesFail` | 1 honest peer, 3 pieces of 3 blocks, a shorter last piece, writes that fail at any byte, and unknown messages. `pieces_count` (3) bytes are a piece here, see `pieces_disk`. |
| `pieces_disk` | `DiskHoldsHave` fails | Pieces longer than `pieces_count` bytes. |
| `pieces_slab` | `OwnBitfield` fails | 2 peers, one of them drops out in its handshake. |
| `pool` | `TypeOK`, `NobodyOversleeps`, `OverwrittenOnlyThus`, `QueueUntilOverrun`, `StartsAndEnds` | 3 threads, ring of 3, up to 5 tasks waiting, 7 pushes: it wraps around twice, fills up and is overrun. |
| `trackers` | `TypeOK`, `OneRequest`, `GivenUpStays`, `TriesNext`, `StuckOnlyThus` | 2 torrents, one with an HTTP and a UDP tracker and one with a UDP and an unsupported one, 2 threads, the stack overwritten at any time: every kind of tracker, and two tasks that share their arguments. |
| `disk` | `TypeOK`, `InPlace`, `ReportedIsWritten`, `StoresPieces` | Files of 3, 0, 2, 3 and 1 bytes, pieces of 4, the last of 1, 2 threads: files that end in, at the end of, and before pieces, one with no bytes. |
| `disk_single` | `ReportedIsWritten` fails | A torrent of one file. |
| `session` | `TypeOK`, `MemorySafe`, `NoDuplicates`, `ListedIsSaved`, `DanglingOnlyThus`, `LostOnlyThus` | 3 torrents, one of which may be saved under two names and shares one with another, 3 arenas, kills at any time, every fault. |
| `session_resume` | `RestoredGoesOn` fails | Torrents with names of their own, no faults, with fairness. |
| `peer_pool` | `TypeOK`, `PoolSound`, `SwarmSound`, `ForgottenOnlyThus`, `EveryPeerTried` | 3 addresses for 3 objects, a swarm of 2, evicted after 1 failure: an eviction in the middle of the pool, a second connection of a peer and a third peer for a full swarm all happen. |
| `inputs` | `TextParsed`, `AllocatedBelow`, `HashOfTheFile`, `AskedAndAwaited`, `Padding`, `ArenaSound` | All texts of up to 10 of 8 tokens that may become a dictionary (nesting of lists and dictionaries, empty keys, keys twice, numbers without digits, `info` as key, as value and inside others); about 640 `.torrent` files with keys left out; up to 3 names of up to 6 characters together, below 2 directories, with a buffer that holds some of the paths and cuts others; torrents of one and of several files and pieces of up to 20 bytes with blocks of 3 and ints of 3 bits (up to 7 blocks, twice past the width); messages of up to 200 bytes; an arena of 3 chunks, with sizes of no bytes, less than the alignment, as much, and more than a chunk. |

Bounds, all of them constants and all in guards: `MaxUnchokes`, `MaxTasks`, `MaxDownloaded`
(PieceExchange); `MaxPending`, `MaxPushed` (TaskPool); `TableSize`, `MaxTasks` (Announcer);
`MaxTorrents`, `MaxWork` (Session); `MaxFailures` (PeerPool, which is the code's own limit); `MaxChars`,
`MaxNames`, `MaxSize`, `MaxPiece` (Inputs); `MaxLen` (MCInputs); `Reserve` (Arena). Deadlock is not checked: with every piece fetched, every push
made, the program ended or the input as long as it may get, the bounded systems stop.

Some properties are of the form "only thus" (`AbandonedOnlyThus`, `StuckOnlyThus`, `DanglingOnlyThus`,
`LostOnlyThus`, `ForgottenOnlyThus`): the code does lose pieces, leave trackers resolving, leave pointers dangling, lose saved files and drop peers.
The action property lists the steps that can, and says that there are no others. Others hold until
something has happened that a history variable remembers (`faultless`, `overwritten`, `moved`, `reconnected`),
and fail afterwards, as TLC shows when the condition is left out:

- after an eviction from the middle of the pool the next address is written over one that is in the pool
  (`announcer.c:272`), and the next but one into an object that is there twice;
- a peer whose handshake takes until the next peer timer is connected again (`announcer.c:264`) and is in the swarm twice;
- a torrent with a reserved character in a name gets the hash of the changed bytes (`HashOfTheFile`; `parser.c:557`
  before `repl.c:66`): no tracker and no peer knows it;
- a piece of 32 blocks (512 KiB) is never complete, one of 33 is taken for complete after its first block
  (`AskedAndAwaited`; `announcer.c:624`), and a last piece of full length, or
  of a torrent of a single file, is never asked for (`:557`);
- after a second UNCHOKE a buffer is refilled between the hash and the write (`WritesWhatWasVerified`; `tasks.c:251`);
- a tracker that answers each CONNECT, again and again, and nothing else is never given up (`TriesNext`; `udp.c:78`);
- a message of 64k - 9 bytes is padded by a block too many (`Padding`; `SHA1.c:8`), so that a piece of that length fails its check.

**Fairness.** Liveness needs, and has, only: the loop comes back to `epoll_wait` and handles what is
ready (`WF` of results and ticks; `SF` where a tick may be in the way for a moment); pool threads run
and tasks end (`getaddrinfo` and curl with its 15 seconds give up); a timer goes on ticking, and the 5 seconds of a tracker
pass unless they are started again. In PeerPool the peer timer's handler is all that is fair
(`WF(Refill)`): nothing is asked of the peers. `ArrivesUnlessWritesFail` needs a peer that answers.
Nothing is assumed of the disk: writes that fail again and again are an exception in the property (the piece is fetched again each time, and the
pieces after it wait: a peer is always given the first one missing), and so is the loop of an unknown message. The mutex is fair to
the threads at it.

**Findings** (runs that show a property violated, against the README's list of what works):

1. `pieces_disk`: `handle_sha1_result` (`threads/tasks.c:249`) passes `info->pieces_count` as
   the number of bytes. A piece is claimed with only these bytes on disk.
2. `pieces_slab`: after `disconnect_peer` moved the last peer into the gap, the next peer gets the
   slot of one still connected (`announcer/announcer.c:338`).
3. `disk_single`: `files_count` is 0 for a torrent of one file (`parser/parser.c:366`); nothing is
   opened or written and `true` is returned.
4. `session_resume`: `CMD_add_init` (`init/init_session.c:217`) leaves a restored torrent
   in a state that every tick passes over; no code reads a resume file.

## 4. What is proved

What follows holds for every value of the constants that the assumption named in the module allows
(`ConstantsAssumption`, `PoolAssumption`, `AnnouncerAssumption`, `DiskAssumption`, `SessionAssumption`,
`PeerPoolAssumption`, `SizesAssumption`, `InputsAssumption`, `ArenaAssumption`). They give constants their types, limits that are not 0,
finitely many peers and threads of the download and the pool, totals that fit the integer they are kept in, and, in Session, marks for "no file" and "broken file" that are no hashes.
A run of each module evaluates them.

**PieceExchange**, for any finite number of peers, threads, pieces and blocks.

- `TypeCorrect`: `TypeOK` is inductive.
- `HaveOnlyVerified` (`HaveWasVerified`), with all faults: no piece is written, reported as written or claimed before
  its hash check succeeded. The bitfield alone is not inductive: the claim comes from a result, that
  from a task, that from another result. `HaveWasVerified` therefore follows a piece through all four
  places and is inductive with `TypeOK`. It says nothing of what is on disk (finding 1).
- `GivenUpOnlyThus` (`AbandonedOnlyThus`), with all faults: apart from the three steps that the property names, no
  handler or thread loses a requested piece. It needs `ConnectedInv`: whatever work there is, a fetch,
  the frame, a task or a result, is that of a peer that is connected, and a connected peer stays so (the code only
  drops peers in their handshake); and `EmptyInv`: in a torrent of one piece of full length,
  of which nothing is asked for, the peer that was given the piece waits for it for ever, but it has it.
- `WorkComesFromUnchokes` (`TasksPerUnchoke`), with all faults: the torrent's tasks and results on their way are no more
  than the UNCHOKEs that have come, and one more for each peer that may send blocks of piece 0 nobody asked for. Tasks alone
  are not inductive: a result becomes a piece that is fetched again. `LoadInv` counts both, the work on its way and
  the peers that fetch a piece. The run has no unasked blocks: their part of the bound is proved only.
- `OneStageWhenCalm`, `CountedOnceWhenCalm`, `WritesWhatWasVerifiedWhenCalm`: under `Calm` a requested piece is at one stage
  until the client has it, the counter is the number of pieces, and what a write takes from the buffer is what was
  verified. `Calm` is one UNCHOKE at most, no faults but failing handshakes and
  unknown messages, and not the empty piece of `EmptyInv`; writes may fail. Each part is needed: a second UNCHOKE gives the peer
  another piece before the first is fetched, a wrong or unasked block and an overwritten frame are the other
  two ways of `AbandonedOnlyThus`. The invariant is `StageInv`: nothing happens (`Resting`), or one
  peer works on one piece, fetched, queued, taken by a thread or reported, with right bytes in its
  buffer.
- What is on disk (`DiskHoldsHave`) is only model-checked, where `pieces_count` is the length of a piece; for other torrents it
  does not hold (finding 1).

**TaskPool.** `IInv` is `TypeOK` and `RingInv`: `tail` is `head + count` around the ring, its slots
hold tasks, a busy thread holds one. With it: `PoolTypeCorrect`, `NobodySleepsStopped`,
`WakeupsSuffice` (`NobodyOversleeps`: while a thread sleeps, as many are at the lock as there are tasks, and none sleeps after the stop), and the refinement of `TaskQueue`:
every step on the ring is a step of the queue or none. `QueueUpToOverrun` (`QueueUntilOverrun`): whatever is pushed, until a push
meets a full ring. `PoolIsQueue` (`ImplementsQueue`, no run's property): always, if `MaxPending <= QUEUE_SIZE`, which the code does not see to.
`LostToOverrunOnly` (`OverwrittenOnlyThus`): a task that waits leaves the ring when a thread starts it or when a push to a full
ring writes over it, and never otherwise.

**Announcer**, for any torrents, trackers and threads, the stack overwritten at any time.

- `AnnouncerTypeCorrect`: tasks, requests and results are for trackers that there are; the active one may be
  past the last, by one, where the process ends up `undefined`.
- `OneRequestEach` (`OneRequest`) and `LateAnswersAreLost` (`GivenUpStays`), until arguments are overwritten. A result
  of a name resolution puts a request in the table, so that `OneRequest` needs `ResolutionsInv`: a resolution in the queue, a thread or
  the pipe is for the active tracker of a torrent, which waits for it, and is the only one of that torrent.
  The task in the queue has a pointer to arguments that the next tick may overwrite: that the
  tick finds no other torrent's task there is what `overwritten` denies, and the code does not check.
- `StuckByArgumentsOnly` (`StuckOnlyThus`): a tracker comes to wait for a name that nobody looks up only in that way.

**DiskWrite**, for any files, threads and failures of `open` and `pwrite`.

- `TypeCorrect`: with `WrittenInv` (no thread has written more than its piece), whatever
  the conversion to `uint32_t` does.
- `EveryByteInPlace` (`InPlace`): if each file's length fits a `uint32_t`
  (`FitsUint`), no byte is ever at a wrong place. It needs that
  a thread at file f has written nothing and f starts before the piece, or has written up to
  exactly where f starts (`LoopInv`); this needs the files to lie end to end (`LayoutInv`), and
  that nobody writes before the layout is done (`BlankInv`).
- `ReportedIsThere` (`ReportedIsWritten`): if moreover the files are as long as the pieces (`TotalBytes <= total_size`), a piece
  reported as written is in the files to its last byte, whatever the other threads did meanwhile. `ProgressInv`: the bytes
  a thread counts as written are stored, and a thread that is past the last file with bytes left is past
  the end of all files. The hypothesis leaves out torrents of one file, whose `total_size` is 0 (finding 3).
- `FilesStorePieces` (`StoresPieces`), the refinement of `PieceStore`, under the same two hypotheses (the second for all
  states after the layout): a write, whole or short, stores bytes of its thread's piece and of no other (`OwnBytesOnly`),
  loses none that is stored (`StoredStays`), and the end of the loop reports a piece that is stored as a whole (`EndsWhole`).

**Session**, for any torrents, names, arenas and faults.

- `SessionTypeCorrect`, with `UnreadInv`: names that are still to be read have a file.
- `PointersAreSafe` (`MemorySafe`), while faultless. `PointersInv` is about ranges that are not listed too: nothing points into
  one that is not mapped, so that it can be mapped for the next torrent; and a program that
  is left has no thread at work.
- `ListedOnce` (`NoDuplicates`), `DirectoryIsTheList` (`ListedIsSaved`), while faultless. `init_saved_torrents` does not look for torrents that
  are listed already. That it lists none twice follows from the directory (`FilesInv`): no torrent is saved under two
  names, a listed torrent is saved under its own, and what is saved is listed or still to be read.
- `DanglesOnlyThus` (`DanglingOnlyThus`), `FilesLostOnlyThus` (`LostOnlyThus`), with all faults, which need the types alone.
  The end of input is one of the five ways of the first: `main.c:58-66` unmaps all arenas and goes on.

**PeerPool**, for any addresses, pool, swarm and number of failures.

- `PeerPoolTypeCorrect`: `TypeOK` is inductive.
- `PoolIsSound` (`PoolSound`), until an entry is moved: object i is at place i (`PoolInv`).
- `SwarmIsSound` (`SwarmSound`), until then or a second connection of a peer: an eviction must not hit a peer of the swarm,
  which is so since a peer in its handshake has not failed often enough (`ConnectionsInv`), and an event
  must find the peer whose socket it is (`stray` is empty until then).
- `ForgottenByEviction` (`ForgottenOnlyThus`), from the same invariant.

**Inputs**, for all names, directories, sizes, block sizes and widths of an int. `Types` says that a state of `Inputs` is an input of
its kind; from that and the theorems about each kind follow three of the properties of the run `inputs` as invariants.

- `PathsAllocatedDown`, and with it `FilesAreAllocatedBelow` (`AllocatedBelow`): for any lists of names over any characters, a path that
  `parse_BEN_list_to_path_C_string` accepts fits what is allocated for it, and has a part for each name, none of which is empty, leads up,
  or has a character that is replaced; and the file that `allocate_file` makes is in the download directory, with that path
  below it, as long as the name fits the buffer. What the loop over the names builds is a recursive function, and the theorem of induction is out of
  the prover's reach; that the loop keeps its invariant for any number of names is proved by a counterexample with the
  fewest names (`Least`, from the well-foundedness of the natural numbers; `FollowsExists`, `JoinedIs`, `JoinedGood`).
  The theorem is not about the file that is written: see section 5.
- `PiecesAskedAndAwaited` (`AskedAndAwaited`), `MessagesPadded` (`Padding`): from the following.
- `BlocksCover`: `request_all_blocks` asks for each byte of a piece in one block. `TorrentAsked`: and for all
  pieces, except that nothing is asked of a last piece of full length, nor of the last piece of a single file.
- `CompleteInTime`: with fewer blocks than an int has bits, `handle_piece` takes a piece for complete when all its blocks
  have come, and not before. `WrongInLargePieces`: from there on it never does so (a multiple of the width) or too early.
- `Padded`: `SHA1_padding` is right except for one length in 64, where it is a block too long.

**Arena.** `ArenaIsSound`: for any alignment, chunk, sizes and reserve (a multiple of the chunk, as all
callers ask for), what is given out is aligned, committed and disjoint from what was given out before, and
the assertion fails only for a size that does not fit. Inductive with: nothing given out ends behind
`used`, `used <= commited`, and `commited` is a multiple of the chunk. `PaddingAligns` and `ChunksSuffice`
are the facts about `%` and `\div` it rests on.

**Only model-checked**, since the prover cannot reach it: the liveness properties (`ArrivesUnlessWritesFail`, `StartsAndEnds`,
`TriesNext`, `EveryPeerTried`), which rest on fairness and so on ENABLED; and what the parser computes (`TextParsed`,
`HashOfTheFile`): Bencode and Metainfo use RECURSIVE operators, which go around through each other,
and with them the prover has no arithmetic.

## 5. What is not modelled

- The rounds of SHA-1: arithmetic on 32-bit words without control (its padding is in `Sizes`). A hash check
  is taken for what it means.
- `resume/`: nothing calls it (finding 4).
- Which file a piece is written to. `write_piece_to_disk` opens `file->path` alone (`tasks.c:297`), which starts with a slash: a file below the
  root, and not the one that `allocate_file` has made below the download directory (`file_interactions.c:127`). Most of the time
  there is none, every write fails, and the piece is fetched again, for ever. The repository's README lists file path
  sanitization (`README.md:12`) and writing verified pieces (`:13`) under what works; the names in the path are harmless, but no
  directory is in front of it. One reads it off the two lines; the models have its effect, an `open` that fails always
  (`Found` in DiskWrite, the exception of `ArrivesUnlessWritesFail`).
- How the URL of a tracker is taken apart and put together again, with its port through `atoi` and a `uint16_t`
  (`announcer.c:177-200`) and the text of an HTTP request in a buffer of 1024 bytes (`tasks.c:89`); and the list of a torrent's trackers.
- What the trackers are told is left (`udp.c:120`): `total_size` minus a counter that adds a full length for each piece
  (`tasks.c:330`). For a single file `total_size` is 0, so that it is 0 at first and a huge number after the first piece.
- A PIECE whose offset is not in its piece, which `handle_piece` writes outside the peer's buffer (`announcer.c:614`).
- `mmap` and `mprotect` that fail, which `arena_create` and `arena_push` do not look for (`arena.h:53`, `:58`).
- In Bencode and Metainfo: signs and blanks before a number, and values of a type their key does not promise.
  On a malformed torrent both `BEN_pairs_to_TR_info` and `init_TR_torrent` destroy the arena.
- `on_peer_connected` of PieceExchange stops at `MAX_PEERS`. The code's limit, which is another one and can be
  exceeded, is in PeerPool; the two are not composed.
- `arena_rewind` and `arena_reset`, which nothing calls.
- Descriptors and epoll registrations, directory creation, wording of output, `utils/`.
- HAVE and BITFIELD messages out of range, lengths of messages other than those the handlers use.
- Reads of what was never set: `udp_requests_count` of the loop on `main`'s stack (the model starts from 0),
  and `i` of the loops over the files in `CMD_add` and `CMD_add_init` (files that are skipped are, in Session,
  files that were allocated).
- The limit without a test of 128 torrents in the list (Session has `MaxTorrents`).
- How many tasks a whole session has waiting, against the 64 slots of the ring. A torrent's share is bounded by its
  UNCHOKEs (`TasksPerUnchoke`), which a peer may send as often as it likes; the trackers' tasks add to it.
  So nothing in the code keeps the ring from being overrun; what happens then is in TaskPool (`pool`).

## 6. Plan

Done: PieceExchange, TaskPool with TaskQueue, Announcer, DiskWrite with PieceStore, Session, PeerPool; the functions of
their input (Bencode, Paths, Metainfo, Sizes, Arena); and the proofs above.

Open, in this order:

1. PeerPool composed with the connections of PieceExchange; a run of PieceExchange with an empty last piece.
2. Values of a wrong type in Metainfo, with the arena that is destroyed twice.
3. `ResumeFile`, should something come to call it.

Proofs: every safety invariant, action property and refinement that a run shows to hold is proved, those of the parser
and `DiskHoldsHave` excepted, and some of them under the hypotheses that section 4 names. Left are
the invariants of PeerPool carried over to its composition with PieceExchange; `OneStage` for more than one UNCHOKE, with the
pieces left out that `AbandonedOnlyThus` lets go; and the parser, with its walks written as recursive functions.
