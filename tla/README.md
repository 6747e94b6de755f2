# Verification of C-Prog

C-Prog holds six small C programs, `hw0` to `hw5`.  This directory keeps TLA+
modules for those that have a logic of their own, TLC configurations that check
small instances of them, and TLAPS proofs of what matters most for every
instance.  `PROJECT.json` says, definition by definition, which lines of
`src/` each one stands for; this file says what the whole shows.

Contents: 1 inventory, 2 modules and how they follow the code, 3 runs, bounds
and what they show, 4 fairness, 5 proofs, 6 what is only model-checked or not
modelled, 7 where code and documents disagree, 8 plan.

## 1. Inventory

| part | state | operations | what is hard | what makes it correct |
|---|---|---|---|---|
| hw5 Charla server: `client.c`, `client_registry.c`, `user_registry.c`, `user.c`, `main.c` | a fixed array of CLIENTs, a grow-only array of USERs, reference counts, two mutexes, one service thread per connection | register, login, logout, list, disconnect | three scans of a shared array by threads that lock different mutexes or none; reused descriptors; full registry | one session per handle, one USER per handle, a login marks its caller, every request answered |
| hw5 mailboxes (`mailbox.h`) | per session: open or shut; its thread | set, shut | a mailbox thread racing its client's logout | a shut mailbox is not used |
| hw5 wire protocol (`protocol.c`, `rio_readn` and `rio_writen` of `csapp.c`, the senders of `client.c`) | the bytes in the socket; how far each call has come | send and receive a packet in two calls each, of as many reads and writes as the socket asks for | two threads writing to one descriptor; a peer that hangs up or resets inside a packet; lengths nobody received | packets arrive whole, in order, and at all |
| hw3 allocator (`sfmm.c`) | heap words with boundary tags, eight free lists | `sf_malloc`, `sf_free`, `sf_realloc`, `sf_memalign` | long sequences of legal calls; coalescing with both neighbours and the wilderness; page growth | the blocks tile the heap, lists hold exactly the free blocks, payloads are kept |
| hw2 notation (`notation.c`, `lexer.l`) | board, tree of moves, stack of positions, reader automaton | read a move, open and close a variation, keyword, end of input | undoing a move with less than it destroyed; freeing branches that are still referred to | the board is the reader's board; what is printed reads back |
| hw2 command line and output drivers (`drivers.c`, the top routines of `notation.c`) | the format record: driver, flags, output language, level, interruption; the list of moves to show | fourteen options; print a move, a bracket, a text, a diagram, head and foot | settings made in any order and applied twice; rows of White's and Black's move that anything may interrupt; six ways to end | the reader of the output is in the program's line and knows which move was meant; brackets nest; documents are complete |
| hw4 imprimer (`cli.c`, `main.c`) | printer table, job table, forked children with copies of both | fifteen commands | a child's changes never come back; table holes; null paths | jobs go where they may; nothing outside the tables is touched |
| hw4 library (`imprimer.a`) | types, conversions | declare, shortest path | returns NULL without a path | external |
| hw1 birp (`birp.c`, `main.c`) | a word of option bits | `validargs`, `main` | order of options, bit fields, null words | accepted lines are the documented ones and the bits say what they said |
| hw1 images (`bdd.c`, `image.c`) | none that is used | stubs, and functions nobody calls | - | not modelled |
| hw0 | none | prints a greeting | - | not modelled |

The programs do not interact with each other.  Inside hw5 the interaction is
shared memory: a service thread calls `client_login`, which scans the client
registry under the mutex of `client.c`, and `creg_register` and `ureg_register`,
which use another mutex (a common symbol named `locker` in both files), while
`client_logout` and the reference counts use none.  Service and mailbox threads
also share the client's descriptor, to which `client_send_packet` writes without
a mutex.  hw4's parent and children
share nothing after the fork.  In hw2 the reader calls the drivers, which keep flags of their own that
the stack of variations saves and restores.  hw2, hw3 and hw1 are sequential.

The hazards, each at its line with the property that would catch it, are listed
in `PROJECT.json` under `hazards`.

## 2. Modules

### hw5: `Charla`, `Sessions`, `MCCharla`, `Charla_proofs`

`Charla` has one action per access to memory another thread may write.  `slots`
is `CLIENT_REGISTRY.clients`, `client` the CLIENT objects, `users`, `count` and
`freed` the user registry and its reference counts, `lockL` the mutex of
`client.c`, `lockG` the one both registries share, `pc` and the variables after it
each thread's position and locals.  `Held*`, `Mine*` and `Free*` are the three
loops of `client_login`; `NextSlot` is their loop head.  `fault` names the
first access through a null or freed pointer, after which nothing is modelled.

Abstractions: both string comparisons of one iteration of `client_logout` are one
step; `creg_register`'s scan up to its choice is one step and its store another
(they are under one mutex, which `client_logout` ignores); one iteration reads its slot
once more for the comparison (client.c:56) and once more for the mark (client.c:66), which `HeldCmp` and `MineFd` make one read with what they do with it
(only `client_logout` could empty the slot in between, and `Held` and `HeldUser` already let it: `charla_scan`); `SetUser` joins the
assignments of descriptor, user and reference, `SetMark` those of mark, mailbox
and unlock.  CLIENT objects are never freed, as in the code.  The service thread
is in `charla.a`: its order of calls was read from its machine code, and its actions
are marked external.

`Sessions` is what the server promises, without threads or locks.
`ImplementsSessions` maps `session[h]` to the CLIENT of the
registry that is logged in under `h` and `used` to the CLIENTs ever marked, and is
checked as a property of the detailed specification.

### hw5's wire: `Packets`, `PacketPipe`, `MCPackets`, `Packets_proofs`

`Packets` is one connection: any number of threads that send, one process that
receives.  A packet is a header of `HEADER` units, the last of which holds
`payload_length`, and its payload; a step moves one unit, so that a read or
write that moves less than it was asked for is part of the model and an
interrupted one is no step (the loops of `rio_readn` and `rio_writen`).  `out` is how far
each sender is, `pipe` what the kernel holds (at most `Room`), `recv` how far
`proto_recv_packet` is, `sent` and `got` what the calls that returned 0 sent and
gave.  The peer hangs up (`Hangup`: the rest is read, then the end) or the connection is lost
(`Reset`); the receiver may stop between packets (`Close`).  What the receiver takes for a header is looked at
as the code does: part of one counts, and a length it never received may be
anything (`AnyLength`).  The payload goes into a buffer of `Usable` units, and
one more is the stage `"corrupt"`, after which nothing is modelled.

`PacketPipe` is what `client.h` and `protocol.h` promise: packets transmitted as
a whole, each sender's in its order, received in the order of their
transmission.  `ImplementsPipe` maps `sent` to itself and `received` to the packets `got`
that were not cut.

### hw3: `SfmmSizes`, `Sfmm`, `Sfmm_proofs`

`Sfmm` keeps the heap as a function from addresses to 64-bit words and changes
it as the code does, word by word; `h` is that heap with its end and the
sentinels of the free lists, `live` the program's own record of what it holds.
Every call of the program (`Malloc`, `Free`, `Realloc`, `Memalign`, and `Write` into
a payload) is one action, which runs the whole function.  An access
outside the mapped region is `"fault"`, a call of `abort()` is `"abort"`, and both end the
run.  Fresh pages read as zero.  `SfmmSizes` has the pure size arithmetic, without a width:
`sf_malloc` computes the size of a block in an `int` (sfmm.c:256), so the model is that of requests below `INT_MAX` (`FitsInt`).
The loops of `sf_malloc` and the walks over the heap (`Blocks`, `Ring`) are recursive functions of the number of turns.

### hw2: `NotationBoard`, `Notation`, `MCNotation`, `NotationBoard_proofs`, `Notation_proofs`

`NotationBoard` has the board operations: `do_move`, `undo_move`, the
guesses and the legality checks.  `Notation` is the reader: one record, `nt`, holds the
globals; each token is an action.  A move node carries two history fields, how it
came to be and the board a reader of the game sees after it, and the
invariant `Backtracked` compares that board with the program's.  The model was
also run against the compiled program on 1500 random inputs, with
the address sanitizer for the inputs that use freed memory, and agreed on all.

### hw2's output: `Drivers`, `NotationOutput`, `MCNotationOutput`, `NotationOutput_proofs`

`Drivers` has the format record `dr` and the procedures of the six drivers, each as
what it does to `dr` and to the `page`.  A page is what a reader makes of the output: his line of moves, the
lines he returns to when the open brackets close, the row that waits for Black's
move, whether ink fell outside the document.  This is the conversion the properties are about; spacing, wording
and the squares of a diagram are left out.  TeX takes its figures from a table of its own, which has no
letter for a pawn (`latex_table`), and an unknown column prints a backquote.

`NotationOutput` is the program around them, from the command line
(`parse_options`, one operator per option) over `Start` (the languages and the
driver are applied, the head is printed) to every way the program ends.  `game` is
the current node, the one before it, the line of moves played and the stack.  Whether a
move is legal and what it turns out to be are choices here: `Notation` has the
board and the tree that decide them, and leaves the drivers out.  A file
that cannot be opened is a choice, too; what is printed to it, or closing it, is
a crash.  A variation is opened only after a move that was played, as in `Notation`'s
careful input.  What stands where a move starts is a choice as well (`Found`: from an empty square the piece becomes `VOID`, which prints `@`).  Of the
keywords those that restart the game or set up a position (`@clearboard`, `@default`, `@config...`, `@start...` and the
placements between them) are left to `Notation`, and `@whitesmove` and `@blacksmove` come before the first move only.

### hw4: `Imprimer`, `MCImprimer`, `Imprimer_proofs`

`printers` and `jobs` are the two tables up to their indices; a `Hole` is
a slot the job index has passed without storing (two printers were named, or one twice).  The listing of jobs prints times
through a pointer to a variable that is gone (cli.c:406-407); no state depends on it.  `find_print` and `find_job` are the
two search loops, written as the index where they stop.  `Fork` makes a
child or, when the fork fails, ends the program with an error.  `single_fork` and
`seek_p` are what a child does; a conversion of two steps or more prints nothing
because its stages after the first read from a pipe's writing end.  `PathLength` is the length of the
library's shortest path: the least `n` for which there is a path of `n` conversions (`Reaches`).  `reply` is what
the last command reported, `handed` and `printed` are history, `lapses` counts the commands
with which the user left the contract stated at `NoFault`.  The connection to a
printer, the file and the child's own forks do not fail in the model.

### hw1: `Birp`, `Birp_proofs`

The command line is made up while it is read, so that a state is a prefix of it.
`global_options` is the set of its bits.  A word is known by the distances of its
characters from `'0'`, because `atoiReplacement` takes any word for a number
(`-t -n` sets the threshold 32).

## 3. Runs

Bounds are constants of the modules, given in the `.cfg` files.

| run | instance | states | shows |
|---|---|---|---|
| `charla_sessions` | 3 connections, 2 slots, 3 handles, 1 request each | all | types, one session and one USER per handle, the mutex is released by its holder; while nobody has logged out or left (`LoginsOnly`), logins mark their caller and no thread goes through a null or freed pointer, though the array of users fills |
| `charla_relogin` | 2 connections, 2 slots, 3 requests each, fairness | all | the same session property over login, logout, login; refinement of `Sessions`; every request is answered |
| `charla_packets` | 1 sender, 6 packets of 0 to 3 units of payload, a header of 2, a buffer of 2, a socket of 3, fairness | all | packets arrive whole and in order, only a payload that is too big overflows, what is sent arrives; refinement of `PacketPipe` |
| `packets_two` | a service and a mailbox thread, one packet each | to the counterexample | packets of two senders corrupt each other (violation) |
| `charla_persist` | 2 connections | to the counterexample | a lost update frees a registered USER (violation) |
| `sfmm_careful` | pages of 160 bytes, 2 of them, 7 calls | all | the allocator is right for a program that allocates only while nothing but the wilderness is free |
| `sfmm_lists` | pages of 512 bytes, 5 calls | to the counterexample | an allocated block stays in a free list (violation) |
| `sfmm_abort` | pages of 512 bytes, 5 calls | to the counterexample | `sf_free` aborts on a valid pointer (violation) |
| `notation_study` | a position with captures, castling, promotion and en passant; 6 tokens of 18 | all | while the program reads, variations return to the right board, no node of a line is freed, material is accounted for, print and read agree, turns agree; a walk over freed nodes ends a run as a fault |
| `notation_output` | command lines of up to 2 of 21 arguments; 3 moves of 5 kinds, variations 2 deep, lists of 2 | all | the reader of the output follows the program, knows each move, sees nested brackets, the diagrams asked for and, unless an error was met, a complete document |
| `imprimer_spool` | 2 printers, 3 types in a chain, 2 jobs, 1 child, 1 lapse | all | no access outside the tables under the contract, jobs go where they may, who waits and why, refused commands change nothing, forked jobs get printed |
| `birp_options` | every line of up to 6 of 18 words | all | the accepted lines and their bits |

Counterexamples.  Each configuration below checks one more statement that a document or a test of the repository makes and TLC finds it
violated by what the code does (`tlc -config charla_reuse.cfg MCCharla`, and so on); none of the other runs or theorems uses these statements.

| configuration | module | statement | says so | the trace |
|---|---|---|---|---|
| `charla_reuse` | `MCCharla` | `SuccessMarks` | client.h:89 | an acknowledged login marks a dead CLIENT with the caller's descriptor |
| `charla_scan` | `MCCharla` | `LoginReturns` | client.h:93 | a login's scan dereferences a slot that a logout empties |
| `charla_full` | `MCCharla` | `FullReturns` | client.h:93 | the third loop of a login stores NULL over a CLIENT and dereferences it |
| `charla_logout` | `MCCharla` | `LogoutReturns` | client.h:103-104 | a logout dereferences the user of a CLIENT that has none |
| `charla_connected` | `MCCharla` | `OnlyConnected` | client_registry.h:72, 90 | the CLIENT of an ended connection stays registered |
| `notation_knights` | `MCNotation` | `OriginTold` | drivers.c:277, notation.c:982 | an ambiguous move is printed without its origin and reads back as another |
| `notation_garbage` | `MCNotationOutput` | `ErrorsFail` | tests/hw2_tests.c:19 | an error ends the program with the status of a success |
| `imprimer_enable` | `MCImprimer` | `OwnTypeServed` | tests/basecode_tests.c:74, 80 | enabling a printer for a job of its own type uses `JOB_LIST[-1]` |
| `birp_empty` | `Birp` | `UsageAccepted` | const.h:15-22 | the empty line of USAGE is refused |
| `birp_crash` | `Birp` | `RefusedReturns` | birp.c:90, 98 | a line that is not of USAGE crashes instead of being refused |
| `birp_zoom` | `Birp` | `HelpAsked` | const.h:26 | `-z 2` shows the help |

Why the bounds are enough for the cases of interest:

* Charla: the races are between two threads about one handle; the third connection of
  `charla_sessions` adds an unrelated login and descriptor reuse, and a third handle, the one the array of users has no room for.  Three requests allow login, logout and
  login again, which is when the third loop of `client_login` is reached.
  With three connections on two slots, and with second CLIENTs on two, the registry fills up.
* Packets: a header of two units can be cut; payloads of 0, 1, 2 and 3 are none, less than, as much as and
  more than the buffer; a socket of 3 holds parts of two packets and is less than the biggest.
* NotationOutput: two arguments let any two options interact; three moves make a row, a variation and a variation within it;
  a stack of 2 and a list of 2 can both be overrun.  The theorems of section 5 have no such bounds.
* Sfmm: with pages of 160 bytes growth, an exact fit, a 16-byte remainder and all
  four cases of coalescing happen within seven calls; `Page` does not occur in the
  code's arithmetic other than as the amount of growth.
* Notation: six tokens after the prologue suffice to open a variation within a
  variation, play in it and close both.
* Imprimer: `MAX_PRINTERS` and `MAX_JOBS` are constants of the module; 2 and 2
  let both tables fill up.  Children share nothing, so one at a time, interleaved
  with any command, shows what one can meet.  Paths of length 0, 1 and 2 occur.  One lapse
  shows every fault.
* Birp: no accepted line has more than six words; the seventh entry of `argv` is its null.

Every property of a passing run has a mutant in `PROJECT.json`: a plausible slip
in one mapped definition with which TLC finds the property violated.
`CHECK_DEADLOCK FALSE` appears where the program ends: after its calls, tokens,
words, or after `quit`.

Input assumptions.  Where the code is known to break for legal inputs, the passing run
assumes them away, by name: `Careful` in `Sfmm` (allocates or resizes only while lists
0 to 6 are empty, never resizes the block that ends the heap, nor a block to more than its payload and no
more than its size, where `sf_realloc` keeps it as it is or splits it at a wrapped size), `Careful` in
`Notation` (captures what is there, castles with king and rook at home and the way free, promotes pawns
only, no en passant with a piece behind the target, opens a variation only after a move
played, restarts and sets the turn outside variations, and the turn not right after a move played), `lapses = 0` in `Imprimer`, `LoginsOnly`
in `Charla` (for `LoginMarksCaller` and `LoginsKeepPointers` only), the empty line in `Accepts` of `Birp`.  The
violation runs, the counterexamples and section 7 say what happens otherwise.

## 4. Fairness

* `Charla!FairSpec` has weak fairness of `Step(t)` for each thread: the kernel runs every
  runnable thread.  What the client on the other end does (`Environment`) has none:
  it may stay silent for ever.  A mutex needs no strong fairness here because `Answered` holds
  in the checked instances without it.
* `Packets!FairSpec` has weak fairness of each sender's `proto_send_packet` and of
  `proto_recv_packet`: threads run, and the kernel wakes a reader when there is
  something and a writer when there is room.  `Hangup`, `Reset` and `Close` have none.
* `Imprimer!Spec` has weak fairness of each child: it is a process of its own and
  is scheduled whatever the parent does.  Commands have none.

## 5. Proofs

All are checked by TLAPS for every value of the constants that satisfies the named assumptions.

* `Charla_proofs!TypeCorrect`: `Spec => [](TypeOK /\ Control)`.  `TypeOK` alone is not
  inductive: that a scan's slot or a new CLIENT has its type depends on where the thread
  is.  `Control` adds who holds the registries' mutex (`GLock`), that a thread about to
  append a USER does not find its handle (`Absent`), that threads that need a handle have one
  (`Asking`), that only created CLIENTs are pointed to (`Created`), that no
  CLIENT belongs to two threads (`Own`), that one not yet stored is nowhere else
  (`Unregistered`), and that a thread leaving its USER has it (`Leaving`).
* `UsersUnique`: `OneUserPerHandle` is a conjunct of `Control`; the argument is mutual exclusion by
  `lockG` from the search to the append.
* `OnlyHolderUnlocks` (`UnlockByOwner`) and `SessionsUnique` (`OneSessionPerHandle`) need each other.  The
  strengthening `Exclusion` says who holds `lockL`, what the first loop has established
  about the slots it has passed (`NoConflict`), and that the CLIENT being marked is
  logged out until then (`Marking`, `Reserved`).  It is kept only if nobody but the
  holder releases the mutex, and `client_logout` also contains an unlock (client.c:114),
  reached when the scan finds no slot of its own.  That it always finds one, or crashes first, is `Paths`.
  A logout's scan passes a slot only if it holds a CLIENT of another USER, and dereferences the USER of every CLIENT it meets.
  So `Finds`: the CLIENT of a thread that has a USER is marked, or about to be, and in a slot its scan has still to come to and nobody
  else is about to clear; or the thread is `Trapped`, that is, such a slot holds a CLIENT without USER that is marked or about to be.
  A trap stays for ever (`TrapsStay`), since only free CLIENTs are given a USER.  While there is none, a logout clears its own
  slot (`ClearsOwn`) and the USERs in the registry are those of marked CLIENTs (`NamedMarked`); no login
  overwrites a CLIENT in use (`StoresFree`, `FillsFree`), no CLIENT is in two slots (`OneSlot`), and threads
  that share a USER are trapped (`Doubles`).  Each of the parts is needed for another; `Server` puts them together with `Exclusion`.
* `PointersKept` (`LoginsKeepPointers`: no thread goes through a null or freed pointer, and what stops the server is the array of users when it is full,
  or a second request for the list) and `CallersMarked` (`LoginMarksCaller`)
  are about the states in which every connection has sent one request at most and none has ended.  Their invariant is
  `Quiet`: in such a state each connected thread has its own CLIENT, registered with its own descriptor, so that
  the second loop of `client_login` can stop only there (`Orderly`).  Which fault a thread can meet, by where it is, is `Cause`.  The faults these
  states exclude are those of `charla_reuse`, `charla_scan`, `charla_full` and `charla_logout`.
* `SessionsImplemented`: `Spec => ImplementsSessions`, the refinement.  The step that marks a
  CLIENT maps to `Login`, because `Exclusion` has the handle free and the CLIENT unused, or to `Spend`, if its USER was taken away
  meanwhile.  Every other step gives nobody a session (`Kept`) and takes one away at most (`Loses`): a `Logout` or a stutter.
* `Sfmm_proofs`: for every request whose block an `int` can count (`FitsInt`), the `int` does not overflow, the block holds the request and wastes less
  than 32 bytes (`BlockHoldsRequest`); every size goes to the list that `sfmm.h` assigns to it (`IndexMatchesClass`).
  For a `Careful` program, any sequence of its calls, pages of any size (a multiple of 16, at
  least 80, so that the first page holds a block), as many as fit below the sentinels (a megabyte in the module, 16 pages
  in `sfutil.o`), and sizes that an `int` holds (`SfmmAssumption`): `HeapCoalesced` (`Coalesced`),
  `FreeBlocksListed` (`Listed`), `AllocationsApart` (`Separate`), `PayloadsKept` (`PayloadKept`) and `AllocationsHeld`
  (`HeldKept`).  `Coalesced` and `Listed` are about what a walk over headers or links meets; no step can be reasoned about in
  these terms.  The inductive invariant (`IInv`, theorem `HeapSound`) says instead that *there are* sets `A` and `F` of allocated and free
  blocks and lengths `z` that tile the heap (`Geometry`), that every header, footer and the epilogue are what these say (`Words`), that no free
  block follows another, that the links are rings through the sentinels of exactly the blocks of each class (`Rings`, `ListOf`),
  and that each allocation is a block of `A` of its own with room for it (`Holds`).  That a ring cannot bypass its sentinel needs
  a rank that falls along the links (`Ranks`).  Each operation is then a change of `(A, F, z)`: growing lengthens the
  wilderness (`GenTight`, `GrowAll`), a split replaces a block by two (`SplitGeometry`, `SplitTight`, `ShrinkSettles`), `sf_free` merges up to three
  (`MergesExist`, `MergedHeap`, `FreeSettles`), linking and unlinking keep the rings (`Push`, `Unlink`), and what is
  written into payloads is none of the allocator's words (`PayloadWords`); `Stepped` puts the calls together.  While a careful program asks for
  memory nothing but the wilderness is free (`OnlyWildFree`), so that lists 0 to 6 are passed over; frees come in any
  order and meet every case.  Last, the walk over the headers visits `A`, `F` and the epilogue
  (`BlocksAre`), the walk along the links the whole list (`RingIs`), by counting, and `get_index` is the one class of a size (`OneClass`).
* `NotationBoard_proofs`: `UndoRestores`, `PrintingKeepsBoard`, and `PassantNotRestored`: on every board
  undoing a capture en passant fails to restore the captured pawn (section 7).
* `Notation_proofs`, for every careful input of tokens of any length and variations of any depth: `BoardBacktracked`
  (`Backtracked`), `VariationsKeepTurn` (`SameTurn`), `NoPieceAppears` (`Material`), `LinesStayAlive` (`LineAlive`) and
  `TextReadsBack` (`ReadBack`).
  The hypotheses are `Careful` and that a token is a sequence of characters (`TokensAreText`).
  The invariant `Good` says of the tree that links lead to younger nodes only (`Aged`), so that what
  a closed variation frees cannot be in a line that is older; that the nodes to return to form a set of lines closed under `prev`
  and free of freed nodes (`Lines`); that each of their ends is what its predecessor makes of it (`Just`, by `After`: its turn and number,
  the pieces it takes, and that undoing it gives the board before it); and that the stack of positions
  holds the boards of those ends (`Positions`).  It rests on two facts about a move: a sound one that
  `execute_move` accepts can be undone (`MakesMove`, `MakesRoque`), and undoing it restores the board (`UndoRestores`).  That the automaton
  leaves a well-formed move for every text (`AutomatonParses`), and that a line does not
  change when the tree grows, are inductions on a position, done by its least counterexample (`Least`).
* `TextReadsBack` needs of the invariant that a move at the end of a line is one that its position accepts and that
  says of itself what it takes and becomes (`Retold`, `Legible`), and that one played while pieces are being
  placed castles or promotes (`Marked`), else reading it again would place a piece.  `Legible` is not plain from what `check_move` tests:
  a move that takes must have got the type and the piece taken from `execute_move`, whatever sign its text had, and one that takes nothing must not
  have inherited them from the text.  That is a fact about what the automaton can ask for at all, for every text
  (`Shaped`, `AutomatonAsks`, `Spells`).  Then the text is read again, step by step: the automaton, over the letters that `output_move` writes for
  each kind of move (`TextIs`, `TextReads`); the guess, whose table has plain moves and captures and may list other squares, and
  yet comes first upon the one the move started from (`FoundPlain`, `FoundTaking`, `GuessAgain`); the check, which accepts the move as it is
  (`LegibleChecks`, `PlaysAgain`); castling apart (`CastlesAgain`).
* `Packets_proofs`: `PacketsWhole`, `BufferFits` and `PipeImplemented`, for one sender (`Senders = {s}`; with
  two the run `packets_two` refutes the first), every header size, socket size and sequence
  of packets.  The inductive invariant says that the socket holds consecutive units
  of the sender's sequence (`Chained`) that end where the sender is, that
  what the receiver has is the beginning of one packet (`HeaderStage`, `PayloadStage`), that the unit it reads
  next is the one after it (`InStep`), and that the packets sent and returned so far
  are the first ones (`InOrder`, `Given`).  A reset loses units, so `InStep` and
  the order hold only until then.  With the invariant each step maps to one of `PacketPipe` or to none.
* `NotationOutput_proofs`, for every command line, driver, depth and length of the game: `BracketsNest` (`Nested`),
  `ReaderFollows` (`Numbered`), `MovesLegible` (`Legible`), `ListedShown` (`Diagrams`) and `OneDocument` (`Framed`).
  `Numbered` is not inductive: after a bracket closes, the reader
  is in a line he left before, and its next number depends on the turn restored from the stack.
  The invariant therefore says of every line on the stack, and of the current one, that the reader's entries track
  the program's moves (`Tracks`, `Lines`), that the node's turn is that of the line's last move (`Returns`, `TurnsOf`), and
  that the reader has a row open exactly when the driver will not print a number (`Rows`: the interrupt
  flag or White's move just before).  `Legible` and `Diagrams` follow from `Report`, which says
  of all those lines that each entry was printed in the languages of the options (`Style`) and is shown if it was to be
  (`Told`), and that a game still being read under `-e` has met no listed move (`Unlisted`); that the text says which move it was is then
  a fact about the tables alone (`TextSays`, `LettersDiffer`).  An illegal move that starts from an empty square has no
  piece, and its text names none (`@`).  `Framed` follows from `Document`: while the game
  is read the head is printed and nothing lies outside.  The foot is there at every end with the status of a success but those after an
  error, which `notation_garbage` shows.
* `Imprimer_proofs`, for tables of every size, any types, conversions and sequence of commands: `NeverFaults` (`NoFault`),
  `JobsServedJustly` (`ServedJustly`), `FirstInLine` (`HeadOfLine`) and `ErrorsChangeNothing` (`Refused`).  The invariant
  has the types of both tables (`Typed`), that the types they name were declared (`Declared`), and that,
  while the user keeps the contract, every type has a path to that of every printer (`Connected`), without which `NoFault` cannot be kept.
  `HeadOfLine` is inductive beside it (`Line`).  That the search loops, written as the
  least index that fits, find one when there is one is an induction on that index (`LeastElement`).
* `Birp_proofs`, for the eighteen words and any number of them: `AcceptsUsage` (`Accepts`), `BitsSayTheLine` (`Decodes`) and
  `HelpForZoomOut`.  `Accepts` is about the lines of `USAGE` but the empty one, which `birp_empty` shows to be refused, and takes a crash for no acceptance
  (`birp_crash`); `HelpForZoomOut` says for which lines `birp_zoom` finds what it finds.  The run is exhaustive at its bound already (no bound above seven adds a state); the proof says why.
  The invariant (`IInv`) has, while a line is read, formats and a transformation of `USAGE` that are
  what was read, of which each flag and each bit says one thing (`Meant`).  From any such line one can tell
  which word may come next (`GoesOn`, `LineGoesOn`); a word that is refused, or runs into the null pointer, is none of
  these, so that no line of `USAGE` begins with it (`Off`, `OffWord`, `OffPair`).  A line is read in one way only (`OneLine`), so the bits
  are those of the line that was meant; that the upper bits sum to the parameter is an induction on
  the sum (`TotalIsSum`, `Binary`), and only a negative parameter has the highest of them (`HighBit`).

## 6. Only model-checked, and not modelled

Every safety invariant and action property of a passing run is a theorem.  Only model-checked: what must eventually
happen (`Answered`, `Delivered`, `Printout`), since liveness and `ENABLED` are out of the prover's reach.  Induction over data is a limit, too: the
library's induction theorems take an operator as a parameter.  (For sets of numbers a counterexample that is the least one does
the same work: `LeastElement`, `Least`, `LeastNat`; so a loop is a recursive function of its turns where it is proved about.)  What `Sfmm`
does for a program that is not careful is not proved: there its invariants fail (`sfmm_lists`).

Not modelled: hw5's shutdown (`creg_shutdown_all`, the `fini` functions: the accept loop never
ends) and the contents of mailboxes; the rest of `csapp.c`, whose wrappers keep no state; the fields of
a packet's header that are only passed through; hw2's tables of comment symbols and its move
numbers, which it reads and ignores; hw4's choice of input files, the listing's layout, failures of a child; hw1's
diagrams; generated code (`lexer.c`), libraries without source.

## 7. Where code and documents disagree

With a run, described in `findings` of `PROJECT.json`, or a configuration of the second table of section 3:

* hw5: a USER freed while registered (`charla_persist`); a reused descriptor, with which a login marks the CLIENT of a dead connection, while
  `LoginMarksCaller` is about logins before anybody has left (`charla_reuse`); three ways in which a login or a logout dereferences
  a null pointer instead of returning (`charla_scan`, `charla_full`, `charla_logout`); CLIENTs that stay registered (`charla_connected`);
  packets of two threads mixed (`packets_two`).
* hw3: an allocated block in a free list (`sfmm_lists`), an abort on a valid pointer (`sfmm_abort`).
* hw2: a move printed without the origin that tells two knights apart (`notation_knights`); an error that ends the program with status 0 and
  without the foot of its document (`notation_garbage`).
* hw4: the script of `print_test` uses `JOB_LIST[-1]` (`imprimer_enable`).
* hw1: the empty line refused, a crash instead of -1, help for `-z 2` (`birp_empty`, `birp_crash`, `birp_zoom`).

Seen while modelling, represented in the modules, without either, and kept out of the passing runs by their
assumptions:

* hw5: `creg_all_clients` returns its own array (client_registry.h:91-96 promises a copy);
  a refused login keeps a USER reference; three USER pointers fit into what `ureg_init` allocates.
* hw5's wire: part of a header at the end of a connection is taken for a header (protocol.c:21); an error or the end
  inside a payload still returns 0 (protocol.c:27-31; protocol.h:131-133 promises -1); the payload's buffer has the
  size of a pointer (protocol.c:25); an empty packet leaves the payload pointer of the one before; the time stamps
  are not in network order and the nanoseconds are computed from the seconds (client.c:155-156).
* hw3: the exact use of the wilderness makes `sf_malloc` return NULL without growing;
  `sf_realloc` to a size between payload and block wraps (line 563), copies from 192 bytes past
  the block, does not look for NULL; `sf_memalign` never returns a block and keeps the one it took.
* hw2: `undo_move` puts the pawn taken en passant on the square beside the target (notation.c:705), so a variation after it
  starts from a wrong board (theorem `PassantNotRestored`; notation.c:663 says the procedure undoes the effect of the move);
  a promotion never puts the promoted piece on the board; `@whitesmove` and `@blacksmove` change the side of the move
  just played (notation.c:1463-1480), so a variation after them takes it back for the wrong side; a variation on the last move, or no
  input, ends with freed memory freed again; captures en passant print as `xd6`, which does not read back; a text that ends before its line is read
  (`Ke`, `ez4`) moves the piece to line 0, into the margin, and the digit of line 0 is printed, which the model has no text for
  (`ReadBack` leaves it out).
* hw2's output: a text or comment does not interrupt a row although drivers.c:148 says it does; an output file that cannot be opened
  leaves a null file, while the message says "assume stdout" (notation.c:1667-1670); `-s` has no effect with xchess and gnu, and no
  format prints the origin `-a` asks for; a game that Black begins prints his first move without a number; `-e` inside
  a variation leaves TeX's environment open; `-b` still prints brackets and texts; `-c` looks at the bound after it has
  stored the number (notation.c:1696-1705); a full comment buffer gets its terminator one past its end (lexer.l:107-117).
* hw4: `enable` hands over jobs of other types only; a job that names a printer is eligible for none, one that names two, or one twice, is lost and
  leaves a hole; jobs stay created and printers idle because children change copies, so `cancel`, `pause` and
  `resume` always fail and each `enable` prints the first match again; with `-i` or `-o` every read fails
  at once (cli.c:259-260 passes a null size to `getline`).
* hw1: `-z 0` means `-Z 1` (birp.c:203); `main` tests with `|` instead of `&`
  (main.c:31-36), so every conversion is `birp_to_birp`, which does nothing.

## 8. Plan

Done, in this order: hw5 core and its proofs, hw3 allocator, hw2 reader, hw4 spooler, hw1 options; then hw2's command
line and output drivers with their proofs, hw5's wire protocol with its refinement and proofs; then the proofs
of the spooler, of the output's document, texts and diagrams, the refinement of `Sessions`, the proofs of the
reader of hw2, those of the allocator, and that of the mutex of hw5's logins.

Next:

1. Extend: hw5's shutdown as a component; more children and jobs in `Imprimer` with the connection to the printer
   failing; `Notation` and `NotationOutput` composed, so that the moves printed are those of the board.
2. Prove: `Sfmm` for a program that is not careful, up to its first mistake; a `Birp` whose words are
   any text instead of eighteen, for which the text of a number has to be read by an induction.
