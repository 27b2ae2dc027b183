# Negatus in TLA+

Negatus is a single-threaded agent that lets a test harness control a device over TCP: a
command port (20701), where a client types commands after a `$>` prompt, and a heartbeat port
(20700), where it receives a line a minute. This directory models the agent (`src/src/`),
checks the models with TLC and proves theorems about them with TLAPS.

## 1. The system

| Component | State | Operations | Called by |
|---|---|---|---|
| **Reactor** (`Reactor.cpp`, `EventHandler.*`) | `mEvtHandlers`, `mTimeouts`, the arrays of one pass | `run`, `stop`, `setTimeout`, `registerHandler`, `deleteClosed` | `main`, every handler |
| **SocketAcceptor** | listening socket | `listen`, `handleEvent` (accept, create a session) | Reactor |
| **CommandEventHandler** | `mBufSocket`, `mDataEventHandler`, `mClosed` | `getPollDescs`, `handleEvent`, `handleTimeout`, `handleLine`, 25 commands | Reactor |
| **PullFileEventHandler**, **PushFileEventHandler** | file, bytes moved, announced size | `handleEvent`, `close` | the session that delegates to them |
| **SubprocessEventHandler** | pipe | constructor (environment, `popen`), `handleTimeout`, `close` (`pclose`) | the session |
| **HeartbeatEventHandler** | `mBufSocket` | `handleEvent`, `handleTimeout` | Reactor |
| **BufferedSocket** | socket, two "closed" flags, buffer | `read`, `readLine`, `write`, `close` | sessions, data handlers |
| **BlockBuffer** (`Buffer.cpp`) | blocks, get and put pointers | `put`, `get`, `getline`, `find`, `avail` | BufferedSocket |
| **main** (`SUTAgent.cpp`) | `wantToDie` | options, registration, reboot callback, loop | the system |
| **Config**, **Registration** | test root, ini data | `setTestRoot`, `read_ini`, `gen_query_url` | main, commands |
| File commands, Shell, Hash, Strings, Logger | file system, clock | one call each | commands |

How they interact. Everything runs on one thread, in callbacks of `Reactor::run()`: poll,
`handleEvent()` for each ready descriptor, collect expired timeouts, `handleTimeout()` for
each, delete closed handlers. Handlers are plain pointers: the reactor owns registered ones,
a session owns its data handler, and both share the session's socket. What is concurrent is
outside: clients (sending, pipelining, closing one or both sides, resetting, not reading),
subprocesses, the clock, signals.

What is hard, and what makes each part correct:

- *Lifetime.* Handlers close themselves in a callback and are deleted later; timeouts,
  ready descriptors and expired handlers are pointers to them. Nothing deleted may be called.
- *Time.* `PR_IntervalNow()` is a wrapping 32-bit counter. No timeout early, none overlooked.
- *Hand-over of the stream.* Commands and file contents share one buffer, and a prompt is
  written by three different functions. Each byte has one reader; each command one prompt.
- *Half-open connections.* Each direction ends separately and is noticed at different times.
  A session must end when its client is gone, and must not wait for what cannot come.
- *Boundaries.* Lines and reads cross the blocks of the buffer.
- *Partial failure.* Files that cannot be opened, sends and writes that are cut short,
  subprocesses that die or that never do, descriptors that run out.
- *Sharing.* Sessions work on the same files, and one `cd` moves them all, between two events of
  a transfer; other processes change the tree that `rmdr` walks.
- *Restarts.* A callback outlives the device's reboot in a file; the device may go down anywhere.

The full list, line by line with the properties that cover each, is `hazards` in
`PROJECT.json`.

## 2. The modules

**`Reactor`** models `Reactor.cpp` with the loop of `main()`. A handler is an address; one
outside `evtHandlers` is deleted, and addresses are reused. The five phases of `run()` are
values of `pc`; a call of a handler is a step (`HandleEvent`, `Accept`, `Deliver`) in which it
may do what some handler of the agent does to the reactor: close itself, set a timeout,
register a new session, or stop the reactor (`Reboot`, the rebt command). Vectors are sets:
handlers touch only their own state, so their order is not observable. A timeout keeps the
value of the wrapping clock it was set at (`epoch`), and, as history, its true `age`. A call
through a pointer to a deleted handler may crash (`pc = "crashed"`) or may go unnoticed; so may
the timeout of a handler that is closed, which is what `CommandEventHandler::handleTimeout()`
can do.

**`Agent`** is `Reactor` with the handlers that really run on it: the two acceptors, command
sessions with the subprocess of an exec, heartbeats, and their clients. Where `Reactor` leaves
open what a handler does, here the code decides; the actions reuse those of `Reactor` where the
loop itself moves. A call of `handleEvent()` or `handleTimeout()` is one step. `pclose()` may
wait (`waiting`), and then the loop stands still. `RunsOnReactor` is the refinement: every step
of `Agent` is one of `Reactor`'s or leaves the loop alone. It shaped `Reactor` too: the crash of
a closed session's timeout was not among the loop's steps until the composition showed it.

**`BufferedSocket`** holds the operations of the class as operators on a record. Tokens stand
for what travels: complete lines of commands, and pieces of files.

**`CommandSession`** models one connection from prompt to deletion: `CommandEventHandler` with
the data handler it delegates to, the client and the connection. `pc` follows one pass of the
reactor as this handler sees it: `poll`; `loop` (top of the loop in `handleEvent()`), `check`
(after the data handler's `handleEvent()`), `lines` (inner loop), `tail` (after the loop);
`timeouts`; `sweep`. Between any two of these steps the client may act. `Kinds` of commands:
`quick` is every command that answers with one string (including wrong arguments and unknown
commands), `pull` includes `cat`, `exec` includes `execsu`. Lengths are counted in tokens
(push) or blocks (pull). A pulled file may end before its announced length. `rebt` of
another client and the end of the agent are `Stop`. History variables count lines handled and
prompts written, payload read as commands, and the files and pipes that are open: one more for
each data handler that opens its own, one less for each `close()`, whoever calls it.

**`FileTransfer`** is what `CommandSession` leaves out of a transfer: bytes. Several sessions
pull (with ranges), cat and push files of one name in several directories, and between their
events `cd` and `rm`. An open file is an inode that outlives its name. `Send` lets each
`write()` to the client be cut short, `PushEvent` each `PR_Write()`, and `ReadFails` is a
`PR_Read()` that fails: always that of a directory, which a pull opens and announces like a file.
`cut`, `short`, `failed` and `disturbed` remember where that has happened.

**`Lifecycle`** is `main()` from one start of the device to the next: options, test root, the two
ports, the registration, the callback file, then `cd` and `rebt`, and `Crash` at every step. The
files survive; `requests`, `calls`, `pending`, `strayed` and `repeats` are history. The numbers given as
ports are any whole ones, converted as the code does, first to 32 bits and then to 16.

**`RemoveTree`** is `rmdr`. The recursion is a stack of frames. Paths are sequences of names and
are resolved at every call, through links, in a tree that other processes change between any two
calls: they remove files, links and empty directories, make new ones, move what there is with all
that is in it, and make links lead elsewhere (`Others`). So a directory may be moved, or a link put
in its place, between `isDir()` and `PR_OpenDir()` and between that and `PR_RmDir()`. What is
below a directory (`Below`) is the least set that is closed under entries and links.

**`Descriptors`** counts the descriptors of the process: who opens one, who gives it back, who
forgets to, and who looks at a null result. A step is one call of a handler. It does not follow
rebt, after which nothing is served (`Lifecycle`).

**`ExecArguments`** follows `strtok()` through the arguments of exec: words, quotes, items,
assignments, program; a step is one round of a loop. **`ExecEnv`** models the two loops in the
constructor of `SubprocessEventHandler` that set and restore the environment around `popen()`.

**`IniFile`** and **`QueryUrl`** are `Registration.cpp`: `read_ini()` line by line, and
`gen_query_url()` pair by pair, each against what a file says and what a server reads.

**`ByteQueue`** is what `BlockBuffer` promises: a queue from which one takes bytes or the first
line; `call` tells which, so that a refinement cannot pass a wrong line off as a `get`.
**`BlockBuffer`** models `Buffer.cpp` round by round: a round of the loop of `put()` or
`get()` is a step, blocks are functions from indices to bytes, fresh ones hold `Junk`, an
index outside a block is an error of evaluation. `Avail` and `Find` are closed forms;
`AvailLoop` and `FindLoop` are the loops as written, and `LoopsAgree` compares them.

How they fit together: `Agent` composes `Reactor` and `BufferedSocket` and is shown to implement
`Reactor`; `CommandSession` uses `BufferedSocket` and takes one command handler of `Agent` apart;
`FileTransfer` takes the data handlers of `CommandSession` apart; `BlockBuffer` implements
`ByteQueue`, the sequence that `buf` of `BufferedSocket` is. `Lifecycle` puts the whole agent
into one value of `pc`, `"loop"`.

`MC*` modules and `.cfg` files are instances for TLC; a module whose constants are plain values
is its own instance. `*Proofs` modules hold the theorems.
Definitions marked *faulty variant* are what the code would be with a plausible mistake;
nothing uses them but the mutation runs listed in `PROJECT.json`, which check that each
property can fail.

## 3. What is model-checked

Three of the instances hold several modules that share a thread and nothing else; in a behaviour
only one of them is at work, as the variable `part` says. They are `MCCommands` (exec and rmdr),
`MCFiles` (transfers and descriptors) and `MCLifecycle` (the starts of the device, and the
registration a start sends).

| Run | Shows |
|---|---|
| `reactor` | `NoDanglingPointers` (until `stop()`), `NeverEarly`, `NeverOverlooked` under every behaviour of handlers; `ClosedIsDeleted`, `TimeoutServed`, `SignalEndsLoop` |
| `reactor_cleanup` | **fails**: `AutomaticCleanup`, see findings |
| `agent` | `RunsOnReactor`; `OneTimer` (timeouts neither multiply nor get lost); `CrashKnown`, the three ways in which the agent crashes |
| `agent_live` | `KeepsBeating`, `LeaversAreDeleted`, `SignalEndsAgent`, each up to a `pclose()` that waits |
| `session` | `OnePromptPerCommand`, `PayloadIsNotParsed`, `TimerMatchesSubprocess`, `PollsWhatItAwaits`, `OpenFilesAreHeld` (what is open belongs to the data handler that is at work; one file at most stays open behind a session, of a client that went or an agent that stopped), for clients that pipeline, half-close, reset or stop reading; `ClosedSocketDetected`: a session whose client has gone ends, except where the code puts that off |
| `session_lockstep` | `EveryCommandAnswered` for a client that waits for each prompt |
| `session_pipelined` | **fails**: `Drained` for a client that does not wait, see findings |
| `files` | of transfers: `PullDelivers`, `PushHashTells`, `PullEnds`, while other sessions write, remove and change directory; of descriptors: `ShortOnlyIfForgotten`, only what `kill`, `info memory` and abandoned transfers leave open makes the agent run short |
| `lifecycle` | `ToldWhenServing` (server and clients are told of the ports when both are open, and a port that was asked for, up to 65535, is the one that is open), `CallsAreRequested`, `CallbackFound`; of the registration: `SaysWhatItSays` (the last assignment below the last title of a section counts, and the file is closed on all three exits), `ReadsBack` (as many fields as names, and each reads back as a name and its value) |
| `commands` | of rmdr: `AnswerTells`, `OnlyBelow`, with links, missing rights and other processes; of exec: `TakenAsWritten` (what a well-formed line says is taken), `ChildSeesAssignments`, `RestoredIfAssignedOnce`; of both: `CommandsEnd`, and `CommandsTypeOK` |
| `exec_env_restored` | **fails**: `Restored`, see findings |
| `buffer` | `ImplementsQueue` (refinement of `ByteQueue`), `PointersSafe`, `LoopsAgree` |

Findings, each a comment or message of the source and a run that contradicts it:

1. `Reactor.h:21-22` promises registered handlers automatic cleanup. `stop()`, which rebt calls
   from inside `run()`, deletes handlers and leaves their timeouts, which the same pass and
   later ones still deliver.
2. `CommandEventHandler.cpp:137`: "Make sure we drain all the data we can from the socket."
   A command received together with one that starts a data handler stays in the buffer after the
   prompt, because the end of a subprocess (and of a pull) does not go back to reading lines
   and the poll does not report bytes already received. (One that comes later stays in the kernel
   and is handled: the next poll reports it.)
3. `SubprocessEventHandler.cpp:57`: "restore the env". Fails for a variable that was empty and
   for one assigned twice.

Some properties hold only of inputs they name, because the code does something else for the
others. These limits are part of what the models say:

- `TakenAsWritten` and `CommandsEnd` speak of lines in which each item of an assignment list has an equals sign and
  a quoted first word has no blank in it. Without the equals sign exec loops for ever
  (`CommandEventHandler.cpp:395`, the token is not advanced); of a quoted text with a blank, a
  character is lost (line 367: the line was split at blanks before).
- `CallbackFound` excuses a callback that rebt stored while the test root was not the directory the agent
  starts in (`strayed`): it goes under the test root (line 753) and the restarted agent reads it by
  its bare name (`SUTAgent.cpp:77`). A relative test root is such a one after a `cd`.
- `PullDelivers` and `PushHashTells` excuse a send that was cut short: `BufferedSocket::write()`
  drops the rest. A pull of which a read fails ends short of what its header announced
  (`PullFileEventHandler.cpp:141`); what it has sent is the beginning of it.
- `ToldWhenServing` speaks of numbers that are ports. Those from 32768 on become negative and are
  refused; of a number above 65535 the conversion (`SUTAgent.cpp:156`, `166`, no test but for `<= 0`)
  may make another port: `-p 86236` listens on 20700, and that is the port that is told.
- `OnlyBelow` looks at the tree and the links as they are when something is removed: what another
  process has put in reach of the argument by then may go. `AnswerTells` excuses what another process
  has moved, with what is in it. A name stays with its node: renaming in place, or over something,
  is two changes (one goes, another comes). Rights do not change during the command.

### Bounds

- *Reactor*: one acceptor, two other addresses, two timers, intervals 0 and 1, clock modulo 4,
  one tick per pass. Two addresses let one be deleted and reused while another lives; the
  clock wraps several times within an interval's life. The assumption that an interval plus
  two passes is less than the clock's range is what `expired()` relies on; in the program
  the range is 2^32 ticks, and intervals are 100 ms and 60 s.
- *Agent*: two addresses for three connections (two sessions and a heartbeat), so that an address
  is used again; lines of every kind, one at a time; the two periods differ and the clock wraps.
  The liveness run has one session that runs subprocesses and one heartbeat.
- *CommandSession*: three commands of all kinds (two in `session_lockstep` and
  `session_pipelined`), pushes of 0 to 2
  tokens, pulls of up to 2 blocks: a payload can arrive before, with or after its command and
  followed by another command; a data handler can end at once, after one event and after
  several.
- *FileTransfer*: two sessions, two directories, files of 3 bytes in blocks of 2 (a last block
  that is not full), ranges that begin in the file and that go past its end, pushes of 0 and 2
  bytes, one `cd` or `rm`; a read may fail at the beginning and in the middle.
- *Lifecycle*: three starts of the device, two addresses, three directories, and a test root that is
  relative; the heartbeat's port, the largest `PRInt16`, the next number, which becomes negative,
  and 86236, of which 20700 is left.
- *RemoveTree*: a directory in a directory, a file, a link that leads up, down, away or nowhere,
  a directory elsewhere with a file in it, and a second link that has the first directory's name and
  can take its place; paths with at most 2 links, 4 descriptors: enough for a link to be walked
  through twice and for each error of the four calls. One change by another process of a tree that can be read, and from
  fewer trees two, which it takes to put one thing in the place of another.
- *Descriptors*: two sessions, 13 descriptors, of which 2 are listened on and up to 3 forgotten at
  the start, so that some can be lost before the agent runs short; `rmdr` two deep.
- *ExecArguments*: all lines of up to 6 of the characters blank, quote, equals, comma and another:
  two words, or an assignment and a program, in quotes and not.
- *ExecEnv*: two variables, three assignments, empty, set and unset.
- *IniFile*: all files of up to 5 lines over three sections, two names, two values: a section that
  comes twice with assignments before and after.
- *QueryUrl*: up to two pairs of keys of 1 and values of 2 characters; the characters are two
  that stay as they are, the three signs of a query, and one above ASCII.
- *BlockBuffer*: blocks of 2 bytes, puts of up to 3, 5 bytes in all: empty and exactly full
  blocks, inputs over three blocks, lines across a boundary.

`CHECK_DEADLOCK FALSE` everywhere: the agent, the session and the commands end, the clients'
commands and the buffer's inputs run out at their bounds.

### Fairness

The agent's only thread runs (`WF` of the steps of the loop), and time passes (`WF(Tick)`). In
`CommandSession`, `SF(PollWrite /\ SurelyWritable)` says that `PR_Poll()` reports in the end a
socket that can take data whenever it looks; in `FileTransfer`, `WF(PullEvent /\ ReadNext)` says the same of a
client that goes on reading. In `RemoveTree` and `ExecArguments` the command is the only thing the
thread does until it returns. Clients, subprocesses, other processes and signals owe nothing:
liveness properties name as exceptions the client that stops reading and the subprocess that
does not end.

## 4. What is proved

For all values of the constants, under the named assumptions of each module, with the
invariants first checked by TLC. The assumptions say which sets are finite or disjoint, that
bounds are naturals, and, where the code relies on it, a relation between them (`Reactor`: an
interval and two passes are shorter than the clock's range).

- **`AgentProofs`**, first of the event loop (`Reactor`) with any handlers: `TypeCorrect`,
  `NoUseAfterDelete`, `NotEarly`, `NotOverlooked`. `Phases`
  says which arrays are empty at which `pc`; with it `NoDanglingPointers` is inductive: handlers
  are deleted only in `DeleteClosed`, where no array holds a pointer but `timeouts`, and those go
  along. For the timeouts, `Punctual` bounds the age of a pending timeout by its interval plus
  the ticks of this pass and, until the expiry loop has examined it in this pass, of the last
  one; so ages stay below the clock's range, where wrapped and real difference agree.
- **`AgentProofs`**, then of the agent: `AgentRunsOnReactor`, so that all of the above holds of it,
  for any number of sessions; `OneTimerEach`; `CrashIsKnown`. Most steps of a handler map to one of
  `Reactor` by themselves. The exception is a timeout that finds no data handler: the code would
  crash, and `Reactor` allows that only of a closed handler. So the refinement needs `Timed`, which
  is `OneTimer` with the identity of the timeout, and `Timed` needs the invariant of the loop (which
  comes from the theorems above by the refinement of the steps up to then) and `Shape`, which
  ties each handler's kind, data handler and subprocess together. `AgentInv` is the three.
  For the crashes, `Recent` says that a session closed in this pass has only timeouts set in this
  pass: one can expire only if the pass outlasts the period. It rests on `Swept`: no handler
  that is closed is polled, and none is left at the top of the loop.
- **`LifecycleProofs`**: `ListensAsAsked`, `TellsWhenServing`, `CalledAsRequested`, `LifecycleTyped`,
  `CallbackIsFound`, `IniFileDelivered`, `QueryReadsBack`.
  Whatever numbers are given, what is listened on is at most 32767 (`LifecycleTyped`); and of a port the
  conversions make the port itself or nothing positive (`PositiveFits`). The callbacks need a balance, `Owes`: calls made, plus files that still hold the address (but for
  the one about to be removed), plus the one being written, are at most the requests and the
  excused repeats. Each step moves one unit from one term to another. `Empties` says that a file
  is empty only while rebt writes it, or after something went wrong. That a callback is found needs
  `AtHome`, the agent has not left its directory before it looks, and `Stored`: what is pending and has
  not strayed is what the file at home holds, and in the loop there is none.
  Of the registration, `IniFileDelivered` holds for files of any length: `ReadSoFar` says that after
  each line the dictionary has, for each name of a section, the value of the line that `Decides`,
  the one that sets it and is not followed by another or by a new title of the section.
  `QueryReadsBack` holds for data of any size, over any characters: `Encodes` says that `urlencode()`
  writes its text, character by character, without a sign of the query among it. In the loop, the
  fields between zero and the ampersands of the buffer are those of the keys that are done, and as
  many (`QueryInv`). A round adds one field behind the last ampersand, which has had no
  neighbour on that side (`NewNeighbour`), and at the end the ampersand that is erased was where the
  end of the text is then (`LastMarkGoes`).
- **`DescriptorsProofs`**: `WithinLimit`, `ShortIfForgotten`. `Balanced` is an equation: the
  descriptors in use are those listened on, those of the sessions, those of their transfers, and
  those forgotten. The sessions hold at most two each, so what runs short has been forgotten.
- **`CommandSessionProofs`**: `SessionTypes`, `OnePrompt`, `OneTimer`, `AwaitsSomething`,
  `HoldsWhatIsOpen`, `PayloadStaysApart`.
  Its first lemmas say what each operation of `BufferedSocket` does to a socket: the descriptor and
  the two directions stay consistent, nothing is reopened, writing never closes the receiving
  direction and reading never the sending one.
  The inductive invariant adds `Tidy` (a data handler that is closed is a pull or a push; a
  closed session has a closed socket and no data handler) and `Phases` (what is known at each
  `pc`: a data handler at `check`, none that is finished at `tail`, an open readable socket from
  `timeouts` to `poll` unless the session is closed). `PerformIs` sums up the effect of the six
  kinds of commands, so that `HandleLine` is one argument. `PayloadStaysApart` looks at the stream,
  what is in the buffer and then what is on the way, and at `Due`, the payload at its front that
  the current push or failed ones before it announced. `Parted` says that a token of the stream is
  payload exactly if an earlier one, or `Due`, has announced it (`Ordered`), and that what is
  announced and not there is what the client still owes (`Complete`); without the latter the
  client could put a command where payload belongs. `SessionTypes` follows because the
  bounds of the counters come from `Parted`: no command is counted that was not sent.
  `HoldsWhatIsOpen` counts what is open at each step that opens or closes (`Held`): a command that opens
  something leaves a data handler that holds it, and an end that does not close it is that of the session.
- **`FileTransferProofs`**: `PullsDeliver`, `HashesTell`, `PullsAreBounded`. The invariant speaks of one session at a time
  (`Going`). A pull that is not disturbed has sent what it has read of its slice and nothing else
  (`Sliced`); any pull, disturbed or not, has sent no more bytes than it has read and read no more
  than it announced (`Counted`, a count of the positions of `got` that hold bytes). A read that fails ends it there:
  what was sent is a beginning of the slice, and all of it only if no read failed. A push has
  taken no more than arrived (`Uploading`), and its file, found by the path it was given, holds a
  prefix of the payload unless a write fell short, and then is shorter than it should be, for
  good (`Stored`): so the hash tells. Each event of another session either leaves the files of
  this one alone or sets `disturbed`; `OpenOn` and `KeepsGoing` say which. `PullsAreBounded` is the
  safety half of `PullEnds`: an event of a pull lowers `ToCome`, and no other step changes the pull.
- **`RemoveTreeProofs`**: `RemovesOnlyBelow`, `AnswersTell`, for trees of any depth with any links, any
  rights and bounds, and any number of changes by others of the kinds above; assumed is that what there
  is at first is a tree (`IsTree`) and that links lead to no links. What others do keeps it a tree
  (`LessIsTree`, `MoreIsTree`). `Descending`: the path of each call begins with the argument; so what it
  leads to can be reached, in the tree and by the links there are at the time of the call, from what
  has the argument's name then (`ResolvedIsReached`, which follows the look-up name by name). An entry of
  a directory that is reached is itself below the argument or strictly below where a link leads
  (`EntryOfReached`), and this is `OnlyBelow`. An empty answer means that the last `PR_RmDir()`, that
  of the argument (`Outermost`), did not fail, so the argument is not where it was; and what is in a
  directory that is gone or was moved is gone or was moved too (`AllGone`). That a run which nothing disturbs removes
  everything needs a second invariant, `Orderly`, for as long as the premise of `CleanRun` holds:
  each open directory is in the one before, and of what is in it all is still to be read but the
  entry being dealt with.
- **`BlockBufferProofs`**: `BufferPointersSafe`, `BufferTypeCorrect`, `BufferImplementsQueue`,
  `LoopsAreRight`. `want <= Avail` needs that a
  round of `get()` which stays in a block cannot pass `putPtr`: the block is either the last,
  where `want` bounds it, or full. The refinement follows the sequence `Contents` of the bytes between
  the pointers: a round of `put()` appends to it what it takes from the input (`PutChunkAppends`)
  and a round of `get()` takes its beginning (`GetChunkTakes`), cell by cell, also when a block is
  deleted and all positions shift. For the loops of `avail()` and `find()` the
  value from each block on is given in closed form, shown to satisfy the recursion, and to be
  the only one that does (`Downward`).
- **`CommandsProofs`**: `RestoresEnvironment`, `ChildInherits`, `LinesAreTaken`, `RoundsAreBounded`,
  `CommandsTyped`.
  For the environment the invariant says how far the two loops are: the
  backup of a variable assigned once is its original value, because the first loop has not changed
  it before reaching it, and what the second loop has passed is back.
  `ChildInv` says what the environment holds after some of the assignments: of each variable
  the value of its last one among them (`Holds`).
  For the line it says where `strtok()` stands: it has taken so many runs of characters that are not
  delimiters, it goes on behind the last of them, and what lies before has no other (`Reached`).
  So the next token is the next run (`NextRun`), or there is none left (`LastRun`). This is used
  twice, for the words of the line (`WordsTaken`) and for the items of its first word (`ItemsTaken`).
  `RoundsAreBounded` is the safety half of `CommandsEnd` for exec: each round lowers `Left`, a bound of
  the rounds to come, except the round over an item without an equals sign, which changes nothing.
  `CommandsTyped` puts the parts together: each keeps its types by itself, also while it rests.

Recursion over data appears in four of these modules: a path that is looked up name by name, loops
over blocks, the runs of a line, a text that is put together of its characters. The library's
induction theorems cannot be used; instead, a recursive function is shown to exist and to be unique,
or a claim about each number to hold, from the least number for which it would not (`SmallestOf`).

Every invariant that a passing run checks is proved, and every action property. Only model-checked
are the liveness properties, which need `ENABLED`, outside the prover's reach; for exec and for
pulls the bound that makes them end is proved. `Drained` is false.

## 5. Not modelled

- Wording: answers, log lines, the text of a heartbeat; the digest that `hash` computes (a hash
  is the contents it is computed from).
- The table of mounts in `Config.cpp`: the directory it leads to is any of those it can be.
- The splitting of command lines other than exec's: it is the same first loop, and what the
  commands make of their words is in the modules of the commands.
- `mkdr`, `settime` and `setutime`: one call to the system each, whose result is the answer.
  `isdir`, `ls`, `cwd`, `dirw` and `info` change nothing; what they open is in `Descriptors`.
- The contents of `/proc` that `kill` walks, and which processes it ends.
- Windows and macOS branches.
- Code without a caller: `removeHandler`, `allocBlock`, `advancePutPtr`, `shrink`,
  `getline(char*, size)`.
- Building and packaging.

## 6. Open ends

- `CommandSession` as a refinement of the command handlers of `Agent`: a handler is one step there and
  many here, so the mapping has to hold back what a handler has done until it returns.
- A bound of the steps of rmdr, as there is for exec and for pulls: it multiplies over the depth of
  the recursion, which links make deeper than the tree.
