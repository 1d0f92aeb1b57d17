# UHF-cpp: TLA+ models of the RL8000 reader library

UHF-cpp is a Linux library (`libRL8000RFIDReaderDll.so`) for RFID readers on a
serial bus, with a demonstration program. A call of the library builds a
request, sends it as one framed block through a serial port, waits for one
framed answer under a timer, and hands its data to the application. Its settings
come from ini files that it reads and writes. This directory models the path
from the bytes of the port up to the inventory of tags, and the ini files,
checks them with TLC and proves part of them with TLAPS.

## 1. The system

```
 main.cpp  ->  RL8000_WinTagInventory            TagInventory, InventoryLink
                 | ISO15693_*, MifareS50_*, ...   TagAccess (Ebv)
                 | IBlock_Transceive, Resync      T1Link
                 | CommTransceive                 FrameRx  over  CirCursor / CirBuf
                 |    |        \                               (a ByteQueue)
                 |  UART_*     TIMER_*
               SerialPort     Timer.cpp           SerialPort      TransTimer
                 |
               IniFile (SetComm.ini, RfAddr.ini)  IniFile / IniText  (an IniStore)
```

| component | state it keeps | operations | correct when |
|---|---|---|---|
| ring buffer (`circular_buf.cpp`) | `Buffer`, `readPos`, `writePos`, `cursor` | init, push, pop, flush, sizes, read-ahead cursor | it is a FIFO queue; reading ahead sees what pop returns |
| frame receiver (`ParseIncomeData`, `CommTransceive`) | the handle's ring and `rcvBuf` | push what was read, look for a frame, drop or keep the rest | a frame received is found, and nothing else is handed on |
| block link (`IBlock_Transceive`, `SBlock_Resync`) | `NS`, `NR`, `DAD`, `hTag` of a handle | open, resynchronise, send a command and judge its answer | the numbers stay in step; 0 means executed; `hTag` is true |
| timer (`Timer.cpp`) | counter, start time, timeout, two flags | thread, open, start, expired?, kill | a wait ends after its timeout; kill ends the thread |
| EBV integers (`tool.cpp`) | none | set, get | get returns what set wrote |
| commands (`RL8000_CMD_*`, `ISO15693_*`, `MifareS50_*`, `MFUltralight_*`, `ISO14443*`) | `sndBuf`, `rcvBuf`, `hTag`, the caller's buffer | build a request, read its answer | declared lengths are true; success only for a success; no copy beyond the caller's size |
| inventory (`RL8000_WinTagInventory`) | global `tagReportSet`, counters, the application's buffer | collect reports, then connect, read, disconnect each tag | records are tags of this inventory with their own data; no tag is accessed for another |
| serial port (`SerialPort.cpp`, `serialPortCtrl.cpp`) | a descriptor; totals inside a call | open, close, purge, write, read | every byte once, in order; true lengths; calls return |
| ini files (`IniFile.cpp`, `OIniFile.cpp`) | a text file, a record lock while it is open | get values, sections and section names; set and remove keys; remove and replace sections | a table edited by one call after the other; no edit lost or changing more than it says; readers see the file |
| data codes (`DataCode.cpp`) | none | recognise the coding of a text | partly: as the ini files use it |
| demonstration program (`main.cpp`), ORFID device library, platform headers, build files | - | - | not modelled, section 8 |

Interactions: the library is used by one program thread. Two things run beside
it: the timer thread, which shares the counter and the `runTimer` flag without
a lock, and the outside world: reader nodes that answer late or not at all,
tags that come and go, a line that cuts an answer into arbitrary reads, loses
bytes or is hung up. `tag_report_handler` is a callback that the report parser
calls for each report; it writes a global array that the inventory loop reads
later by another counter. Ini files are shared between processes, which
exclude each other, as far as they do, by `fcntl` record locks. The library
itself opens two of them: `SetComm.ini` (`SerialPort.cpp:13-26`) and
`RfAddr.ini` (`RL8000_Comm.cpp:1961-1976`).

Hard behaviours, each listed at its line in `PROJECT.json` under `hazards`:
wrap-around copies and the "full looks empty" rule of the ring; answers cut
between any two bytes with false start bytes before them; block numbers after
a lost answer; an answer that outlives its call; kill against the start of the
timer thread; overflow of the tick counter; declared lengths that are computed
apart from the bytes; report fields left over from the report before; two
counters for one array; errors (-1) added to byte totals; an `errno` left over
from an earlier call; a file that is truncated before it is written; readers
without a lock; a last line without newline; byte order marks.

## 2. Modules

| module | models | main definitions |
|---|---|---|
| `ByteQueue` | abstract: a bounded FIFO queue with a peek | `Enqueue Dequeue Peek Discard` |
| `CirBuf` | the ring | `cirbuf_push cirbuf_pop cirbuf_flush`, two-piece copies in `Filled` and `BytesFrom` |
| `CirCursor` | the ring and its cursor | `cirbuf_cursor_move_first/_next/_read_data`, `cirbuf_pop_to_cursor` |
| `FrameRx` | one exchange on the ring | `Read ParseIncomeData Timeout INIT_SEND` |
| `T1Link` | a handle against nodes and a lossy line | `StartCall Transmit WriteFails Timeout SBlock_Resync IBlock_Transceive`, peers and line external |
| `TransTimer` | timer thread and its user | `Begin Test Tick` of the thread; open, start, expire, kill, join |
| `Ebv` | the length coding | `EBV_Set EBV_Get` |
| `TagAccess` | 34 commands of the library | one operator per command giving its request; `Call Reply NoAnswer` |
| `TagInventory` | the inventory, each exchange one action | `Start Inventory GetTagBuffer TagConnect ReadTag ExchangeFails`, tags external |
| `InventoryLink` | the inventory on the block link, each call in its blocks | `Call Returns AfterResync AfterInventory AfterConnect AfterRead AfterDisconnect` |
| `SerialPort` | the port by system call | `OpenCom`, `Written NotWritten WriteError`, `Drain Drained Ready TimedOut Read ReadEnd ReadError` |
| `IniStore` | abstract: a table that calls edit one after the other | `Begin Commit CommitLoose Spoil Die Leave` |
| `IniText` | a file as lines: searching and editing | `SetValue RemoveKey RemoveSection DeleteSection ReplaceSection`, `Joined`, `Prefix` |
| `IniFile` | several processes on one file, by system call | `_nLockFile ReadLocked Truncate WriteData`, `ReadSize ReadText`, `Close Dies` |
| `CircularBufProofs FrameRxProofs InventoryLinkProofs TransTimerProofs TagAccessProofs TagInventoryProofs SerialPortProofs IniFileProofs` | theorems | section 6 |
| `MC...` | instances for TLC | section 4 |

`CirBuf` is extended by `CirCursor` and by `FrameRx`, `Ebv` by `TagAccess`,
`IniText` by `IniFile`, `T1Link` by `InventoryLink`. Three detailed
specifications are shown to implement abstract ones:

- the ring `ByteQueue`, by `Queue == INSTANCE ByteQueue WITH queue <- Contents`
  (`ImplementsQueue`);
- the inventory on the link `TagInventory`, by `TI == INSTANCE TagInventory WITH
  ...` (`ImplementsInventory`): the blocks of a call and whatever happens to
  them are stuttering, and where the call returns is the step of `TagInventory`,
  its success or its failure;
- the ini file `IniStore`, by `Store == INSTANCE IniStore WITH ...`
  (`ImplementsStore`): the table is what the last finished write left, a call
  takes effect at its `write`, and an abstract status is read off the process's
  place in the call.

`T1Link` uses the result of `FrameRx` (what an exchange takes is a frame that
was received in it) as its atomic step.

Correspondence with the code is name by name; `PROJECT.json` maps every
definition to its lines. What is abstracted:

- **Data.** Bytes of the ring are two values in the queue run and `0..7` in the
  frame runs; the frame checksum is a small function that depends on every byte
  and its position, as a CRC does. In `T1Link` blocks are records with the
  fields the code tests. In `TagInventory` a uid is the tag that bears it. An
  ini file is a sequence of lines (section, item, other) that know whether they
  end in a newline; names are names up to case; a value is a model value,
  `Damaged` when it is cut or has foreign text in it.
- **Handlers are whole.** `cirbuf_push` moves and copies in one action;
  `ParseIncomeData` scans, copies to `rcvBuf` and moves `readPos` in one action.
  `ReadTag` includes the reset, read, disconnect, copy, counting and the loop's
  test. Only the calls that really interleave with the outside are cut into
  steps: a port call at each system call, an exchange at each block, a file
  operation at each system call.
- **Mutant forms.** A few definitions have a second form next to them, named
  for what it gets wrong and used by no action (for example `NRAlwaysToggled`);
  they are what the properties are tested against.

## 3. Properties

Each is stated in a comment above its definition.

- Ring: `ImplementsQueue` (refinement), `ReadAheadIsPop` (what the cursor reads
  is what pop returns, which relates two code paths that each handle the wrap),
  `CursorInData`, `MoveExact` (a move succeeds exactly when its target is data).
- Receiver: `FrameNotMissed`, `OnlyReceivedFrames`, both against a reference
  definition (`WellFormed`) over the bytes the device sent.
- Link: `InSync`, `OneSyncLostInARow`, `OkMeansExecuted`, `OnlyFreshAnswers`,
  `TagIsConnected`. The first four say what a lost block may and may not cost;
  the last that an idle handle which names a tag names the one its node is
  connected to. It leaves out every handle on which a call failed or was made
  while a block had outlived its call: after a disconnect whose answer was lost
  the handle does name a tag that the node has dropped.
- Timer: `FreeOnTime`, `EveryWaitCanEnd`, `KillReturnsOnceRunning`.
- Commands: `DeclaredLengthTrue`, `FrameLengthTrue`, `OkAnswer` (success only
  for an answer to this access whose status is not 0, which is what the code
  takes for a success; section 7 has the comment that says the reverse),
  `BufferRespected`.
- Inventory: `RecordsWereReported`, `UserDataOfTag`, `ReportsStored` (for
  inventories whose reports all say their protocol; what happens without it is
  a finding of section 7), `LengthCounts` (which lets the last record go past the
  size passed, as the code does; that main's buffer is too small for it is a
  finding as well), `InventoryReturns`.
- Inventory on the link: `AccessHitsTag` (no tag is accessed in the place of
  another, although all get the same handle) and `ImplementsInventory`.
- Port: `ReadInOrder` (what reads handed over, what the current one has and what
  the driver holds are bytes that arrived, each once and in order, and a `read()`
  that fails costs one byte at most), `FullReportSendsAll` (the length given back
  is the one asked for exactly when the driver took every byte of the data: the
  test of `CommTransceive` tells a whole request from a part, although a failing
  `write()` makes bytes go out twice), `CallsReturn`.
- Ini files: `NoUpdateLost` (a process that read the file rewrites that file,
  and writes into the file it emptied itself), `ImplementsStore`, `ReadsFile` (a
  reader, which has no lock, gets the file's value, or none or one cut short
  while the file is rewritten, never one of another key).

One type invariant per component completes them.

## 4. Runs and bounds

| run | module / cfg | bounds | why they are enough |
|---|---|---|---|
| `ring` | `MCCirCursor` | 4 slots, 2 byte values, pushes of up to 3 bytes, moves by 0..3 | every pair of positions occurs, all wraps of all three positions, the full ring of 3 bytes |
| `frame_rx` | `MCFrameRx` | ring of 8 bytes, shortest frame 3, reads of up to 3 bytes, two exchanges on noisy streams | frames with and without data behind noise, a false start byte and a half frame; the second exchange starts on the first one's bytes |
| `frame_max` | `MCFrameRx` / `MCFrameMax` | one clean frame as long as the ring | violation, section 7 |
| `link` | `MCT1Link` | two symmetric nodes, one tag, three calls | a call, a late answer of it and a third call; both nodes; a lost answer followed by two calls |
| `timer` | `MCTransTimer` | counter -6..5, timeout 3 rounds | the counter wraps, during a wait and between waits |
| `timer_kill` | `MCTransTimer` / `MCTimerKill` | as `timer` | violation, section 7 |
| `tag_access` | `MCTagAccess` | eleven block counts between 0 and 246, buffers of 2 and 40 bytes, answers of 0 to 130 data bytes | every command, with every optional part; lengths on both sides of one EBV group and up to the largest request `sndBuf` holds; answers empty, short, exact, longer than the buffer, of another code, with the statuses 0, 1 and 255 |
| `inventory` | `MCTagInventory` | four tags (one of another protocol), set of 2, buffers of 2, 3 and 4 with records of 4, two reports without their protocol | more reports than the set holds, reports over several answers, buffer too small, buffer full with tags left, every tag leaving at every point |
| `inventory_link` | `MCInventoryLink` | one node, two symmetric tags with the same handle, 9 calls, at most 2 answers on their way, 3 calls that fail | a whole inventory of one tag and a second inventory that meets its overdue answers; both tags read in one inventory; a failed disconnect followed by a connect |
| `serial` | `MCSerialPort` | read buffer 3, writes of 1 and 3 bytes, 3 tries, 4 bytes and 2 failing reads per flush, 2 descriptors | more bytes than the buffer, a full buffer in either loop, an error with and without bytes read before it, twice in a row, a write in pieces with errors between them, the last try |
| `serial_close` | `MCSerialPort` / `MCSerialClose` | as `serial` | violation, section 7 |
| `ini` | `MCIniFile` | two symmetric processes, 3 writes, 1 fault, two sections and two keys, five first texts | two writers and a reader at every pair of steps; a write that follows a damaged one; empty file, last line without newline, comments at both ends, empty section, section twice; the other codings through the empty file, whose coding is uninitialised |

Bounds in guards are named constants: `MaxCalls`, `MaxErrors`, `MaxExchanges`,
`MaxBytes`, `MaxReadErrors`, `MaxFds`, `MaxBare`, `MaxWrites`, `MaxFaults`,
`MaxInt` (the width of the counter: it wraps, as the code's does). `TagInventory` runs with scaled constants that keep the code's proportions: `RecSize` for `sizeof(struct
tagreport)`, `MinBuf` for 1024, `MaxUids` for 100; the assumption in the module
is that the application's buffer is smaller than the set, as main.cpp's is.
`TagAccess` keeps the code's real lengths.

`MaxBack = 2` of `inventory_link` is an assumption about the environment rather
than a bound: at most one overdue answer reaches the host beside the answer
that is waited for. `SBlock_Resync` (`RL8000_Comm.cpp:512-545`) accepts the answer to
an older resynchronisation, since nothing in it says which one it answers. With
three answers under way a stale answer to the resync, then a stale inventory
and a stale connect answer are all accepted, and TLC finds an access to the
wrong tag. Block numbers of one bit cannot exclude that.

`CHECK_DEADLOCK FALSE` stands where the bounded model stops by itself: `FrameRx`
after `MaxExchanges`, `T1Link` and `InventoryLink` after `MaxCalls`, `SerialPort`
once the line is hung up and `MaxFds` reached. `IniFile` is checked for
deadlock: its processes never wait on each other for ever.

The largest run is `link` with 3.6 million distinct states; `inventory_link` has
2.0 million and, with `ini`, takes longest.

## 5. Fairness

- `TimerFairSpec`: weak fairness of the timer thread (the system schedules it;
  it blocks on nothing but `usleep`) and of the return of `pthread_join` once
  the thread has ended. The program is not fair: it need not open, wait or kill.
- `SerialSpec`: weak fairness of the steps inside a call. Each is a system call
  on a non-blocking descriptor, or a `select` with a time limit. The device is
  not fair; `CallsReturn` has to hold under one that sends for ever.
- `TagInventory!Spec`: weak fairness of the exchanges, each of which returns
  because its wait is timed: that is `EveryWaitCanEnd` of `TransTimer`. It is
  stated in two conjuncts: of the failure of the first exchange, which is
  possible in any state with `phase = "opened"` and which, like its success,
  leaves that phase, so that being fair to it is being fair to the exchange;
  and of the exchanges after it. Assumed of the reader: it has finitely many
  reports and each of its answers transfers one. The code has no bound of its
  own on that loop.
- `T1Link`, `FrameRx`, `InventoryLink` and `IniFile` state safety only. (A
  process that holds an ini file's lock may stop for ever; the system frees the
  lock of one that dies, `Dies`.)

## 6. What is proved

All proofs hold for every value of the constants under the modules' named
assumptions, and are checked by TLAPS without any unproved step. Each module
states the theorems of one component; what an invariant speaks of is checked by
TLC on the component's run before it is proved.

- **`CircularBufProofs`** (from `SizeAssumption`): `RingTypeCorrect`, and
  `RingImplementsQueue`: `RingSpec => ImplementsQueue` for every size. The
  argument: the positions stay in the buffer (`RingTypeOK` is inductive); an
  index lemma shows that walking `n` steps from `readPos` and wrapping once
  names the same slot as the two-piece copy; so a push appends to `Contents`,
  a pop takes its head, and a flush empties it. Of the cursor (also from
  `OffsetsAssumption`): `CursorStaysInData`, `MovesAreExact` and `ReadsAhead`,
  which state `CursorInData`, `MoveExact` and `ReadAheadIsPop`. The invariant
  adds the type of the ring and of the cursor; the key lemma, `CursorPlace`, is
  that a placed cursor is `Index` slots round from `readPos` and has the rest of
  the data before it.
- **`FrameRxProofs`** (from `FrameAssumption`): `RxTyped` (`RxTypeOK`),
  `HandsOnReceived` (`OnlyReceivedFrames`) and `NotMissed` (`FrameNotMissed`),
  for every ring, shortest frame, stream and way to cut it. `RxInv` says where
  the exchange stands in its stream: the ring holds the bytes behind some place
  `d` up to the last one read (`Holding`), no frame begins up to `d`
  (`NoFrameBefore`), and while more is waited for, no frame is complete
  (`NoneWaits`). The scan of `ParseIncomeData` is related to the stream through
  `FrameAt`: the first complete frame in the ring is the first of the stream,
  and what is dropped cannot become the start of one. All of it is under
  `~overrun`; what a push that fills the ring does is finding 1.
- **`TagAccessProofs`** (from `AccessAssumption`): `EbvRoundTrip`: for every
  value of up to three groups (below 2^21) and whatever follows it in the
  buffer, `EBV_Get` returns the value `EBV_Set` wrote and the length it wrote.
  From it, for every count of bytes, blocks and pages, every buffer of the
  caller and every answer: `AccessTyped` (`AccessTypeOK`), `DeclaredLengths`
  (`DeclaredLengthTrue`), `FrameLengths` (`FrameLengthTrue`), `OkAnswers`
  (`OkAnswer`, for any set of statuses) and `BuffersRespected`
  (`BufferRespected`). The invariant says
  that the bytes of a call out are the frame of that call's message (`CallOut`)
  and that a call declares the parameters it has (`RequestOK`), which is shown
  once for every one of the 34 commands.
- **`TagInventoryProofs`** (from `InventoryAssumption` and `NobodyAssumption`):
  `LengthIsTrue` (`LengthCounts`) and `UserDataIsTrue` (`UserDataOfTag`), for
  any tags and reports; `InventoryTyped` (`InvTypeOK`), `RecordsAreReported`
  (`RecordsWereReported`) and `ReportsAreStored` (`ReportsStored`). `LengthInv`
  adds that the loop goes on only while the records so far fit; `UserInv` that
  the tag connected is the one at `i`; `RecordInv` that the set is what the
  handler keeps of all reports of this inventory (`SetOK`), and that the records
  written are those of the set up to `i` (`WrittenSoFar`). What the parser makes
  of a sequence of reports is by induction over them: `Parsed` is a recursive
  function, `ParsedOne` takes one report, and the first report at which the
  claim fails, by the well-foundedness of `<` on the numbers, cannot exist.
- **`InventoryLinkProofs`** (from `LinkAssumption`, and
  `InventoryLinkAssumption` for the inventory). Of the link: `LinkTypeCorrect`,
  `NumbersAgree` (`InSync`), `OkIsTrue` (`OkMeansExecuted`), `SyncLostHeals`
  (`OneSyncLostInARow`), `AnswersAreFresh` (`OnlyFreshAnswers`) and `TagIsTrue`
  (`TagIsConnected`). None of them is inductive: they speak of the moment after
  a call, while the facts they need are about blocks under way. The invariant
  `LinkInv` adds two parts: `OneBlock`, that as long as nothing outlived its
  call at most one block is under way (as request, in `back` or in `inbox`),
  that it belongs to the waiting call, and that an I-block's number is the one
  its node has just left; and `OwedInStep`, that after a SYNCLOST the numbers
  agree again, so that the next answer is in step. `LinkInvariant` proves it
  inductive with one step per action. `TagInv` adds which tag the answer under
  way speaks of. Looking for it showed that without the condition on calls made
  beside an outlived block `TagIsConnected` fails, with more calls than a run
  reaches.

  Of the inventory on the link: `InventoryUsesLink` (`Spec => LinkSpec`: each of
  its steps is one of the link, so that all of the above holds in it),
  `InventoryLinkTyped` (`InvLinkTypeOK`) and `RightTagAccessed`
  (`AccessHitsTag`), for any number of nodes, tags, calls and failures. Here
  nothing may be assumed about late blocks. `line` is the sequence of the
  answers that have arrived or are under way; every step either drops some of
  them and keeps the others' order (`Thinned`) or puts one at the end (`Added`).
  So `LinkedInv` can say that each answer belongs to one call, whose command it
  carries, that older calls' answers come first and that the request is younger
  than all of them (`LineOK`, `RequestOK`). `RightTagAccessed` then takes
  `MaxBack <= 2` and counts: when a resync is sent at most two answers are on
  the line; each call that succeeds takes one off its front; so an answer to a
  connect is at most the second when the resync returns, the first when the
  inventory is answered (`ConnectsAhead`), and the inventory's own answer, which
  is not one to a connect, is taken before it. Hence a connect is answered for
  itself (`ConnectIsOwn`), nothing older or younger is under way when it
  returns, and every access meets the tag it is meant for (`RequestLate`). With
  `MaxBack = 3` the theorem is false (section 4).

  From the same counting follows the refinement, `InventoryImplements` (`Spec =>
  ImplementsInventory`). Every step of line, nodes, resync, reset and read is a
  stutter of `TagInventory` (`Unseen`); the others are its `Start`, `Inventory`,
  `Connect` and `ReadAndStore`, taken when the call returns. Two of them need
  more than `LinkedInv`. That the set taken from an inventory's answer is what
  `TagInventory` makes of the same reports is an induction over them
  (`AllParsed`). That the record written is the connected tag's is `SessionInv`:
  a connect that succeeds leaves the line empty (`ConnectReceived`), so from
  then on every answer under way tells of that tag (`OfTag`), and a read is told
  its data or none (`OwnReads`). `ConstantsFit` shows that the constants the
  mapping hands over are such as `TagInventory` assumes.
- **`TransTimerProofs`** (from `TimerAssumption`): `TimerTypeCorrect`, and
  `TimerIsOnTime` (`FreeOnTime`): the counter is `rounds` past the start time
  while it has not wrapped, for every width of the counter and every timeout.
- **`SerialPortProofs`** (from `SerialAssumption`): `SerialTypeCorrect`,
  `BytesInOrder` (`ReadInOrder`) and `WritesReportTrue` (`FullReportSendsAll`),
  for every buffer size, number of tries and amount of data, however often
  `read()` and `write()` fail. `SerTypeInv` adds the sizes inside a call.
  `ReadInv` says that the driver's queue holds the last bytes that arrived
  (`Queued`), that what was handed over and read before it rises and stays below
  them (`Rising`), and that it is short of them by at most `readErrors`; an error
  takes the last byte of the total and ends the loop, so that nothing is stored
  over it in this call. `WriteInv`: while a write goes on, every byte up to the
  total has been taken at least once, and the last byte of the data not yet.
- **`IniFileProofs`** (from `IniFileAssumption`, which says what calls there
  are): for any number of processes, any calls and any text. `NoUpdateIsLost`
  (`NoUpdateLost`): the invariant adds that a process behind the lock holds it
  (`HoldsLock`); the proof never expands what an edit does. `IniTyped`
  (`IniTypeOK`): every edit of a text gives a text, also where lines run
  together (`FoldIs`, an induction over the lines) or a write is cut short
  (`PrefixType`); the invariant adds that who has the file open to write is in
  a call that edits it (`RightCall`). `ReadsAreTrue` (`ReadsFile`): the
  invariant adds that a reader's file has the length `fstat` told it as long as
  nobody rewrites it (`SizeIsCurrent`); so it reads the whole text
  (`WholePrefix`), and otherwise a beginning of one (`PrefixBegins`), in which a
  key has its value, none, or the one that is cut (`ValueOfBeginning`).

Only model-checked: the refinement `ImplementsStore`, which says what every
edit makes of a whole text. Out of the prover's reach: the liveness properties
(fairness and ENABLED), and theorems that take an operator as a parameter, such
as the library's induction principles; where an induction over data was needed
(the receiver's scan, the report parser) it is done with a set and its least
element. The modules with theorems reach no RECURSIVE operator.

## 7. Disagreements with the code's own words

Shown by a run:

1. `frame_max`: `rl8000_comm.h:11` allows frames of 256 bytes; such an answer
   fills the 256-byte ring to `writePos = readPos`, which counts as empty, and
   the call times out.
2. `timer_kill`: killing the timer before its thread ran leaves the thread
   running and `pthread_join` waiting for ever.
3. `serial_close`: a leftover `errno` of 2, which the missing `SetComm.ini`
   sets, opens the port twice; closing leaves the first descriptor open
   (`main.cpp:311` closes the port; the menu that names the entry "close the
   serial port", `main.cpp:164`, is compiled out).

Met while modelling, and part of the models, without a run of their own:

4. The declaration of an access's status says "0 is ok, not 0 is fail"
   (`RL8000_Comm.cpp:105`). The code, with a comment of its own (1000-1004),
   takes 0 for a failure and every other value for a success. The models and
   `OkAnswer` follow the code; which comment the reader keeps to, nothing in the
   repository says.
5. The result of `write()` is called the length really written
   (`serialPortCtrl.cpp:179`), and the total of it is what `WriteData` gives
   back. An error's -1 is added too (line 187) and the next try begins one byte
   early: the length asked for is reported for more bytes than that, one of them
   twice or from in front of the data. `FullReportSendsAll` is what remains true
   of it.
6. `main.cpp:273-274` passes a buffer of 1024 bytes, the least the inventory
   accepts. Its loop compares after the copy (`RL8000_Comm.cpp:2079-2081`): with
   four tags the fourth record of 274 bytes ends 72 bytes behind the buffer.
   `LengthCounts` allows it.
7. The `rid` of an answer is documented as the node's address
   (`RL8000_Comm.cpp:32`) and never compared; a late answer of one node passes
   for another's.
8. A report without the optional air protocol (`main.cpp:45`) takes over the
   value of the report before, or of uninitialised memory, and its tag may not
   be stored (`RL8000_Comm.cpp:1925`).
9. `IniFile.h:150` promises false for a write that failed;
   `WritePrivateProfileString` reports true, with the old content gone
   (`IniFile.cpp:1413`).
10. `OAutoFileOperate` is said to lock the file; a reader's lock fails, because
    the file is open for reading only, and is not looked at (`IniFile.cpp:265`).
11. Removing a section (key NULL, `IniFile.h:146`) removes as well the header of
    an empty section behind it, when that is the last line (`IniFile.cpp:1242`).

What the checks of the ini files showed besides, and `IniStore` therefore
allows: in a file whose last line has no newline, as in the two the repository
ships, the next item or section is glued to that line, a later call makes the
key a second time, and removing it brings out the second (`CommitLoose`); a file
with a UTF-8 mark grows by a scrap line with every write, and 16-bit text is
unreadable after one (`Coded`). Of such files, and of a call that the system
failed, `IniStore` promises little: `CommitLoose` and `Spoil` say which
parts of the table a call may change, not how. What `ImplementsStore` says in
full is said of clean files.

## 8. Not modelled, and why

- **`main.cpp`**: what is compiled of it (lines 257-313) is one straight line:
  open timer and port, five by ten inventories, kill the timer, close the port;
  its menu (160-255) stands in `#if 0`. Its calls, their order and its buffers
  are where the inputs and assumptions of the other modules come from.
- **`DataCode.cpp`**: only `ParseDataCode` is used, by the ini files, and is
  modelled as the coding a file is read and written with; its byte-class tables
  and the conversions that nothing calls are not.
- **`ORFIDDevDLL.cpp`**: every function of it is commented out.
- **Headers and makefiles**: no behaviour.
- Unused or compiled-out functions: `cirbuf_peek`, `cirbuf_push_byte`,
  `EBV_GetSize`, `WinTranscTimer_Stop`, `ReadData`, `WriteDataEx`, and the
  stubs that return -1.
- Memory (handles that error paths leak), termios settings and printing.
- Preconditions: a request fits the 256-byte `sndBuf` (`FitsSndBuf`). No
  function checks it; longer block data is undefined behaviour. One program
  thread uses the library: handles, timer statics and `tagReportSet` have no
  lock, and the port's mutex covers neither open nor close. The port is open
  when it is read or written: `main.cpp` returns when the open failed. (A read
  of a closed one would report the 32 bytes asked for, `SerialPort.cpp:108`.)
- A read that fails with nothing read reports -1, which the caller takes as
  65535 bytes and pushes into a ring of 256: outside what `cirbuf_push` may be
  called with, and undefined behaviour. In `SerialPort` any `read()` of the
  second loop may fail so, on a line that goes on as well as on one that is hung
  up; what follows from it is not modelled.
- `select()` that fails, and its effect on the descriptor set.
- Reports without tag, uid length or uid, which `main.cpp:46-48` calls
  necessary: the code has branches for them (`RL8000_Comm.cpp:768-778`,
  `878-888`), which keep the value of the report before, as for the protocol.
- A successful tag read reports 32 bytes of user data however many blocks its
  answer held; the contents of blocks are not modelled.
- `RL8000_WinTimerOpen` may fail; the program ignores the result and then waits
  without a clock. `EveryWaitCanEnd` does not cover it because `StartWait` needs
  a timer that was opened.
- Ini files: an `fcntl` or `ftruncate` of a writer that fails (the code looks at
  neither result: without the lock it would go on beside another writer, without
  the truncation the end of a longer old text would stay); number formats and
  the checksum of structures (values are model values); the NULs that converted 16-bit text leaves behind its last line;
  threads of one process, which a record lock does not keep apart.

## 9. Plan

Done, in this order: the ring and its queue; the frame receiver; the block link
with its proofs; the timer; the commands; the inventory; the serial port; the
ini files with their abstract table; the inventory on the link; proofs of the
cursor, the serial port, the inventory's lengths and user data, the connected
tag and the file lock; proofs of the commands, the frame receiver, the
inventory's records and reports, and of the inventory's accesses on the link;
a proof that the inventory on the link implements `TagInventory`; proofs of the
texts and the readers of the ini files.

What could follow:

1. A proof of the refinement `ImplementsStore`, which needs what each edit of
   `IniText` makes of the table in a text, and what running lines together may
   do to it.
2. Composition of port and receiver: reads of the port pushed into the ring in
   one model, without reads that report -1 bytes.
