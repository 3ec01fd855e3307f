# modeminfo-uv in TLA+

The program serves information about a cellular modem over HTTP: an event loop
(libuv) takes requests, worker threads turn them into AT commands on a serial
line, one reader thread turns the modem's lines into responses.  This directory
holds a formal model of it, the TLC runs that check the model and the theorems
proved about it.

## 1. Inventory

| component | state | operations | hard parts | what makes it correct |
|---|---|---|---|---|
| AT channel, `atc/atchannel.c` | pending response, its type and prefix, the descriptor, a mutex and a condition variable | `at_send_command*`, `processLine`, `readerLoop`, `at_close`, `clearPendingCommand` | workers overlap; a timed wait in four slices; late, missing and unsolicited lines; the line dies | a response has one owner; an answer goes to the call that asked; calls return |
| line reader, `readline` | a buffer, a cursor, NULs as ends | `readline`, `findNextEOL` | arbitrary cuts by `read()`, a full buffer, the prompt | the lines returned are the lines sent |
| startup, `main.c`, `prco_request_init`, `at_handshake` | port file, `cmf`, attempts | listen, write the port file, open, handshake, drain, init | slow modems, retries, signals at any time, a missing device | which modems pass; nothing left on the line; no stale port file; no call through an empty `cmf` |
| HTTP server, `http_server.c` | a parser and a collected request per connection, works in the pool | libuv and parser callbacks | TCP cuts, clients that leave, pipelining, few workers | whole bodies, one answer to its own client, no handle closed twice |
| device operations, `atc/cellMgtFrame.c` | none of its own but `p_response`; the modem's radio, format and settings | one function per request | several commands that belong together, run by several workers; commands that fail in the middle | radio on again, reports that are true, responses freed once |
| tokenizer, `atc/at_tok.c` | a static line buffer, strtok's place | `at_tok_scanf`, `at_tok_by_index_scanf` | empty and quoted fields, missing values | each conversion gets its field |
| request dispatch, `request_proc.c` | `cmf`, `url_prefix` of each request, and behind its back strtok's place and `at_tok_scanf`'s line | `proc_get_request`, `proc_post_request`, the pack functions | hidden state shared by the workers, a name that is never assigned, a document given up twice, an answer that is missing | the handler that the path names, texts and bands that are the request's own, an end for every request |
| serial settings (`uart_open`), logging, APN data and scripts | - | - | - | not modelled: system calls, output, data |

How they interact: `HttpServer` queues a work, a worker runs `Dispatch`, which
calls one operation of `DeviceOps`; an operation is a sequence of calls of
`ATService`, which `ATChannel` implements; `ATChannel`'s reader thread gets its
lines from `LineReader`; what the operation makes of a line is `AtTok`'s, and of
reports and bands `Reports`'s.  `Startup` runs before all of them.  The workers
share the channel, the modem, `at_tok_scanf`'s static line, strtok's place and
the event loop.

The hazards, each with its line and the properties that would catch it going
wrong, are listed in `PROJECT.json`.

## 2. Modules

### ATChannel (core)

`cm_command_mutex` is held except inside `pthread_cond_timedwait`, so what runs
between two waits is one action.  A caller is `idle`, at `lock` (about to take
the mutex), `waiting`, `expired` (a slice ran out, the mutex not yet taken back)
or `woken`.

| code | actions |
|---|---|
| `at_send_command_full_nolock` up to the wait | `SendPending` (refused), `SendFails` (`writeline`), `SendOk` |
| `pthread_cond_timeout_np`, four timed waits | `SliceExpires`, `NextSlice`, `Timeout`, `SpuriousWake` |
| the `while` after the wait and the way out | `ResumeCrash` (through NULL), `ResumeWait`, `ResumeTake` |
| the wrappers' checks, `reverseIntermediates` | `Result` |
| `readerLoop`, `processLine` | `ReadLine`, `ReadSms` |
| end of file, `at_close`, `onReaderClosed` | `ReadEof`, `CloseSignals`, `ReaderExits` |
| the modem (external) | `ModemInfo`, `ModemFinal`, `ModemIgnores`, `ModemUnsolicited`, `HangUp` |

A line is its head (all the code looks at) and a ghost tag saying which command
the modem was answering; `emitted` records what the modem said.  Neither is read
by an action of the code.

### ATService and ATRefinement

`ATService` is what the channel promises its callers, without the reader thread,
the condition variable, the slices or the lines: a call asks, is sent (with a
number larger than those of all commands still owed lines), refused or fails,
and then takes the answer, expires or crashes; the modem gives a line, a final
line, or no more of them.  `upset` says whether a call was refused or gave up.
`ATRefinement` maps `ATChannel` to it: a response to its number, its state and
the commands its lines come from, the line on the way and the modem's queue to
the numbers `owed`.  `ImplementsService` is the abstract specification as a
property of the detailed one.

### LineReader

Byte by byte, with the two bytes after the buffer.  An ordinary byte is its own
position in the input, so that lines show where they come from.

### HttpServer

The URL, the headers' names and their values are texts of one or two pieces, and
TCP may cut a text within it or at its end; the rest that the next callback then
gets is empty if only what ends the text was left.  `on_read` runs the parser
over any number of pieces, and each callback of the parser is an action: `OnUrl`,
`OnHeaderField`, `OnHeaderValue`, `OnBody`, `OnMessageComplete`, and `ParseError`
where the parser gives up.  `reading` is the connection whose bytes the loop is
at; it does nothing else until they end, while the worker threads may.

The callbacks compare as many characters as they are given (`strncasecmp` with
the piece's own length, `http_server.c:56` and `63`), so every beginning of
`Content-Type` or of `application/json` passes for the whole, the empty one too
(`IsPrefix`).  The instance has what this matters for: an empty type (`brief`), a
type that ends with a piece JSON's begins with (`plain`), a POST with no type
(`bare`), and the header Content-Length, which begins like Content-Type.  What
an uncut connection can rely on is `JudgedByType`; `cut` is a history variable
that says on which connections a header was cut, for with cuts neither half of
that property is true.  `Accept`, `OnEof` and
`AfterWork` are the loop's other callbacks, `StartWork` and `FinishWork` the
thread pool; `UvClose` of a connection that is closing aborts the program.

### Startup

`main()` as phases; time in ticks, with two slices' boundaries that answers may
or may not meet.  `HANDSHAKE_RETRY_COUNT` is the code's 4.  An attempt either writes
its command and waits, or fails at once because the line is dead
(`atchannel.c:1086-1092`): `uart_open` makes writes blocking, so a write has no
other reason to fail.  On a dying line all attempts may fail without any time
passing, unless the reader thread ends the program first (`LineDies`).

### DeviceOps

Workers run the operations of `cellMgtFrame.c` over `ATService`: each step of a
call is a step of the service (`Svc!Send`, `Svc!Take`, ...) together with what
it means to the worker, and each answer one together with what the modem does,
which carries out what it was sent in order, or answers ERROR and does nothing.
So a refusal, a late answer that goes to the next call, an answer without its
line, a final line nobody asked for and a dead line do here what they do in the
channel.  All operations are there: those that ask one question, or another one
if it fails, as a table (`Questions`, `Ask*`), and `SysInfo*`, `GetLockBand*`,
`SetSlot*`, `SearchPref*`, `Lock*`, `NetISP*`, `Connect*`, one action per call.
`resp` is `p_response`: NULL, a response, or one that has been freed
(`at_response_free` leaves the pointer as it is, `safe_at_response_free` does
not); `hist.leakers` are the operations that lost one.

### Reports

Pure definitions: which fields `defaultRequestGetDeviceNetSignal` reads from a
report on the serving cell, which of them `pack_signal_json` shows and which
have a level; the text of bands that `parse_bands_json` strings together in
`MAX_STRING_LENGTH` characters (`Strncat`), and what a lock makes of it.

### Dispatch

`proc_get_request` and `proc_post_request` in several workers.  A step is one
call of strtok, one use of the static line, or what lies between two of those.
strtok's place is `saved`: whose buffer it is in and what is left of it; a
thread that is in a loop of calls goes on wherever another one left the place,
and in a buffer that is gone it may find anything (at most one token: a bound).
Handlers are told apart by what they do with the static line: it copies
a field out of it, hands a pointer into it on, takes a number from it (`ethernet`),
or uses it only for an answer that begins with a prefix (`gmi`, `gmm`, `gmr`,
`gsn`); `networkconnect` scans too, to ask for the network.  The text of bands is
passed to strtok even when it is empty, which moves its place.  That a line of
bands is cut to its buffers (`request_proc.c:146-148`, `160-161`) is left out: a
text from the modem's lines is never long enough for it.
A thread whose loop or line another one broke into has a `Spoilt` answer: the
code gives it somebody else's text, and no property looks at it, except that
requests end and why the program comes down.  `url_prefix` that was not assigned
is NULL, the name of the thread's request before, or wild.

### AtTok

`at_tok_scanf` with one conversion per step, beside a definition of a line's
fields by the places of its separators: a comma separates if the quotes before
it are even in number, a field begins behind a separator that no other follows,
and its number is the number of fields that begin no later.  The reference reads
the line as it came; `removeConsecutiveCommas` is the code's alone.  Lines are
shorter than the 256 characters of its buffer (`ScanAssumption`); a longer one
would be written past the buffer's end (`at_tok.c:214-224`), which is not followed.

## 3. Runs

| run | instance | shows |
|---|---|---|
| `at_single` | one caller, two calls of four kinds, two slices, 2 information lines, 1 unsolicited, 1 spurious wake-up | types, a sole caller is served, answers are complete and in order |
| `at_two` | two callers, three calls that any line answers, two slices, hang-up, `+CMTI:` and `RING` unasked | ownership and order with refusals and crashes; the channel implements `ATService`; every call returns; a dead line ends the process |
| `at_out_of_sync` (violation) | two calls, one slice | after a timeout answers go to the wrong call; the header asks for a reset that nobody does |
| `lines` | all inputs of up to 8 bytes, a buffer of 5 | lines come out whole, whatever the cuts; over-long ones lose their head only; all is delivered |
| `http` | two clients, one worker; a GET, a POST of JSON, of another type, of an empty one and without one, or nonsense against a GET, POST or nonsense, and two requests in a row from one of them | only a client that leaves or sends more aborts the server, bodies are whole and kept apart, the type decides where no header is cut, one answer each and everybody gets it |
| `startup` | 16 latencies from 0 to 99 ticks (a timeout is 8), signals, a missing device | see below |
| `ops_single` | one worker, one request for any operation, one timeout, one lost or unasked answer, hang-up, three networks | true reports, freed once, careful operations free all, names in their formats, statuses and bands from their own answers |
| `ops_two` | two workers (symmetric), two of the operations that switch the radio off, one timeout | the radio on again and true reports with overlapping operations |
| `ops_leak` (violation) | one operation | responses that are never freed, which a comment asks for |
| `dispatch` | two workers, two of nine requests (GMI stands for all that use the line for a prefix only or copy from it, `ethernet`, `LOCKBAND`, `signal`, `atraw`, a path of no parts, a lock and `networkconnect`), four reports, `MaxBands` 2 (32 in the code) | the right handler, texts and bands of its own, every request ends, and for which causes the program comes down |
| `signal` (violation) | one worker, `signal` in four networks | NSA and SA show other fields than the header lists for them |
| `tok` | all lines of up to 5 characters of 6 kinds, 5 formats | each conversion gets its field, and the count is right |

Some results deserve a sentence.

* `CrashOnlyAfterRefusal`: the only way to the NULL dereference in the wait is a
  refused call, because the refused call clears the other's response.
* `IspInOwnFormat`: with one answer late, lost or unasked, and all later ones
  shifted by one, an operator's name is never reported in a wrong format,
  because setting the format and asking alternate.  Two are enough to break it:
  the bound in the property is exact, and `ops_single` allows one of each.
* `ReadFromOwnKind`: the status operation takes the operator's line for the
  registration if the network is one it does not know, and never otherwise,
  however late the answers come, until a call is refused.  A refusal makes the
  channel forget the pending command: a call that still waits may then take the
  answer of a third one, of whatever kind.
* `RadioComesBack`, `TruthfulReply`: a reply is true as long as nothing goes
  wrong on the channel, but two operations that overlap make a refusal likely,
  and a refused `AT+CFUN=1` leaves the radio off for good.
* `EveryRequestEnds` holds although a thread may follow another one's strtok:
  each of the loops ends with the token that is missing.
* `LocksWhatItNames` is about bands that fit; a list too long is cut in the
  middle of a band, which may name another one.
* `DrainedIfQuick`: the pause after the handshake covers one retry, and only
  just: the last answer may arrive as it ends.  A modem that takes more than two
  attempts passes the handshake and still owes an answer after the pause.  That
  the pause (`atchannel.c:1329`) and a timeout (1316) are the same constant is
  what makes it so: with a timeout of 2 ticks and a pause of 3, a modem that
  takes 4 still has an answer on the way when the pause ends.
* A timeout of 0 is 15 s (`atchannel.c:1078`), where comments at 1070 and 1133
  say that it is infinite; the model follows the code.
* `SlowModemPasses` excludes answers at the boundary of two slices, since the
  code does not look at the response between slices, and a dead line, on which
  even a quick modem fails the handshake: attempts that cannot be written take no
  time.
* `JudgedByType`: without cuts a POST of another type reaches no worker, JSON is
  not refused, and a POST without a type passes only on account of an earlier
  request (`content_type_json` is never cleared).  An empty type passes always.
  The last piece decides: with a cut just behind it, whose rest is empty, another
  type passes as JSON does, and after a cut just behind the name `Content-Length`
  its number is taken for a type, which gets JSON refused.
* `OwnHandler`, `OwnText`, `BandsAsTold` do not look at answers that another
  thread's strtok or scan broke into: those are wrong, and nothing is promised of
  them but an end.
* `CountsFields`, `StoresFields`: an empty field vanishes and later ones move
  up; the reference definition says so explicitly.

**Bounds.** Two calls are the least in which one can take the other's answer,
three the least with a refused one, its victim and a third; two slices have
both a boundary and an end.  A buffer of 5 with 8 bytes has lines that fit, that
exactly fill it and that do not fit.  Two connections and one worker have one
request waiting for another; the second client sends less where the first sends
two requests, for every combination of their pieces would be too many.  An
operation is a sequence of up to six calls, so that a late answer can pass
through all that follows it; two workers are the least to refuse one another.
Two workers with a request each let either break into each loop of the other,
and a third request of a kind finds nothing that a second does not.  Five
characters hold a quoted comma with a field before or after it.  The numbers
1 to 6 for commands are enough: a number is free again when nothing is owed.

**Symmetry** is used in `ops_two` only, over workers, whom no property there
tells apart.

**Deadlock** is not checked: all runs are bounded and may stop when the bounds
are used up, and the program may exit.

**Fairness.** `ATChannel`: threads are scheduled and the clock runs (weak
fairness of sending, waiting, resuming and of the reader); nobody has to call
and the modem owes nothing.  `LineReader`: the reader runs and bytes on their
way arrive.  `HttpServer`: the loop runs its callbacks, and workers finish,
which `CallReturns` justifies; that `Loop` is fair also says that a client that
connected goes on sending until its script ends, or leaves.  `Startup`:
`main()` runs, time passes, answers due arrive.  `Dispatch`: as long as a worker
has something to do, some worker does something, no matter which; that AT
commands end is `CallReturns` again.  `DeviceOps` and `AtTok` state no liveness.

`TypeOK` is checked for the channel (`at_single`) and proved; `LineReader`,
`HttpServer`, `Startup`, `DeviceOps` and `Dispatch` state theirs to say what the
state is.

## 4. Proofs

Proved for every set of callers, workers, requests, commands, lines and formats,
and all bounds:

| module | theorem | what |
|---|---|---|
| `ATChannelProofs` | `TypeCorrect` | `TypeOK` |
| | `PendingIsOwned` | `PendingOwned` |
| | `CrashNeedsRefusal` | `CrashOnlyAfterRefusal` |
| | `SoleCallerIsServed` | `SoleCallerServed` |
| | `InSyncCorrect` | `InSync` |
| | `SuccessIsOneLine` | `SuccessHasLine` |
| | `DeliveredCorrect` | `DeliveredAsSpecified` |
| | `ChannelImplementsService` | `ImplementsService` |
| `ATServiceProofs` | `ServiceTypeCorrect` | `ServiceTypeOK` of whatever implements the service |
| | `InStepCorrect` | until a call is refused or gives up, answers are a call's own (`InStep`), if 0 is no command's number |
| | `CrashAfterRefusal` | a response is only missing after a refusal, likewise |
| `DeviceOpsProofs` | `OperationsUseTheService` | every behaviour of the operations is one of the service |
| | `FreedTwiceCause` | `FreedTwiceNeedsFailure` |
| | `CrashCause` | `CrashHasCause` |
| | `CarefulOnesDo` | `CarefulOnesFree` |
| | `RadioIsBack` | `RadioComesBack` |
| | `RepliesAreTrue` | `TruthfulReply` |
| | `KindsAreOwn` | `ReadFromOwnKind` |
| | `NamesInOwnFormat` | `IspInOwnFormat`, for one worker |
| `LineReaderProofs` | `TypeCorrect` | `TypeOK`, for a modem that sends no prompt |
| | `NoSplice` | `TailsOfLines`, likewise |
| | `NoneLost` | `LinesAreTheInput`, likewise |
| `DispatchProofs` | `TypeCorrect` | `TypeOK` |
| | `HandlersAreOwn` | `OwnHandler` |
| | `TextsAreOwn` | `OwnText` |
| | `BandsAreAsTold` | `BandsAsTold`, if the bands' texts are plain |
| | `BandsAreNamed` | `LocksWhatItNames`, if the bands' names are proper |
| | `CrashesHaveCauses` | `CrashHasCause` |
| `AtTokProofs` | `StoresItsFields` | `StoresFields` |
| | `CountsItsFields` | `CountsFields` |
| `HttpServerProofs` | `TypeCorrect` | `TypeOK` |
| | `AbortsHaveCauses` | `AbortHasCause` |
| | `BodiesAreAsSent` | `BodyAsSent` |
| | `TypeDecides` | `JudgedByType` |
| | `AnswersGoHome` | `AnswersAreOwn` |
| `StartupProofs` | `StaleFileCause` | `StaleFileHasCause` |
| | `CrashNeedsNoDevice` | `CrashNeedsFailedOpen` |
| | `SlowModem` | `SlowModemPasses` |
| | `PauseIsLongEnough` | `DrainedIfQuick`, if the pause is as long as a timeout |

Beside the types of the constants the theorems assume this of them.  No command
has the number 0 (`ATChannel`, `DeviceOps`).  For the formats of names there is
one worker, as the property is about one operation at a time: two that set
different formats do mix their names up.  The modem's bytes hold no prompt
(`NoPrompt` of `LineReaderProofs`): prompts belong to the SMS commands, which have no
caller; after one the cursor is left behind the NUL that ends the buffer.  A
path that begins like the interface's has parts, and the name "unset", which
stands for none, is not one of them (`RequestsAssumption` of `Dispatch`).  The
pause after the handshake is as long as a timeout, which it is in the code.
The texts in which bands are told hold neither commas nor dashes (`PlainTexts` of
`Dispatch`, which `MCDispatch` has TLC evaluate): the modem tells them in digits
and colons, and the code drops those two characters.  The bands in a document
have names without a colon that are more than the letter before their number
(`ProperBands` of `Dispatch`, which TLC evaluates too): a colon in a name would
make two tokens of it, and an empty name none.  Lines are sequences of
fewer than 256 characters, and the conversions are `d` and `s` (`ScanAssumption` of `AtTok`).

*Ownership.* `OwnInv` is `PendingOwned` with `OneAtATime` (until a call is
refused, whoever is in a call owns the pending response) and
`SoleCallerServed`.  Without `OneAtATime` neither of the others is inductive: a
state with a caller inside its call and nothing pending would crash.

*Order.* `SyncInv` says, until a call times out or is refused: no final line
received belongs to anything but the pending command (`NoStrayFinalInRx`,
`RxIsForPending`), it is the last of its command (`FinalIsLast`), the modem is
answering the pending command only (`InboxIsPending`), and the pending response
holds its own lines only (`PendingIsOwn`).  The step that needs all of them is
the reader's: a line at the head of the queue may enter the pending response
because the queue holds no other command's.  Both invariants were checked by TLC
on the instances of `at_single` and `at_two` before they were proved.

*One line.* `LineInv` adds to `SuccessHasLine` that the type the reader goes by
is the waiting command's and that a single-line response has at most one line
(`OneLineTaken`).  A refusal breaks it: the refused call clears the response and
a third caller may then set up another type while the first still waits.

*Delivery.* Which lines of an answer a command wants is said by place: `Wanted`
are the places in what the modem said, `LinesAt` the lines there, in order.
`DeliverInv`, until a call times out or is refused: commands are numbered as they
are written, so that what a call returned is of an earlier one than what is
pending (`Numbered`); each line on its way has its place in what the modem said,
one after the other up to the last (`Tracks`); and the pending response holds
those of the lines before them that its command wants, the latest first, for
`addIntermediate` pushes at the front (`Holding`, `LatestFirst`).  With the final
line nothing is left on the way, and `reverseIntermediates` puts the lines in
order.  Unsolicited lines that begin with the command's prefix are let in by the
code, so the property is about responses without them, and with a modem that
sends no SMS notifications, whose second line the reader drops unseen.

*Refinement.* A step of the channel maps to a step of the service or to none
only in states that are reached, and three invariants say what of them matters.
`LineGone`: the descriptor is closed, or the reader at its end, only when the
modem is gone, so that a failing `writeline` is the service's `Fail`.  `InOrder`:
the lines on the way are sorted by command and come before those the modem has
still to answer, so that the line read next belongs to the oldest command that
is owed lines.  `Counted`: no more numbers
are given out than calls were made, so that a new command's, which is larger
than all that are owed, is one of the service's.  Each action then has a lemma; the
reader's `ReadLine` is the service's `Line` or `Final`, with `last` saying
whether another line of that command is on the way.

*The service.* `OneWaits` (whoever waits waits for what is pending, and nobody
else does) holds until a call is refused; with it `StepInv` says that lines are
owed to an unfinished response only, that it holds its own lines, and that calls
returned their own.  `CrashAfterRefusal` follows from the first alone.

*The operations.* `StepIsTheService` shows that each step is one of `ATService`,
so that its types and `CrashAfterRefusal` carry over.  `ResponseInv` adds what
is known of `p_response`: it points to a freed response only before a plain
command whose answer replaces it, or after something went wrong on the channel,
which never gets right again (`CleanIsLost`); and the ICCID operation's second
question passes the pointer, so that NULL after it means a failed call or a
missing line.  `LeakInv` says of the careful operations that nothing is live
when a call that stores begins.

*The radio.* A command goes from a worker to the modem through the queue of
those still owed answers, where a late one can stay for long.  `RadioKnown` says
where each operation that switches the radio off has got to (`OffSteps`), and
that whatever switches it off in the queue either has an `AT+CFUN=1` behind it
(`OnComes`) or a worker that is still to send one; `GoesOn` that until such a
command is lost, a radio that is off (or will be, `OffOrComing`) has one to
come.  When nothing is owed and nobody is at work there is nothing to come, so
it is on.

*Replies.* `PlanInv` says which parts a worker has still to set, has set and has
an answer for at each of its steps; `OneWaits` is the service's; `Truth` relates
these to the command on the way and to what the modem accepted of it.  A reply
is true because the answer that a worker takes is its own command's, and that
was carried out when the answer was given.

*Kinds.* Here calls time out, answers get lost, and one call takes another's.
What stays true is about the lines: a line that begins with a question's prefix
answers a question of that kind, and only calls that wait for this prefix store it
(`KindKnown`, `Kept`).  So a status can only be read from a registration, though
it may be an old one.

*Formats.* With one worker the command waited for is the last one sent (`Alone`),
and what is owed besides are late answers (`Late`): one at most, and none until
something went wrong (`Lag`).  `Comes` says of the format that the modem has it, or
will have it once it has done what it is owed for; the step that needs `Lag`
is the line's: when a worker waits for the operator's name, a late answer is one
to setting the format, which has no lines (`Mute`), so a line that comes answers
the question itself, and by then nothing is left to set the format (`InFormat`).
The bound on what goes wrong is exact: with two late answers the question's own
comes for the next question.

*Lines.* `Window`: from the cursor on the buffer is a window on the input, which
`Base`, the number of bytes that are gone from its front, slides over it.
`Waiting`: between two reads the buffer holds no complete line, so that nothing
that was read is held back.  `Tails`, `Ordered` and `Whole` say of the lines
returned what the properties say, in positions of the input.  Bytes that are
ditched only move the window, which is why a line without its head is never
joined with another.

*Dispatch.* `Good` says of each worker that is not spoilt where strtok's place
must be: in its own buffer, with the parts of the path it has not counted yet or
has still to pass (`Walk`), or with the lines of the table still to come
(`RowsLeft`); that the handler is the one its path names (`Own`); and that the
static line, as long as somebody reads from it, holds that one's text
(`Answering`).  A worker's step keeps this for itself, and for the others it
either leaves strtok's place and the line alone or spoils all who rely on them
(`OneMoves`).  The path ends with the part that is found because as many are
passed as were counted.

*Bands.* `BandInv` follows the bands' texts through a request for them: what the
modem told (`told`), what was copied from the static line before anybody broke
in (`got`), the lines joined from both, and the tokens of each.  `SoFar` says of
the loop over tokens that those in the answer and those to come are together the
tokens of the text told, which is `Complete` when there are none to come.
`Tokens` is defined by where its tokens begin, so that their number and their
order can be told without recursion.

*Bands of a document.* What a document becomes does not depend on the threads:
`LocksWhatItNames` is a fact about `BandText` and `Tokens`, for arrays of any
length.  `BandText` and `removePrefix` are recursive functions over places, and
`LoopHasValues` shows that a loop that carries a value along has one at each
place, so that the function is what its definition says and the only one that is
(`PrefixLoop`, `BandLoop`).  Then come three inductions, each by the least place
where it fails: the text of the first i bands is never longer than 5i - 1, so
that strncat cuts nothing (`BandLoop`); dropping letters takes a text apart
nowhere (`PrefixOfBoth`); and a colon and a name behind a text add one token to
its tokens and leave the others (`TokensOneMore`).

*Fields of a line.* The scan goes by what is left of the line, from which the
double commas are gone, and the reference by places in the line as it came.
`Left(s, i)` joins the two: what the scan has left of s from place i on.
`CommasOfBoth` says when dropping double commas from two pieces is dropping them
from the whole, and with it `NextField` that behind the end of a field the rest
is a comma and the next field, or nothing, however many commas there were.
`FieldScans` is the scan of one field: `nextTok` finds its `Text` and leaves what
`NextField` says, and `Dash` holds just where the field `IsMissing`.  A comma
inside a field is inside its quotes, for outside of them it would be a separator
(`NoCommaOutside`, by the parity of the quotes); in a string, dropping commas
changes nothing, as a regular field has no two of them there.  `ColonStays`:
dropping commas leaves the first colon the first, so that the scan starts at the
first field.  The invariant `TokInv`, which TLC checked on the instance of `tok`
first, says that the scan is at the field whose number is p (`AtField`), that it
has stored the values of the fields before that one, and, once it has returned,
why it stopped.  What `strtol` makes of a token (`Numeral`) plays no part: code
and reference use the same, and the theorems say whose token it is given.

*The HTTP server.* Of the texts it takes three facts, which `WholeTexts` states:
as a whole, only `Content-Type` is taken for that name, and of the values only
JSON's and the empty one pass.  Only whole texts come where no header is cut
(`CutKeeps` has the other case).  `Judged` says what `content_type_json` then is
once the type has been read, `Carried` that it is set only on account of a
request that stated JSON or nothing, this one or an earlier one, and `AsSent`
keeps the verdict for the requests at work.  `Placed` says what text the parser
is at.  `Collected` says that the body collected
is what was read of the current request's, and nothing when that is done, which
is what on_message_complete's reset is for; `AsSent` that a request at work is
complete and lies before the one that is being read.  `OneAnswer` holds because
the connection is closed with its first answer.  For the second `uv_close`,
`AtOnePlace` says that a request is queued, in work or done, and once only;
`Finished` that a client who stays and sends one request has, when its connection
is closed, nothing left to be read and none at work, so that nothing comes to
close it again.

*Startup.* `Progress`: what has been done by which phase; without it a port file
could exist before it is written.  `Timing` and `Handshaking` relate the attempt,
the slice and the clock, and say which answers are still due; `LastAnswers` that
none is due later than a latency after the last attempt; `Drains` that the pause
outlasts what is due.  An attempt that could not be written is one on a dead
line, so a handshake that fails on one that works has waited for all its attempts.

Model-checked only is liveness (`CallReturns`, `ReaderDies`, `Answered`,
`AllDelivered`, `StartupEnds`, `EveryRequestEnds`), which the prover cannot do
under fairness.  Every invariant that a run expects to hold is also a theorem.

## 5. Plan

Done: the channel, the abstract service with the refinement and its proof, the
operations built on the service, the dispatch with the state its threads share;
proofs of the safety properties of all of these, and of the tokenizer.
What is left, in this order:

1. `LineReader` under `ATChannel`: a queue of lines as the abstract
   specification of `readline`.
2. `HttpServer` composed with `Dispatch`: the length of an answer (2048 bytes)
   and the work's memory.
3. The numbers of signals and the texts of cells and addresses, where a report
   is built from fields that were not read.

## 6. Not modelled

Serial port settings, logging, the APN data and the client scripts have no
behaviour of the kind checked here.  The SMS, raw-data and ASCII-code entry
points of the channel and its proxy mode have no caller.  `s_readerClosed` is
never set in this program.  Of the reports, what the serving cell's and the
bands' say is modelled; neighbouring cells, IP addresses, temperatures and all
numbers are arithmetic and text.  The lengths of answers and JSON's own
reference counts are left out; that a document is given up twice is not.
Undefined behaviour: the wait's NULL dereference is modelled as a crash; a freed
response's second free is recorded, not followed; a pointer never assigned is
any of the values it may have, or a crash; what a thread overwrites in another's
buffer through strtok is not followed.
