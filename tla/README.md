# Verification project of the STM32F407 SLIP / lwIP / telnet firmware

The firmware runs FreeRTOS and lwIP on an STM32F407. It has one network link,
SLIP over USART2, and offers HTTP, SNMP, iperf and a telnet console on it. Most of
the repository is vendored (FreeRTOS, lwIP, CMSIS, DSP). Its own code is `src/`, with
changes in `lwip/netif/slipif.c`. These modules treat the parts of it whose correctness
depends on order: an interrupt handler against tasks, tasks against tasks, a byte
stream against frames, a long sequence of keys against a small ring.

The configuration modelled is the one the repository builds (`src/common.h`,
`src/lwipopts.h`): `USE_CONSOLE_TELNET` on; `USE_CONSOLE`, `USE_ACCEST`, `USE_IWDG`,
`USE_RING_BUFFER_USART6` off; `SLIP_RX_FROM_ISR` 0; `LWIP_NETCONN_FULLDUPLEX`,
`LWIP_NETCONN_SEM_PER_THREAD` and `LWIP_TCPIP_CORE_LOCKING` 0.

## 1. The system

| component | source | state | operations | interacts with |
| --- | --- | --- | --- | --- |
| serial receive path | `src/sio.c` | `queueUART`, `errorUartSR`, USART2 SR/DR | `USART2_IRQHandler`, `sio_open`, `sio_recv`, `task_rrintErrorUart` | fills the queue the SLIP thread empties |
| SLIP interface | `lwip/netif/slipif.c` | `state`, the chain `q`/`p`, `i`, `recved` | `slipif_rxbyte`, `slipif_rxbyte_input`, `slipif_output`, `slipif_loop_thread` | `sio`, the pbuf pool, the mailbox of the tcpip thread |
| sequential API | `lwip/api/api_lib.c`, `api_msg.c` | per netconn: state, pcb, mailbox, `current_msg`, `op_completed` | recv, write, shutdown, close, delete, callbacks of TCP | called by server and sender, carried out by the tcpip thread |
| telnet console | `src/theardTelnetServer.c` | `newconnUse`, ring `buferTerminal`, `_wr_index`, `_rd_index`, `_counter` | `printTelNet`, server task, sender task | console task, API |
| line editor | `src/console_mod/microrl.c` | `cmdline`, `cmdlen`, `cursor`, escape state, `ring_hist` | one per key, Enter, Up, Down, TAB | prints by `printTelNet`, calls `execute` |
| console task | `src/microrlthead.c` | `recyveData`, `semaforeAbonent` | `recymeMas`, `recyveDat`, `taskMicroRl` | telnet server to editor |
| commands | `src/console_mod/misc.c`, `src/apps/ebi_rw-master` | table of ten commands | `addCmd`, `execute`, `complet`, the commands | editor |
| startup, idle | `src/main.c` | task handles, `MPU_IDLE`, `masCpuFree` | `resumAllTask`, `vApplicationIdleHook` | every task |
| formatted output | `src/xprintf.c` | `outptr`, `xfunc_out` | `xprintf`, `xsprintf` | every task that prints |
| USART6 | `src/uart.c` | ring and `tx_counter` (not built) | `putUart6`, handler | `xprintf` |
| queues | `FreeRTOS/queue.c` | contents, locks, wait lists | send, receive, from task and interrupt | all |
| parameters, SNMP tables, I2C, network startup | `src/paramerts.c`, `src/snmp`, `src/soft_i2c.c`, `src/theardNetWork.c` | little or none | sequential | |

Bytes travel `USART2 -> handler -> queueUART -> slip thread -> pbuf chain -> tcpip_mbox
-> tcpip thread`; a telnet key goes on `-> netconn mailbox -> server -> recyveData ->
microrl`, and what the console prints `-> buferTerminal -> sender -> netconn_write`.

Priorities, on which the models of the tasks rest: network startup 5 (ends), tcpip and
slip threads 4, telnet server and console 2, sender and error reporter 1. The highest
ready task runs; tasks of one priority share it by time slices.

What is hard in each part, and what makes it right:

* **Serial path.** The handler reads SR three times and DR once while bytes keep coming;
  the reporter clears flags with a plain store. Right: every byte is read, queued, or lost
  with a flag; queued bytes reach the slip thread.
* **SLIP.** A packet grows over a chain of pbufs, any allocation of which may fail, up to
  a limit tested after the allocation. Right: no byte is put outside the chain, skipped or
  overwritten; no pbuf is leaked; damage stays where it happened.
* **Telnet.** Two tasks use one netconn, whose one semaphore wakes either; the counter is
  shared with a task of a higher priority; sessions come and go. Right: output once and in
  order; the server always returns to accept; nothing freed is used.
* **Editor.** Variable-length records in a ring of bytes, and a line edited in place whose
  blanks are zeroes; a key prints no more than what it changed. Right: history and line
  behave as lists of lines and characters do, and the terminal shows the line.
* **Queues.** A call that found the queue full is overtaken before it sleeps; the handler
  posts while the lists are locked; ticks come while the scheduler is suspended, and the
  tick count wraps. Right: a FIFO, no wake-up lost, no wait longer than asked for.
* **Console task.** The server feeds it through a queue it may fill, and the idle task is
  stopped anywhere by the commands that print what it writes. Right: every key is handled,
  once and in order; what is printed on one screen belongs together.
* **Formatted output.** One pointer decides for all tasks where a character goes. Right
  would be that each text arrives where its call says; it does not (`xprintf` below).

The list of hazards, each at its line with the properties that watch it, is in
`PROJECT.json`.

## 2. Modules

| module | role |
| --- | --- |
| `SlipBytes` | the line's bytes, escaping, framing of `slipif_output` |
| `SlipFraming` | abstract: a receiver with an unlimited buffer |
| `SlipIf` | `slipif_rxbyte` and `slipif_rxbyte_input`, pbuf pool, tcpip mailbox; implements `SlipFraming` |
| `SlipLink` | extends `SlipIf` with a peer, a lossy line, the handler in one step, the queue, the slip thread |
| `SlipLink_proofs` | theorems about `SlipIf` and `SlipLink` |
| `SioRx` | the handler of `sio.c` register access by register access, with the reporter and `sio_open` |
| `SioRx_proofs` | theorems about `SioRx` |
| `Netconn` | one netconn of the sequential API as two tasks see it |
| `Telnet` | extends `Netconn` with server, sender, ring and TCP |
| `Telnet_proofs` | theorems about `Telnet` |
| `HistoryLog` | abstract: the latest lines that fit |
| `HistoryRing` | the ring of bytes and its operators, shared by the next two |
| `MicrorlHistory` | the ring alone; implements `HistoryLog` |
| `LineEntry` | abstract: a line of text, a place in it, a history, completion; the words of a line |
| `Microrl` | the editor with its ring and its terminal, key by key; implements `LineEntry` |
| `MicrorlHistory_proofs` | theorems about `MicrorlHistory` |
| `Microrl_proofs` | theorems about `Microrl`, with the former for the ring in it |
| `BlockingFifo` | abstract: a bounded FIFO whose calls take effect once or not at all |
| `RtosQueue` | `queue.c` and what it needs of `tasks.c`: locks, event lists, delayed lists, the tick; implements `BlockingFifo` |
| `RtosQueue_proofs` | theorems about `RtosQueue` |
| `Console` | the console task between the telnet server and the idle task, and `resumAllTask` |
| `Console_proofs` | theorems about `Console` |
| `Xprintf` | `outptr` between a task that formats and one that reports |
| `NatLemmas` | lemmas the proofs share: remainders, induction, sums, concatenations, counting, replaced parts of a sequence |
| `MC*` | values a `.cfg` cannot spell |

How code and state correspond:

* `SlipIf`: variables are the fields of `slipif_priv`. The chain is split into its geometry
  `q` (offset and length of each pbuf) and its contents `mem`; `p` is an index, 0 for NULL.
  One action per outcome of a byte: `RxIdleEnd`, `RxEnd` (hand over, or refuse and free),
  `RxEsc`, `RxData` (with, without, or with failed allocation). `pbuf_realloc`'s trimming
  is `Kept`. `TcpipFetch`, `PbufFree`, `ApiPost` are the other users of pool and mailbox.
* `SioRx`: `isr` is the handler's program counter; the registers act as the reference
  manual of the STM32F4 says (a read of SR then of DR clears the error flags that the read
  of SR saw). Bytes arrive between any two accesses. `Mask` is a critical section of a task.
* `Netconn`: a message is carried out in the step that posts it, since the tcpip thread
  outranks the callers. What cannot be done at once (`Later`) is left in `current_msg` and
  is finished by a callback (`Finished`, `Reset`). `Ack` sets the semaphore of the *netconn*;
  whoever waits on that semaphore may take it.
* `Telnet`: `serverPc` and `senderPc` are the tasks' places; the sender moves only while the
  server is not ready. `fault` records the step in which a call returned before its
  message was carried out, or named a freed netconn: what the memory holds then is not
  defined and the behaviour stops there. `taken`, `printed`, `line`, `lapped` are ghosts.
  `printTelNet` of a string is one step, since it outranks the sender.
* `Microrl`: a blank is the byte 0, as in the code. `PlainKey` is the switch of
  `microrl_insert_char`, `EscapeKey` is `escape_process`. `argv` is what `execute` was
  called with; a word is the C string from its place on, which `cmdlen` does not limit,
  and `TokenStart` numbers the places by how many words begin before.
  `screen` is the row of the terminal the line is on and the column of its cursor, with
  ESC [ K and the cursor moves; a row is as wide as it has to be, and what a command
  prints ends at the left margin. `Complete` is TAB with `complet` of `misc.c`: the
  candidates are the `Commands` the last word begins, the word is a C string that may run
  on past the cursor, what they share is inserted at the cursor. Behind a blank with as
  many words as `tkn_arr` holds the code writes `tkn_arr[-1]`: TAB is not pressed there.
* `RtosQueue`: a call goes through the points of `xQueueGenericSend` and `xQueueReceive`
  between which an interrupt may come: the first test in a critical section, `vTaskSuspendAll`,
  `prvLockQueue`, `xTaskCheckForTimeOut`, the second test, `vTaskPlaceOnEventList`,
  `prvUnlockQueue`, `xTaskResumeAll`. `SendFromISR` and `TickInterrupt` come between any two
  of them. `delayed` names for every task its list (current, overflow, suspended) and its wake
  time; `cur` is the running task, `yieldPending` the switch that is owed. No handler of
  this firmware receives from a queue, so the half of the lock that `cRxLock` counts is left out.
* `Console`: `server` and `console` are the places of the two tasks in `recymeMas` and
  `taskMicroRl`, `hook` and `i` that of the idle task in `vApplicationIdleHook`. `IdleTurn`
  is its priority: it moves only when neither task is ready. A command is the
  list of figures it reads, one step each (`PrintFigure`); keys that begin no command are
  "letter". `print` does not wait (`printTelNet` writes to the ring), so it never lets the
  idle task in. `boot` is `resumAllTask`: for 2200 ms only the idle task runs.
* `Xprintf`: `Load` and `Store` are the accesses of `xputc` to `outptr`. A slice of time
  ends between any two steps. The server only uses `xprintf`, the console only `xsprintf`.

## 3. Runs

Passing runs:

| run | bounds | properties |
| --- | --- | --- |
| `slip_line` | 3 frames, each one escape or three bytes before one, limit 3, pbufs of 2 and 1 bytes per allocation, pool 6, mailbox 1, queue 2, up to 2 bytes lost per frame | `TypeOK`, `CursorAtRecved`, `PbufsConserved`, `FramesAsSpecified`, `DamageStaysInFrame`, `DamageEndsWithNextFrame`, `InOrderOnce`, `PinnedPbufsBounded`, `FramesArrive` |
| `sio` | 4 bytes, queue 1 | `TypeOK`, `BytesAccounted`, `LossIsFlagged`, `QueueErrorReported`, `QueueDrains` |
| `telnet` | 2 sessions, ring of 2, 4 bytes printed, one input event, resets | `TypeOK`, `TakesNoOlderByte`, `OutputInOrder`, `FreedIsQuiet`, `ServerComesBack` |
| `history` | ring of 9 bytes, lines of 1 to 7 | `SavingEnds`, `WalkEndsAtEnd`, `HistoryAsSpecified` |
| `microrl` | lines of up to 5 characters, up to 3 words, history of 4 bytes, every key, one letter, three commands | `TypeOK`, `TerminalShowsLine`, `EditsAsSpecified`, `EnteredLineIsExecuted` |
| `queue` | two receivers (priorities 3 and 1) and a sender (2), queue of 2, tick count modulo 4, waits of 0, 2 and for ever, lock counts up to 2 | `TypeOK`, `LockDiscipline`, `EverySleeperCanWake`, `NoSleeperForgotten`, `SleepsNoLongerThanAsked`, `DelayedListsInOrder`, `NeverEarly`, `TopReceiverServed`, `ImplementsFifo` |
| `console` | queue of 1, graph of 3, two rows, counts 1 to 3, 3 keys, 4 seconds | `TypeOK`, `NoKeyLost`, `GraphIsOfOneMoment`, `FiguresAgree`, `EveryKeyIsHandled` |

Why the bounds are enough:

* `slip_line`: three frames suffice for a claim about a frame, the one before it and one
  after. Losing two bytes is what it takes to leave an ESC in front of the next frame's END.
  An allocation has two pbufs of different lengths, so every boundary occurs (inside, between
  the pbufs of one allocation, between allocations). The long payload is one byte more than the
  limit, so undamaged it brings the byte beyond the limit, which asks for another allocation, and
  with a lost END between two frames the bytes after it. The pool of 6 holds three allocations, so one
  fails at the start of a packet or inside it while packets are in the mailbox or above; mailbox and queue
  run full. All losses and schedules are explored. Bytes other than the special
  ones are treated alike, so one of them is enough.
* `sio`: four bytes allow one in the handler, one in DR, one overrunning and one after.
* `telnet`: four bytes go round the ring of two twice when it is not overrun, and overrun it
  otherwise; two sessions give the sender a stale
  netconn; one input event each of data, end of stream or reset is enough to take the
  server through every branch of its loop.
* `history`: a ring of nine holds four lines of one byte or one of seven, and every header,
  line and end mark comes to cross its end.
* `microrl`: lines of five characters have a beginning, a middle and an end, and room for
  three words, one more than the editor takes with `TokenNmb` 3; a completion fits or does
  not. Keys outside an escape sequence and bytes inside one are given apart, so that the
  letters of the sequences need not all be typed as text too. One letter tells text from
  blanks; the order of letters in a line is checked through history and completion.
* `queue`: the priorities lie above and below the sender's, so a wake-up switches tasks or
  does not; the modulus of 4 wraps within a wait of 2; two posts while the queue is
  locked wake two receivers. One tick at most falls into a suspended section, and a running
  task takes a step between two ticks, which is far slower than the hardware is.
* `console`: with a queue of one the server is blocked by the second key while the console is
  in a command, and the third is on its way. A graph of three has a first, a middle and a
  last place, four seconds shift the first of them out; two rows read each place twice.

Runs that expect a violation, each a place where a comment of the sources says one thing
and the code does another (`findings` in `PROJECT.json` quote both):

| run | what TLC shows |
| --- | --- |
| `sio_overrun` | an overrun between two register accesses leaves a request the handler never clears until another byte comes |
| `telnet_early` | a task takes the token meant for the other and returns from a call that was not carried out |
| `telnet_freed` | the sender calls the API on the netconn the server freed |
| `microrl_tokens` | a line of as many words as `tkn_arr` has places is not executed, though `config.h` refuses only lines that exceed that number |
| `xprintf` | the server's report goes into the buffer the console formats a command's text in |

Consequences of these that were met while modelling and have no run of their own: the
sender may wait for ever for the token the server took; a session that ends while the sender's write
waits for buffer space is refused by `netconn_delete` and never freed, as the server ignores the result; the count of a
byte printed between the sender's last test and its reset to 0 is lost, so that the byte stays in the ring until later ones
are counted; of a ring that was overrun the newer bytes are sent twice; the reporter wipes a flag
of `errorUartSR` set after its tests, and that message is never printed; the byte behind
`SLIP_MAX_SIZE` is kept although the comments of `slipif.c` say that it is dropped;
`escape_seq` is never reset, so a broken-off sequence changes the meaning of the next one;
TAB at the beginning of a line reads `cmdline[-1]`; after ^K the last word of a command
runs on into the characters that were cut (`EnteredLineIsExecuted` exempts it and nothing else);
`resumAllTask` reads, after 2200 ms, a variable of `main` whose stack the scheduler has
given to the interrupt handlers; `telNetConsole` stands in an Enter for the negotiation of a
new session, which executes what the former one left half typed in the editor.

Where a comment and the code differ by a step and a property about the rest would take a side,
the property leaves it open. `SlipFraming` demands every byte up to `MaxSize`, forbids those from
the second one beyond it, and allows the one between to be kept (as `slipif.c` line 284 does) or dropped
(as its lines 77 and 283 say). `EnteredLineIsExecuted` demands that lines of fewer
words than places are executed, `AllowedLineIsExecuted` alone speaks of just as many.
`TakesNoOlderByte` says of a ring that is overrun what still holds: the byte sent k-th is
the k-th printed or a later one of the same place, not an older one.

`DamageStaysInFrame` is conditional on at most one lost byte per frame, because it fails
without (an ESC before the opening END spoils the following frame too);
`DamageEndsWithNextFrame` is what holds always. `QueueDrains` and `QueueErrorReported` except the
storm of interrupts of `sio_overrun`, and `ServerComesBack` stops at a `fault`.

## 4. Fairness

* `SlipLink`: weak fairness of `Isr` (the peer goes on sending) and of `SlipThread`: a
  queued byte wakes it and nothing but the tcpip thread, of the same priority, competes.
* `SioRx`: weak fairness of the handler, and of the end of a critical section. Strong
  fairness of the tasks' steps: they are enabled only between interrupts, and a task of
  the highest priority that becomes ready again and again does run. For the reporter, of the lowest
  priority, it assumes that the higher ones do not use up the processor; the bytes are
  finitely many. No fairness makes a byte arrive.
* `Telnet`: weak fairness of server and sender, whose competition is in their guards, and of
  TCP finishing what waits: `poll_tcp` retries and gives up in the end.
* `RtosQueue`: weak fairness of the running task's steps and of the tick; neither makes a
  call, a post of the handler or an event elsewhere happen. `TopReceiverServed` rests on it.
* `Console`: weak fairness of `resumAllTask`, of server and console, which share the processor by slices of
  time (`configUSE_TIME_SLICING` 1), and of the idle task, whose competition is in `IdleTurn`.
  No fairness makes a key arrive.
* `Microrl`, `MicrorlHistory`, `Xprintf`: none; they have safety properties and action properties only.

Deadlock is not checked in `SioRx`, `Telnet`, `Console` and `Xprintf`, which stop when their bounds are used up.

## 5. Proofs

**`SlipLink_proofs`: the receiver.** For every pbuf geometry, pool, mailbox and packet limit allowed by `ConstantsAssumption`:

* `TypeCorrect`: `Spec => []TypeOK`.
* `CursorCorrect`: `Spec => []CursorAtRecved`. The index `(p, i)` is inside its pbuf and
  stands where byte number `recved` belongs.
* `Refinement`: `Spec => FramesAsSpecified`, the chain implements the unlimited buffer.

The inductive invariant is `IInv == TypeOK /\ CursorAtRecved`. `TypeOK` alone does not
say that `i` is an index of pbuf `p`; the cursor's place alone does not survive an
allocation unless the chain is contiguous and `mem` as long as the chain, which
`CursorAtRecved` contains. `Contiguous` carries its own transitive form, since deriving it
would be an induction over data. Lemmas: `ChainFields`, `PbufWithinRoom`,
`ExtendedContiguous` (another allocation), `KeptExists` (a trimmed chain has a last pbuf),
`StoreOne`, `PutInv`, then one lemma per kind of byte. For the refinement `PutRefines`,
`SameBytes` and `FramingStutters` say how a store or a step elsewhere appears in
`SubSeq(mem, 1, recved)`.

* `PoolConserved`: `Spec => []PbufsConserved`. The pbufs in the mailbox are a sum over a
  sequence; `SumAppend` and `SumTail` of `NatLemmas` say what posting and fetching do to it.
* `PinnedBounded`: `Spec => []PinnedPbufsBounded`. `ChainIsAllocations` adds that the chain
  consists of whole allocations (`k` of them hold `k` times the room of one), and the
  limit of the code stops the next one, so `k` is at most `MostAllocations`.
* `LinkIsReceiver`: `LinkSpec => Spec`, so all of this holds behind the handler and the queue
  too; `LinkKeepsReceiver` states it for what the run `slip_line` checks and for the pool.

The only assumptions are `ConstantsAssumption` and
`JunkAssumption`, and TLC evaluates both.

**`SlipLink_proofs`: the link.** For any number of frames, every payload that is not empty
(`LinkAssumption`: lwIP sends no empty packet), queue, pool, mailbox and packet limit, and
whatever is lost where:

* `DamageIsContained`: `LinkSpec => []DamageStaysInFrame`.
* `DamageEnds`: `LinkSpec => []DamageEndsWithNextFrame`.
* `OrderKept`: `LinkSpec => []InOrderOnce`.

What the variables do not hold is where the program stands in the whole stream. The
invariant `LInv == IInv /\ LinkType /\ ...` says that there are a stream `S` of bytes with the
places `A` of the ENDs and `C` of the ends of every byte of payload (`Shape`), and in it `d`,
the byte the slip thread processed last, `c`, the one the handler saw last, and `v`, the
places of what is queued (`Placed`). On these rest `Counted` (what is missing between `d` and
`c` is known to `hurt` and `lost`), `EscapeOpen` (the thread is in `ESCAPE` behind an ESC only),
`Ordered`, and `Reached`: what of the frame under way is in the packet, as long as the frame is
`Clean`. `SlipOutcome` reduces a call of `slipif_rxbyte` to what it does to the packet.

**`SioRx_proofs`.** For every number of bytes and every queue (`SioAssumption`), wherever
between two accesses of the handler bytes arrive:

* `TypeCorrect`: `Spec => []TypeOK`.
* `LossFlagged`: `Spec => []LossIsFlagged`. `IInv` adds what the handler knows at each place:
  on the good path it reads DR with no flag armed (`FlagBeforeClear`), so it cannot clear an
  overrun it has not seen.
* `BytesAreAccounted`: `Spec => []BytesAccounted`. `AInv == IInv /\ HandInOrder /\
  BytesAccounted`: the byte in the handler's hands is older than the one in DR, without
  which appending it to the queue could break the order. `Order` is what was received
  followed by what is queued; `SendAppends` and `RecvKeepsOrder` say what an enqueue and a
  dequeue do to it.

**`Telnet_proofs`.** For every ring, number of sessions and input:

* `NoOlderByteIsTaken`: `Spec => []TakesNoOlderByte`, overrun or not. `CInv` says where the
  sender's index `i` stands against the counter at each of its places (`IndexInCount`): `i <
  counter` holds from the test of the loop to the end of the write although the console task adds
  meanwhile, because nobody but the sender takes away; so it counts only on what was printed
  (`CountedWerePrinted`). `AgeInv`: the ring holds bytes at their own places
  only, and at the place of every byte printed that byte or a later one. `PrintAge` shows it for a string that may go round
  the ring (`WrittenAt`, `PlaceAfter`).
* `FreedNetconnIsQuiet`: `Spec => []FreedIsQuiet`. `FInv` relates four things: the state of a
  netconn and its `current_msg` (`Pending`); that message and the call of the task which waits
  for it (`Calling`); what the server knows after `netconn_delete` (`Deleting`); and the
  freed netconns (`FreedGone`). `Calling` and `Deleting` hold up to a `fault`, at which the
  behaviour ends. The lemmas are one per outcome of a message (`AckKeeps`, `LaterKeeps`,
  `CloseKeeps`), one per callback of TCP (`FinishedKeeps`, `ResetKeeps`), `ReturnKeeps`, and
  one per step of the server.
* `BytesInOrder`: `Spec => []OutputInOrder`. `RingInv`: the indices are the counts of the bytes
  printed and taken modulo `Size`, and until the console laps the sender, byte `k` lies at
  place `k - 1` of the ring modulo `Size`. `LineInv`: a byte is in the hands of the API
  only while the sender waits for it (`InFlight`), and what went to TCP came before it.
* `TypeCorrect`: `Spec => []TypeOK`, with `BInv`: no more is counted than was printed.

**`RtosQueue_proofs`.** For every set of tasks, their priorities and block times, every length of the
queue and every modulus of the tick count (`QueueAssumption`):

* `TypeCorrect`, `LockSafe` (`LockDiscipline`), `SleepersReachable` (`EverySleeperCanWake`),
  `ListsInOrder` (`DelayedListsInOrder`).
* `QueueIsFifo`: `Spec => ImplementsFifo`, the refinement of `BlockingFifo`.
* `NoWakeupLost`: `Spec => []NoSleeperForgotten`.
* `GivesUpInTime`: `Spec => NeverEarly`.
* `ForemostWakesInTime`: `Spec => []SleepsNoLongerThanAsked`, with `ForemostRuns`,
  `ForemostKeepsRunning` and `ForemostNoticesInTime` on the way to it.

The inductive invariant is `IInv == TypeOK /\ LockDiscipline /\ EverySleeperCanWake /\
DelayedListsInOrder /\ WriteFollows /\ TimeLeft`. `EverySleeperCanWake` needs the lock: a task
on an event list may be forgotten unless an open locked section still wakes it.
`DelayedListsInOrder` needs `TimeLeft`: a task that goes to sleep has time left, so its wake
time is not the present tick. `WriteFollows` ties write index, read index and count of the ring, without which
the ring is no sequence. There is one lemma per action for the types and one for each conjunct it can disturb.

The last ones rest on `WInv` besides. `Sched` says who is on which list and that the scheduler is
suspended only inside a call; `AtPlace`, what a task about to sleep knows of the queue;
`Served`, that the tasks awake in a call and the posts noted in the lock together are as many as
the items, while anyone sleeps for one; `Clocked`, that the time a call measures is the time
that passed or less (`Age` unwraps the tick count). Sets of tasks are finite, as they are counted.

That no call sleeps too *long* is a matter of priorities, since a woken task must also run. `Foremost(t)`
says that `t` outranks every other task; once the tasks of the start have ended, that is the slip
thread on the queue of `sio.c`. `ForemostOnTime` says of it:

* `Prompt`: it runs when it is ready, or a switch to it is owed at the next tick, the price of the flag that the
  handler does not return; and inside a call nobody takes the processor from it.
* `OnTime`: while it sleeps, what is left of its time (`Left`) is what remains to its wake time
  (`Remaining`), so a sleep that has run out is over (`DelayedListsInOrder`); and wherever it stands in its
  call it is so late at the most as `LateBy` says. This keeps `Age` within the modulus: `xTaskCheckForTimeOut`
  sees one wrap of the tick count and would take a second for none.

It is proved apart for the steps of the task itself, of others (`OtherStep`, which leave it as it is or
wake it), for a tick that is pended (`PendedOnTime`) and for one that is counted
(`InterruptOnTime`, `ResumeCounts`, both by `CountedOnTime`). `LateBy` counts at most one tick between two steps of
the task that runs and one in a locked section, the bounds `ticked` and `pendedTick` of the model. With two tasks
that share the highest priority the property fails: TLC finds that the one left ready is kept from looking
until the tick count has come round, and then sleeps once more. For a task that others outrank there is no
bound at all; the tcpip thread, which waits for a limited time, is one of those.

**`Console_proofs`.** For every queue, graph, number of rows and set of counts
(`ConsoleAssumption`): `TypeCorrect` (the share of idle time is a percentage, `ShareBounded`),
`KeysNotLost`, `GraphOfOneMoment` and `FiguresOfOneMoment`. The inductive invariant adds to
the types and `NoKeyLost`: `StartsInOrder` (nobody uses what the console has not yet
created), `HookSoFar` (what the idle task has written, at every place it can be stopped) and
`PrintedStands` (what is printed is still what the variables hold, because the idle task
is not in turn).

**`MicrorlHistory_proofs`.** For every ring and every series of lines (`RingAssumption`,
`LinesAssumption`):

* `SavingComesToAnEnd`: `HistSpec => []SavingEnds`; `WalkIsWhole`: `HistSpec => []WalkEndsAtEnd`.
* `HistoryIsLog`: `HistSpec => HistoryAsSpecified`, the refinement of `HistoryLog`.

`RingInv(M)` names what the bytes alone do not: the distances `P` of the headers from `begin`, each
the one before plus the length its header holds plus one, less than the ring in all, the last
one being `end` with a zero length (`Chain`), no line longer than `M` (`Holds`). `ChainIsWalked`
and `CountIs` show that the walks of the code meet these places and stop at `end`; `ErasedIs`, that
`hist_erase_older` stops at the first place from which the line fits; `SavedChain`, that the new line
goes behind the chain and disturbs no byte of what is kept, wherever the copy is cut in two. The
log's own measure, the characters of all lines, is a concatenation (`Flattened`).

**`Microrl_proofs`.** For every ring, line length, number of words, set of commands and keys
(`MicrorlAssumption`; a command is a C string, so it holds no byte 0):

* `TerminalIsRight`: `Spec => []TerminalShowsLine`; `TypeCorrect`: `Spec => []TypeOK`.
* `CommandGetsItsWords`: `Spec => EnteredLineIsExecuted`.
* `EditorIsLineEntry`: `Spec => EditsAsSpecified`, the refinement of `LineEntry`.

`EditInv == RingInv(LineLen - 1) /\ LineOK(Line) /\ ScreenOK`. The history is part of it since what a
key restores must fit `cmdline`. `Lead(scr, text, pos)` says that the prompt and the first `pos`
characters of a row are right and the cursor stands behind them; each key leaves a row with a
`Lead` up to where it prints from, whatever stands to the right, and `PrintLineShows` puts the rest
right. `TypeCorrect` needs besides that words, and what candidates have in common, are sequences
of numbers (`TokensType`, `CommonType`).

The last two theorems are about what the line means. `cmdline` and the ring keep a blank as the byte 0,
`LineEntry` and the terminal have the character 32. Reading a line (`CharOf`) is one to one only
if no byte is 32 itself, in the line with the byte behind it and in every line of the
ring: `CharsInv`, which every key keeps (`CharsNext`). Words then begin at the same places in `cmdline` and in the
text, and a place is known by how many begin before it (`WordsAre`, with `WthUnique` of
`NatLemmas`); a C string ends where its word does unless the word touches the end of the
line (`WordsEnd`), and there `cmdline[cmdlen]` decides (`WordGiven`).

For the refinement `StepEdits` first says what each key does to line and history whatever it
prints (`KeyEdits`), and one lemma for each says that this is an action of `LineEntry`. What
the code does to bytes is stated as one `Splice` of the text: `InsertedText`, `BackspaceText`, `CutText`,
`RestoredText`. `EnterKeeps` shows that which lines stay depends on their lengths only, so
that reading commutes with forgetting; Up and Down rest on the refinement of the history.
TAB is the one that is not direct: the code inserts the rest of the word and then, if one
candidate is left, a blank, each whole or not at all, and `CompletionInserts` shows that the two
are the one insertion of `Completion`. The word it completes is a C string, and
`BitIsTakenFor` is where a cut line shows: it may run on behind the cursor into what ^K left,
so the command found is one that a longer word begins than the line shows. `LineEntry` allows that (`TakenFor`)
where the line was cut in its last word and nowhere else.

**`NatLemmas`.** The library's induction theorems take a predicate as a parameter, which the
provers cannot instantiate. `NatSetInduction` takes the *set* of the numbers that satisfy it
instead and follows from the well-foundedness of `<`, as does `NatRecursion`, the existence of a
function with a given first value and step. From these come what a `CHOOSE`n recursive function
returns, the sums and concatenations that the community modules define by folds (`SumAppend`,
`Flattened`), and the n-th element of a set of numbers (`WthExists`).

The assumptions are those named in the modules (`TelnetAssumption`, `ConnAssumption`,
`NobodyAssumption` here); TLC evaluates them in the runs.

Only model-checked: liveness (`FramesArrive`, `QueueDrains`, `QueueErrorReported`, `ServerComesBack`,
`EveryKeyIsHandled`, `TopReceiverServed`), which the prover does not reach.

## 6. Plan

1. Done: serial path and SLIP (`SlipIf`, `SlipLink`, `SioRx`), proofs for `SlipIf` and `SioRx`.
2. Done: telnet and the API beneath it (`Netconn`, `Telnet`), first proofs.
3. Done: history and editor (`HistoryRing`, `MicrorlHistory`, `Microrl`).
4. Done: `RtosQueue` with its refinement and proofs; the interface that `SioRx`, `SlipLink` and
   `Console` assume.
5. Done: `Console` with proofs; completion and the terminal in `Microrl`; `Xprintf`.
6. Next: the handles kept after a task has deleted itself, with the heap; the ring of
   `uart.c` as `USE_RING_BUFFER_USART6` would build it; `soft_i2c.c`, `ebi_rw.c`.

Every safety property and every refinement that a passing run checks is a theorem. What would go on from there: a
bound on the lateness of a task that is outranked, from a bound on how long those above it run.

## 7. Not modelled

* `slipif_poll` and the functions of `SLIP_RX_FROM_ISR`: not called, or not built, here.
* `sio_send`: a busy wait on one register.
* The pool of messages of `tcpip_inpkt`: when it is empty the packet is refused as with a full
  mailbox, and `Input` stands for both.
* The branch of `lwip_netconn_do_close_internal` that gives up on an error other than lack of memory.
* In `Telnet` the server hands its input to the console in one step, where `recymeMas` may wait;
  `Console` has that wait, with one key per call, as the firmware passes one byte.
* `hist_save_line` writes the header of the first line twice, at `begin` and at `end`, which are
  one place then; the model writes it once.
* TCP itself: retransmission, windows, segments. The API sees it by its callbacks only, so
  the reuse of a ring byte before it is acknowledged is a listed hazard without a property.
* `setConsolePrompt` and the login, which `USE_ACCEST` leaves out; `aboutTask`, which prints
  what the kernel tells of the tasks; the conversions of `xvprintf`.
* The vendored heap, timers, mutexes, notifications and port. Of the scheduler `RtosQueue` has what a
  queue needs; the other modules take the priorities, and that the highest ready task runs.
* HTTP, SNMP and iperf in the tcpip thread; drivers, DSP library; the second telnet server
  `src/TelNet`, which is not built; the serial console of `USE_CONSOLE`, which is off.

Nearly all lines of the repository are vendored and unchanged: of about 350 thousand the
firmware's own code is some seven thousand, and of lwIP and FreeRTOS what is modelled is
what that code leans on. The share of all lines that the modules stand for is small for
that reason, and would stay so.
