# RO-DOS: TLA+ models, checks and proofs

RO-DOS is a 32-bit protected-mode operating system in C and x86 assembly: one
program, interrupts, and devices that run beside it. This directory holds models
of the parts that keep state, the TLC configurations that check them, and TLAPS
proofs of the safety properties that the runs show to hold, those of the heap
excepted. `PROJECT.json` lists
components, runs, mutants, the map from definitions to source lines, findings,
hazards and theorems.

Run TLC with `tlc -config <cfg> <module>` (the table below pairs them) and the
proofs with `tlapm <module>_proofs.tla` (Console, FileSystem, Gui, Keyboard,
Netstack, Session, Tcp, VirtioNet; FileSystem and Gui take some minutes).

## Inventory

There is one thread: the shell and the command it runs. Everything concurrent is
an interrupt (keyboard, mouse, timer; the PgUp and PgDn handlers run inside the
keyboard interrupt) or a device (the VirtIO network card). Commands that wait
poll the network and the tick counter. What survives a reboot is what the file
commands have written to disk sectors.

| Component | State | Operations | Talks to |
|---|---|---|---|
| File commands (`commands.c`) | `fs_table`, `file_contents`, `user_table`, `current_dir`, disk sectors | MD RD TOUCH DEL CD COPY MOVE NANO CHMOD FORMAT, USERADD USERDEL PASSWD, WGET's save, save, boot | ATA |
| Heap (`memory.asm`) | block headers in memory, free list, two counters | `mem_init` `kmalloc` `kfree` `mem_get_stats` | NANO, WGET, VBE |
| Keyboard (`interrupt.asm`) | modifier flags, key ring | IRQ 1, `getkey_block` | shell, NANO, GUI, scrollback |
| Mouse (`drivers/mouse.c`, `interrupt.asm`) | byte ring, packet, pointer, buttons | IRQ 12, `mouse_init` `mouse_poll` `mouse_set_bounds` | GUI |
| Shell (`shell.c`) | line, position, history, what is shown, cursor column | keys, Enter, arrows, Ctrl+C | keyboard, console, commands |
| Console (`io.asm`, `scrollback.c`) | VGA rows, cursor, scrollback ring, saved screen | `putc` `cls` scroll, PgUp, PgDn | all output, keyboard interrupt |
| TCP (`tcp_ip_stack.c`) | one control block, 16 KB buffer | connect, send, receive, close, `tcp_process` | WGET, IP |
| ARP, IP, DNS, DHCP, interface table | ARP cache, last DNS answer, interface settings | `netif_poll` and what it dispatches to, NETSTART, WGET's resolution | driver |
| VirtIO network (`rust_driver_stubs.c`) | two rings and their buffers | `wifi_driver_init` `wifi_send` `wifi_recv` | device |
| Graphical programs (`gui_apps.c`, `cmd_calc_gui`) | NOTEPAD's rows and cursor, the calculator's display and values, the time read and shown, brush, selection | keys, clicks, start, ESC, close | keyboard, mouse, real-time clock |
| Screen modes (`rust_driver_stubs.c`, `shell.c`) | mode, text screen, copy and flag in low memory | GUITEST, `save_text_screen`, `gui_check_and_restore_screen`, reset | shell, graphical programs |
| Session (`commands.c`) | current user, users, processes, PYTHON's variables | LOGIN LOGOUT USERADD USERDEL PS KILL SUDO PYTHON | shell, `cmd_dispatch` |

What is hard here:

- interrupts between any two steps: a key between the test for an empty ring and
  `hlt`, PgUp in the middle of a scroll, mouse bytes while a packet is assembled;
- rings without a test for being full, indices that wrap, unsigned remainders;
- a save of hundreds of sectors that power loss or an error can cut anywhere;
- contents keyed by a position in a table that other commands shift;
- assembly that takes its argument in a register, called by C that pushes it;
- arrays written past their end: COPY's content slot, WGET's block, a host name;
- a screen kept in low memory over a reset that can come at any moment, and a time
  that is read in three parts while the clock goes on;
- commands that run other commands with a state they put back afterwards;
- answers from the network that are late, repeated or meant for someone else,
  taken by whichever wait polls next;
- waits that must end although nothing answers.

## Modules

Each module says at its head what it abstracts. Names are those of the source
where TLA+ allows it; history variables, which the code does not have, are marked
`history` and only recorded, never read by an action that models code except to
update other history.

- **FileSystem** (`MCFileSystem`). A command changes the tables in one step and
  then starts a save; each write of `fs_save_to_disk` is a step of its own, in
  program order, so that `PowerCycle` and `WriteFails` can come between any two.
  `PowerCycle(bad)` is a reboot whose read of sector `bad` fails. Names are
  sequences of path components, contents are sequences of sector-sized chunks. A
  slot that a boot has loaded has the size of its entry, more than its array holds
  if WGET saved the file. `cmd_copy` copies that many bytes: into the slots behind,
  as modelled, or past the last one. There `overrun` is set and the model stops,
  since any memory may be written from then on.
- **Heap**. Memory is a function from addresses to words, with headers in it;
  `kmalloc` makes the writes the assembly makes, with addresses and sizes modulo
  `Wrap`. It has two arguments, what the caller asks for and `eax`, which is what
  counts: `memory.asm` reads EAX, and the C compiler (no `-mregparm` in the Makefile)
  pushes the argument and leaves in EAX what the code before the call put there.
  `Leftovers` are such values. NANO's `kmalloc(4096)` finds zero or an address on the
  stack. WGET's `kmalloc(1048576)` finds a small number or one just below 2^32. Only
  the back buffer of the VBE driver finds the size itself. For `kfree`, what is in
  EAX (a key, a number of characters) is never a block: nothing is freed, and the
  merging of free blocks is code that never runs. `kmalloc` also saves a value over
  the caller's EDI (`memory.asm:130`), which no caller keeps anything in as it is
  compiled (-O0). `overrun` says that a caller has written past its block or that the
  remainder of a split has wrapped.
- **Keyboard** (`MCKeyboard`), **KeyQueue**. The handler is
  one step (it runs behind an interrupt gate); `getkey_block` is three. `KeyQueue`
  is what the ring promises: each key typed joins a queue at its end, and a put
  beyond its capacity empties the queue. The variable `typed` is a history of the
  key last given to the ring; it ties what is read to what was typed.
- **Mouse** (`MCMouse`). Real bytes, one interrupt each; the start-up dialogue and
  the packet counter are those of the driver.
- **Shell**. Keys change the line buffer, the position and what is shown behind the
  prompt. The screen has rows: output goes on in the next one and scrolls at the
  bottom, but a backspace in the first column does nothing (`io.asm:143`), so of a
  line that has wrapped only the characters in the row of the cursor can be
  rubbed out (`RubbedOut`).
- **Console**. A scroll is: copy the top row into the ring, count it, move the
  rows up one by one, clear the last; PgUp and PgDn may come between any two.
- **Tcp**. One chunk of data per segment and sequence number. The server and the
  network are external; the server's FIN comes with the last chunk or alone.
- **Netstack** (`MCNetstack`). The polling loops share one `netif_poll`. A frame is
  any answer that could still be under way, so loss, delay, repetition and reordering
  need no queue. `Tcp` takes over where Netstack is at `"tcp"`. A host name of 64
  characters or more (`Overlong`) runs on into `last_dns_ip` when it is copied to the
  cache: `Spill` is the address its characters make, and a later comparison reads on
  there (`Continues`).
- **VirtioNet**, **FrameChannel**. Driver and device each see the other's stores in
  program order. `delivered` has one entry for each buffer `wifi_recv` took, "no
  frame" where it found the buffer empty. `FrameChannel` is what the rings are shown
  to implement: an inbox and an outbox of at most QUEUE_SIZE frames, of which a send
  into a full outbox breaks the second until the next start.
- **Gui** (`MCGui`), composed of **Notepad**, **Calculator** and **Clock**. One
  program runs at a time and shares the screen mode, the reset and the start with the
  others. Saving and restoring the text screen are three steps each (screen, cursor,
  flag; the other way round after a reset), and a reset or power loss can come
  between any two. A pass of a program's loop is a key or a look at the mouse.
  `Notepad` keeps rows of characters with their NULs, but not what of them is drawn,
  `Calculator` the display as digits and the values as signed words, `Clock` reads
  one BCD register per step.
- **Session** (`MCSession`). A line is a command behind any number of SUDOs; each
  `cmd_sudo` that switched the user is an entry of `saved_user`, and a command's return
  unwinds it. `MCSession` puts Session, Shell and Heap, which share no state, into
  one instance for TLC.
- **..._proofs**. The theorems about a module, with the inductive invariants and
  lemmas they rest on. `Keyboard_proofs` also proves about Shell, the reader of the
  keys, and `Gui_proofs` about Mouse, which the programs poll; their specifications are
  named `ShellSpec` and `MouseSpec` (and that of Heap `HeapSpec`) so that they can stand
  beside the others.

## Runs

| Run | Module, cfg | Checks | Result |
|---|---|---|---|
| files | MCFileSystem, FileSystem | TypeOK, SavedEntriesSurvive, SavedTablesReload, SavedContentsReload | holds |
| files_del | MCFileSystem, FileSystemDel | DelKeepsOtherContents | violated |
| heap | Heap, HeapSize | BlocksHoldRequests | violated |
| keyboard | MCKeyboard, Keyboard | NoLostWakeup, ImplementsQueue, KeyDelivered | holds |
| keyboard_case | MCKeyboard, KeyboardCase | CaseIsShiftXorCaps | violated |
| mouse | MCMouse, Mouse | MouseTypeOK, InStep | holds |
| console | Console, Console | SavedWhileScrolled, ViewIsHistory | holds |
| tcp | Tcp, Tcp | HasDataAccurate, AckCountsStored, DownloadMatches, WgetReturns | holds |
| netstack | MCNetstack, Netstack | SettingsOffered, NextHopAnnounced, ConnectsOnline, ResolvedToHost, CommandsReturn | holds |
| virtio | VirtioNet, VirtioNet | OwnedOnce, RxInOrder, TxIntact, ImplementsChannel | holds |
| gui | MCGui, Gui | TypeOK, TextReachable, ResultsReadBack, ShowsTheTime, ScreenRestored | holds |
| session | MCSession, Session | SudoScoped, ProcessesStayKilled, LatestValue, ShellTypeOK, LineMatchesScreen, HistoryIsRecent, EnterRunsWhatIsShown, LiveBlocksIntact, StatsAddUp | holds |

Each property is explained where it is defined. Where a run does not list TypeOK,
its first invariant includes it. Every property of a run that
holds has a mutant: a plausible mistake in one definition (`..._short`,
`..._unlocked` and so on, defined just before it) that TLC finds through that
property.

What the runs show beyond their properties:

- **files_del** is violated: DEL moves the table entries behind the deleted file
  and leaves their contents keyed by the old positions.
- **heap** is violated by the first block WGET gets. It asks for 1 MB. With 0xFFFFFF07
  in EAX it gets NULL and gives up; with 8 or 264 it gets a block of that many bytes
  and stores up to 1 MB of the download from there on. STRUCTURE.md says of the
  argument "Number of bytes to allocate". Within the blocks as they are the heap is
  sound (LiveBlocksIntact and StatsAddUp in the run session) until a caller writes
  past its block or `kmalloc` splits a block with no room for a second header: the
  remainder then wraps below zero and is compared unsigned.
- **keyboard_case** is violated by Shift and one letter. The comment says
  "Shift XOR Caps logic for letter casing" (`interrupt.asm:228`). Shift chooses a
  table of capitals, and the handler then swaps the case once more: Shift alone gives
  a small letter, and Caps Lock alone decides.
- **gui**: the only operands that halt the machine are the smallest word and -1.
  -1 is reached by typing 4294967295, the smallest word by typing 2147483648. The
  first frame of CLOCK may show a time put together from two moments; no later one
  does. ESC is no way out of SYSINFOGUI and BROWSER: both compare the scan code,
  which the keyboard handler stores only for arrows. In NOTEPAD the arrows reach all
  that was typed, but it is not seen: `notepad_draw` has room for 13 of 35 rows and 38
  of 90 columns, and `gui_notepad` paints an empty window over them after each key
  (`gui_apps.c:504`).
- **session**: the shell turns a line into capitals, so no line names the user
  `root`; LOGOUT is the way back. A LOGIN behind SUDO is undone when the user was
  not root and stays when it was.

What the properties that hold leave open, because the code has no defence:
`ViewIsHistory` excludes output while the view is scrolled, and the one moment
between the two halves of `scrollback_capture_line`; `DownloadMatches` is about the
first connection on a network without a fault; `AckCountsStored` says of the ACK of a
FIN only that it counts one number more than the bytes stored, which need not have
been the FIN; `ResolvedToHost` names two ways to a wrong address, an answer for
another host and the characters of an overlong name; `LineMatchesScreen` and
`EnterRunsWhatIsShown` compare the whole line with the screen as long as no backspace
in the first column has left a character standing, and the row of the cursor always;
`LiveBlocksIntact` and `StatsAddUp` hold up to an overrun, and the properties of the
files up to a COPY past the last slot; `TxIntact` excludes a send into a full queue;
`InStep` excludes an overflowed ring and an answer after the time-out;
`SavedContentsReload` is about files with one content slot of the entry's size. In
each case the state or a history variable says exactly when the exclusion applies.

### Bounds

Bounds are CONSTANTS named in the modules (`MaxCommands`, `MaxFaults`, `MaxIrqs`,
`MaxReports`, `MaxConnects`, `MaxWire`, `MaxOutput`, `MaxFrames`, `MaxSends`,
`MaxStarts`, `MaxLive`) and set in the cfg files. Sizes are the smallest at which the
case that matters happens: a table one entry larger than what a boot reads, a ring
that wraps and overflows twice, a history one shorter than the commands typed, a
receive buffer that one repeated segment overfills, indices of two bits that wrap, a
cache that more announcements than entries overwrite, two hosts so that an answer can
be for the other one and an overlong one. Two overlong names with the same first 64
characters are left out, and so is what a name of more than 96 characters writes over
the control block, which `tcp_connect` resets. Words of four bits and two typed
digits stand for 32 bits and ten digits: in both a typed number can pass the largest
word several times over, no result has more digits than can be typed, and every sum,
product and quotient wraps the same way. Twelve seconds pass from 9 to 10, where BCD
and binary part, and two minutes and three hours make every carry happen. The file
list has none, three and twelve entries for a window of eight. A PYTHON with room for
two of three names is full with one left over. A line of two characters wraps on a
screen of two rows and three columns, and what `kmalloc` finds in EAX is none, less
than, as much as and far more than a request. In the run session one of Session,
Shell and Heap moves while the other two are in an initial state. Netstack, Heap, Gui
and Session need no bound on steps: their state spaces are finite. The cfg files that
switch the deadlock check off say why: the behaviour ends when a bound is reached.

### Fairness

- Keyboard: weak fairness of the reader's steps only. The processor keeps
  executing `getkey_block`; no key and no timer interrupt is assumed to come.
- Tcp and Netstack: weak fairness of the command. The command keeps running and
  the timer keeps counting, so each wait ends in what it waits for or a time-out.
  Nothing is assumed of servers, the network or the driver.

Clock assumes a bound on speed instead: once the real-time clock has ticked, it does
not tick again before a frame that was begun after that tick is drawn. A frame is a
pass over 320x200 pixels, far shorter than a second. While the program waits and the
second it shows is the one in the register (a tick fell into the first frame, before
its seconds were read), a further tick may come: there is nothing to notice yet.
`ShowsTheTime` says that from the
second frame on the time shown is the current one or the one a tick ago.

## Proofs

The theorems hold for every value of the constants that the modules' named
assumptions allow, where a run has one small value each. Each invariant below was
checked by TLC on the run's instance before it was proved.

**Keyboard_proofs**, from `RingSize`, `ScanBytes`, `PlainTable`, `ShiftTable` and
`IrqBound`:

- TypeCorrect: TypeOK, which NoLostWakeup includes, is inductive.
- WakeupCorrect: NoLostWakeup is not inductive, because an interrupt at "halt" would
  break it. `WakeupInv` adds that interrupts are disabled there (`Masked`), which is
  what `cli` before the test and `sti; hlt` as one step give.
- RingImplementsQueue: the ring refines `KeyQueue`, with the keys between tail and
  head as the queue. `CountValue` and `PosValue` turn the modular arithmetic into
  cases; `StorePuts` and `ReadyGets` show that a store and a read are the abstract
  put and get, the overflow included.
- PromptTypeCorrect, PromptLineCorrect, PromptHistoryCorrect and PromptEnterCorrect
  are about Shell, from its `ShellAssumption`. `PromptInv` adds that the last byte of
  the line stays NUL, so that every line ends, and that no more is remembered than
  was run. Its part `OnScreen` says what of the line is on the screen, whatever has
  scrolled away or been left standing. `RubOut` and `PrintOut` show that erasing and
  printing keep it, `Columns` where the cursor is after printing, modulo the width.
  The screen has any size that a full line fits on.

**Session_proofs**. For SudoCorrect, KillCorrect and VariablesCorrect `SudoInv`
follows a line through its SUDOs: at most one of them saves a user, since the others
find root, and the user it saved is the one that typed the line. `ProcessInv` adds
that the process numbers differ and that an empty table means that nothing was
killed, so filling it brings nothing back.

**FileSystem_proofs** (TypeCorrect, SurviveCorrect, TablesCorrect, ContentsCorrect),
from `FileSystemAssumption`; `StringAssumption` says that the strings "C:" and "root"
are strings, which the prover does not know. A saved entry survives because it is on
the disk at its own position or behind it with no gap before it (`Kept`), and because
a save that has come past a position has written it (`Rewritten`): deleting only moves
entries up, and a save writes from the front. For what a boot reads back, `SaveInv`
says that of the first p writes of a save the last to each sector is on the disk; the
areas of the disk do not overlap, so that only a second slot of the same file could
overwrite a content, and SavedContentsReload leaves such files out. A COPY past the
last slot changes nothing but `overrun`, and nothing follows it (`OverrunKeeps`).

**VirtioNet_proofs** (OwnedCorrect, RxCorrect, TxCorrect, ChannelImplemented), for
every ring size that divides the range of the indices. `RingInv` says that the
offered, filled and taken buffers are QUEUE_SIZE in number and that every buffer is
among them; by counting (`RingInv` is stated with numbers, not sets) each is there
once. `QueueInv` and `TxInv` give the contents of every position of the rings, which
the wrapping of the indices leaves alone because a ring never holds more than
QUEUE_SIZE entries. For ChannelImplemented the histories are what ties the boxes of
two states together: before and after a step, frames returned and frames waiting make
up the frames that came (RxInOrder), and likewise for TxIntact, so a history that
grows by one frame leaves only one way for the box to change (`FirstMoves`,
`LastJoins`, `SameBehind`). The device's store is the abstract arrival, the copy the
receipt; taking, offering and publishing a buffer are not seen at all.

**Tcp_proofs** (DataCorrect, AckCorrect, DownloadCorrect). `Control` is what holds on
any network: the phases of the handshake, and that the download is what `tcp_receive`
has taken. AckCountsStored, with the handshake, is part of it. DownloadCorrect needs
`FirstInOrder` for a network without a fault: the wire holds the answers to SYNs and
requests and then the stream from where the receive buffer ends.

**Netstack_proofs** (SettingsCorrect, NextHopCorrect, OnlineCorrect,
ResolvedCorrect). `CacheAnnounced` and `Resolver` say of every cached entry where it
came from, the address of an overlong name included; `Counted` bounds the counters of
the waits.

**Console_proofs** (SavedCorrect, ViewCorrect). `RingIsHistory` says which line of the
output every line of the scrollback ring is, `LineCopied` and `LiveKept` say the same of
the row being copied and of the screen, set aside or not. The oldest line of a full
ring is excluded while the next is copied over it.

**Gui_proofs**. The programs share only `app`, so each has its own invariant.

- ScreenCorrect: `Saving` and `Restoring` say what each of the three steps of a save or
  a restore has copied, and that the flag is set only over a complete copy.
- TextCorrect, that the arrow keys reach all that was typed: `TextInv` adds that the
  last column is never written, so that every row has a first NUL.
- ClockCorrect: `TickSeen` says that a frame after the first is read with no tick in it,
  `ReadNow` that what has been read since is the current time.
- CalcCorrect: `ParseSteps` and `DecimalIs` give what reading and writing a display do,
  digit by digit; `DecimalReads` shows by induction that the digits of a number below
  the largest word are read back as it, and `WrapDigit` that wrapping at each digit is
  wrapping once. `ReadBack` adds the sign and the smallest word, which has no positive
  counterpart. So a result reads back for every width of a word.
- GuiTypeCorrect: `GuiInv` joins what each program needs of its own: which program has
  the screen, that NOTEPAD's rows keep their ends, that the selection stays in the list
  and in or just behind the window, and that the second CLOCK
  compares with is one it has drawn.
- MouseTypeCorrect and MouseStepCorrect are about Mouse, from its `MouseAssumption`. The
  second is for packets whose first byte has bit 3 set, as PS/2 mice send them
  (`StatusBytes`): the driver drops others. `Unbroken` extends InStep to the start-up
  dialogue: the bytes in the packet, the ring and the mouse, in a row, are the answers
  still awaited and then the packets not taken. `RingStores`, `RingTakes` and
  `HandedOver` show that an interrupt and a poll move one byte along the row.

**Induction.** The digits of a number, and what reading them back gives, are
recursive functions and folds. The library's induction theorems take an operator, which
the provers cannot instantiate, so `Induction` states it for a set of numbers and is
proved from the least number outside the set. To use the definition of a recursive
function, a proof first shows by induction that some function satisfies it
(`FoldExists`, `WritesExists` in `Gui_proofs`); the one that CHOOSE picks then does.

Only model-checked: liveness (`KeyDelivered`, `WgetReturns`, `CommandsReturn`), which
needs fairness and `ENABLED`, out of the prover's reach; and the heap's safety
(`LiveBlocksIntact`, `StatsAddUp`), which rests on walks through links that lie in
the memory the blocks are in.

## Not modelled

The VBE driver and everything the programs draw (pixels; `gui_buffer` is never set,
so the code that saves the pixels under the pointer does not run). `gui_calc`, which
is not in the command table. The FAT12 driver (`filesys.asm`), which the file
commands do not use, and NE2000, which no command starts. Port-level ATA, PIC and
timer code: FileSystem uses what the sector transfers return. The system calls other
than `sys_get_time`: `int 0x80` goes to the exception handler and `syscall_handler`
is never reached. PCI enumeration, commands that only print, and the boot code keep
no state. Functions without a caller (`scrollback_reset`, `scrollback_save_line`,
`icmp_ping`, `mem_validate_heap`) are left out of the modelled components too. The
reasons are in `PROJECT.json`, component by component.

## Plan

Done: the modules, runs and theorems above. Next:

1. Theorems: LiveBlocksIntact, from an invariant that lists the blocks in the order
   of their addresses.
2. Composition: WGET from resolution to the saved file, `Netstack` and `Tcp` over
   `FrameChannel`, and the save of `FileSystem` as its last step.
3. The FAT12 driver (cluster chains as a function) and NE2000's receive ring.
