# A TLA+ verification of nfp-rsp-stub

`nfp-rsp-stub` is a GDB remote stub for the RISC-V cores (RFPCs) of an NFP
network card. A GDB client talks to it over TCP; it drives the cores' debug
module through PCIe. This directory holds TLA+ modules for the parts of it that
keep state, TLC configurations that check them on small instances, and TLAPS
proofs of the central properties for every value of the constants.

Paths below are relative to the repository; `libs/` is `src/libs/`.
`PROJECT.json` says which lines each definition models, which runs there are and
which hazards each property is for.

## The system

```
   GDB  --TCP-->  rsp_server_stub  --calls-->  rfpc_debugger
                    |    |                        |
                    |    +--- mem_access ---+     |   (debug module registers)
                    |                       v     v
   Ctrl-C thread ---+                 cpp_bus  xpb_bus
   (the run flag)                           |     |        explicit_bar
   performance_analyzer, rfpc_trace --------|-----+           |
                                            v     v           v
                                          expansion_bar  --> PCIe BAR, CSRs
                                             |
                                       lock files, shared with other processes
```

| Component | State | Operations | Hard because | Correct when |
|---|---|---|---|---|
| Expansion BARs (`libs/expansion_bar.rs`) | lock file, window, two CSRs per bar, cached CSR words | `new`, `allocate_exp_bar`, `expansion_bar_cfg`, `read`, `write`, `drop` | processes race for bars, panic, are killed between two writes; registers outlive processes; a cache decides whether to write | a bar has one user; every access is translated with that user's configuration; a scan does not end without a bar while there are bars for all |
| Encoding of commands (`expansion_bar.rs`, `cpp_bus.rs`, `xpb_bus.rs`, `mem_access.rs`) | CSR words, map type | `expansion_bar_cfg` and its callers | four overlapping layouts of 48 address bits, window sizes, a debug build that traps underflow | the device decodes what was asked for |
| Debug driver (`libs/rfpc_debugger.rs`) | debug module registers shared by the harts of a group, borrowed a0, a1 and dcsr | halt, resume, registers, memory, step, continue | the hart runs while the driver polls; one set of data registers; a timeout anywhere; `cmderr` is never read | the user's view of each hart is kept; every call ends |
| Breakpoints and memory of the server (`libs/rsp_server_stub.rs`) | breakpoint map, selected core, memory | Z0, z0, M, X, vCont | caches doublewords, neighbours, several cores, padding | memory is the client's text with the breakpoints in it |
| Debugging a program (`rsp_server_stub.rs`, `rfpc_debugger.rs`, `bin/nfp_rsp.rs`) | the breakpoints, the harts that execute the patched memory, the packet under way | vCont with several actions, the 40 seconds of a continue, death and restart of the server | a hart leaves its breakpoint only with it taken out; the table dies with the server and the ebreaks do not; harts stop one after the other | harts execute the client's program; they stop where asked; the prompt comes back, with the program unpatched in memory |
| Registers (`rsp_server_stub.rs`, `libs/rfpc.rs`, `src/data/`) | selected core, hart registers, `cmderr` | g, p, P, core selection by vCont | four numberings of the same registers, read-only ones, thread numbers in two bases | an answer is the register of the target description, of the core the client selected |
| RSP session (`rsp_server_stub.rs`, `bin/nfp_rsp.rs`) | run flag, acknowledgement mode, TCP stream | accept, read, acknowledge, answer, detach, Ctrl-C | a second thread, garbled packets, a client that vanishes, a mode change between request and reply | client and server stay in step; requests are answered; the server ends |
| Explicit BARs (`libs/explicit_bar.rs`) | four CSRs, transfer SRAM | `explicit_bar_cfg`, `run_explicit_cmd` | six separate accesses to shared registers | a command runs as asked on its own data |
| Performance analyzer configuration (`libs/performance_analyzer.rs`, `libs/rfpc_trace.rs`) | local words, registers, the trace registers of a group of cores | `set_*`, `start_pa`, `pa_trigger_on_uncomp_trace` | forty writes, one shared register, registers outlive sessions, groups share one bus | a started session has nothing of an earlier one, and its group traces the core it was asked for |
| Trace FIFO (`performance_analyzer.rs`, `libs/rfpc_trace.rs`) | FIFO pointers, trigger, the words earlier sessions left | `read_trace`, `read_fifo`, `trigger_*` | the analyzer captures between any two reads | samples are in order; no read beyond the FIFO; the trace ends |
| Trace table (`libs/rfpc_trace.rs`) | none | `format_uncomp_trace` | words are cut into samples by position alone, over several traces and sessions with other arguments | every number stands under its header |

The `nfp_rsp` binary uses the expansion BARs, the buses, the debug driver and
the server; explicit BARs, the performance analyzer and the trace are offered by
the library only. Not modelled: argument parsing and start-up, and
`exp_bar_config_write_via_snoop`, which nothing calls.

## The modules

Definitions carry the names of the functions they model. A definition whose name
is that of another with a suffix (`TakeBar_Unlocked`) is a slip the code might
have had; it is used by no specification and serves to show that the properties
notice it.

**`ExpansionBar`, `WindowPool`.** A `Handle` is one `ExpansionBar` value. Its
`pc` goes through the lock file scan, the mapping, the two CSR writes and the
access, and each is a step of its own, so that handles in other processes and a
kill may come between any two. `lock` is what the lock files say, `reg` what the
device holds, `cached` is `exp_bar_cached_cfg`. A scan passes a bar that is
locked (`SkipBar`), and also one whose lock file cannot be created or locked for
another reason (`CreateFails`); `unopened` counts for each scan the failures of the
second kind since it began, its own and others' (a history variable). `WindowPool` is what users are
promised, windows with one owner at a time and accesses translated as asked, and
knows nothing of scans, registers or caches; `ImplementsPool` maps the one to
the other.

**`BarConfig`.** `expansion_bar_cfg` bit by bit: a word or address is the set of
the positions of its one bits, and `Move` is a shift and mask. `Configure`
makes the words for all map types from the requests `xpb_bus`, `mem_access`,
`cpp_bus` and `explicit_bar` make; `Decoded` is the device's side.
`ExpansionBar` treats what it makes as opaque register values: the one module is
about when the registers are written, the other about what is in them.

**`RfpcDebugger`.** A function of the driver is a script, a sequence of accesses
to the debug module, composed as the functions call each other. The harts and
the debug module (external) take steps of their own between them: a hart
executes a three-instruction program with an `ebreak`, halts, resumes, runs
commands. `shadow` is what the user of the driver believes of each hart.

**`HartDebug`.** The driver as its users may think of it: a call acts on the one
hart it names, in single steps (a write, a read, a start, a stop, one executed
instruction), and returns when everything it was asked for is done, or fails and
loses at most the registers it had borrowed. No debug module, no program buffer,
no `dcsr`. `RfpcDebugger` maps its state to it (`UserView`: a register that is
borrowed counts with the value the script has saved) and `ImplementsHartDebug`
says that each step of the scripts, of the debug module and of the harts is a step of
`HartDebug` or none.

**`Breakpoints`.** Memories of instruction words, CTM shared by the cores and a
local memory each. Requests are one step each, since the server is one thread and the
cores it works on are halted. `text` is what the client has put in memory
(a history variable), `home` where each breakpoint went, and `strayed` says that
a core was left with breakpoints in its local memory.

**`DebugSession`.** Extends `Breakpoints` with what makes breakpoints matter: harts
that fetch from the patched memory, the server's `cont` (up to its poll loop, and
`halted` after it), `single_step` and `halt` as the actions of one vCont packet, the
panic after 40 seconds, Ctrl-C between packets, and the next server with its empty
table. The client is external and behaves as GDB does: it steps the harts
over the breakpoints they stand on, one at a time (`over`), inserts all breakpoints, resumes, and removes them when the answer
comes; after a restart it halts the harts and loads the program. The server's
`vCont?` answer lists no `C` and `S`, for which GDB resumes with plain `c` and `s`
on the core of the command line: plans of one action are that case. The
calls of the debug driver are single steps here, which `HartDebug` allows
except for the poll of a continue.

**`Registers`.** The requests g, p and P against the names and numbers of the target
description. The arrays of `read_reg` and `write_reg`, the ranges `read_gprs`
walks through and the address tables of `rfpc.rs` are written out, since their
entries are what can be wrong; the core selection of the session is
part of every answer. A read-only register that is written makes the program buffer
fail, after which the debug module ignores commands.

**`RspServer`.** The main thread between accepts, reads and handlers; the Ctrl-C
thread; a client that follows the protocol (external); the two directions of
the TCP stream. A command is known by its effect on the session: it is answered,
ends the session, changes the acknowledgement mode, has no handler or panics.

**`ExplicitBar`.** Users write the CSRs of their explicit BAR one by one, fill
the SRAM, trigger and read; the device runs the command that the CSRs hold when
it is triggered.

**`PaConfig`.** One session of the analyzer after another: the local
configuration is built by the `set_` methods and written register by register, in
the order of `apply_configuration`, by a process that may be killed. The methods hand
the analyzer on, so a session may set and start it again. A trace
(`pa_trigger_on_uncomp_trace`) is one chain of them, after which the two registers of
the traced core's group, `lanes` and `control`, are written. Each group has its own
pair, and nothing clears that of another group, which an earlier session may have
enabled. The signals of all groups are ORed onto one bus
(`libs/performance_analyzer.rs:329`), so such a group disturbs the trace: `OneGroupOnBus`
states that there is none, and fails.

**`TraceFifo`.** The loop of `read_trace`, one access a step, against an
analyzer that may capture a word between any two of them. `NewSession` is another
process that sets the analyzer up again, wherever the one before has come to: at its
end, panicked or killed. It leaves the trigger and the FIFO as they are.

**`TraceTable`** extends `TraceFifo` with what a word of the FIFO is, a timestamp or
a word of the performance bus, as `pa_trigger_on_uncomp_trace` sets up its capture,
and with the header and the rows of `format_uncomp_trace`. Words are cut into
samples by their position, and nothing flushes the FIFO, so the table depends on what
every earlier trace left there. `setup` is the arguments of this session; `since` says
which words were put into the FIFO before the analyzer had them, and such a word is
`Foreign`: no number of it may stand in the table. `clean` is the condition of
`CellsUnderTheirHeaders`. It ends when the analyzer is set up with other arguments
while the FIFO holds words, when a trace ends or is killed within a sample, and when
words are dropped or overwritten, and begins again when the analyzer is set up with
nothing in the FIFO. External, and not said in the repository: `SetUp` is the
moment at which all arguments have taken effect, and an analyzer that is set up again
starts with a whole sample.

`MC<Module>` with its configuration files instantiates each for TLC.
`<Module>Proofs` holds the theorems about a module; those about `Breakpoints` are in
`DebugSessionProofs`, those about `TraceFifo` in `TraceTableProofs`, those about
`RspServer` and `Registers`, the two halves of the server, in `ServerProofs`.

## What the runs show

| Run | States | Shows |
|---|---|---|
| `bars_shared` | 26228 | A scanning handle and one built for a given bar over two bars: locks match handles, accesses use their own configuration, the cache is true, users see `WindowPool`. |
| `bars_scan` | 213232 | Three handles scanning for four bars, with symmetry and lock files that cannot be opened: none is told that there are no bars while handles and failed lock files are not more than the bars. |
| `words_release` | 30349 | Sequences of XPB, memory, direct CPP and SRAM accesses: the device decodes the command asked for. |
| `debug_server` | 187812 | Two harts, the calls of the server in any order, harts that may stop answering, and resume late where the driver waits for them to run: every call is the atomic call of `HartDebug` on its hart, step and ebreak flags are cleared, the cause of a halt is what was asked for, no command is given to a running hart, each call ends. |
| `breaks_text` | 262144 | Neighbouring breakpoints in CTM and in local memory, writes, two cores. |
| `debug_session` | 64222 | Two cores executing one program with two neighbouring breakpoints, continues of one and of both, steps, edits, time-outs, Ctrl-C, restarts: the harts execute the program, stop where asked, memory is right at every prompt, and there always is another prompt. |
| `registers` | 13025 | g, p and P of every register of two threads: reads and writes reach the register the target description names and no other. |
| `rsp_session` | 1618 | All kinds of requests, garbled packets, interrupts, closed connections, Ctrl-C. |
| `trace` | 717k | Dropping and journalling analyzers under one session after another, with seven choices of arguments, each ended or killed at any point, their words left in the FIFO. |
| `analyzer_sessions` | 2.58M | Sessions that ask for any units, trace one of two cores of one of two groups, use bad numbers, are killed. |
| `explicit_two` | 1.36M | Two users with different indices, all combinations of data in and out. |
| `words_debug` | | A violation, see below. |

### Bounds, and why they are enough

* `ExpansionBar`: two handles suffice for every pairwise interaction of locks,
  caches and registers, and three for a bar freed behind a scan that others are
  ahead of; with four bars one lock file may fail as well before a scan may run out.
  Two values in each register tell a half-written pair
  from a whole one. The theorems hold for any number.
* `BarConfig`: window sizes below, at and above the 64 KiB that decide where the
  `Fixed` layout puts the address; addresses with bits at both ends of every
  piece it is cut into; islands with the lowest and highest bits set.
* `RfpcDebugger`: a program of three instructions has one before the `ebreak`,
  the `ebreak`, and the branch back; two harts share a debug module; values are
  small and distinct, and `MaxWord` is 31, so that every `dcsr` of the model is a word.
  The memory functions transfer one word: their loops repeat
  the same accesses.
* `Breakpoints`: four words hold two neighbouring CTM breakpoints beside a
  write, and two doublewords of local memory. All texts over two instruction
  words are initial states. States after a core was left with breakpoints set
  are cut off (`NotStrayed`): nothing is claimed there.
* `DebugSession`: four words with a branch at the end, breakpoints on two
  neighbouring words that share a doubleword, two cores, plans that step one,
  continue one and continue both. A program that never reaches a breakpoint is
  among the texts, since the client edits it. Time is not counted: a time-out
  may come at any moment of a poll.
* `Registers`: a word has two bytes instead of eight, enough for values that
  differ in each byte. `Contents` is what the registers hold at first: in the run
  numbers that differ from register to register and from core to core, so that a value
  names its register; written are registers at the ends of the tables; the core of the
  command line is in another cluster than the two threads. `MaxWrites` bounds the writes; reads are not bounded.
* `RspServer` needs no bound: the protocol keeps the streams short, which
  `TypeOK` states.
* `TraceFifo`, `TraceTable`: a FIFO of four words, twelve words captured, samples of
  two and four words, traces of none, two, four and five words: enough to fill,
  overflow, empty and refill it, over several traces and sessions, with traces that end
  within a sample and leftovers of other arguments. `MaxWords` bounds
  the capturing; the pointers do not wrap within it (they do in
  `MCTraceTable_wrap.cfg`).
* `PaConfig` has one setting beside the unset word, two mask/compare units, one
  unit of each other kind, and two groups of two cores, with symmetry among groups and
  among cores: units of a kind differ only in
  their number. `ExplicitBar` has two users; neither ever touches more than
  its own index.

### Fairness

* `RspServer`: the main thread keeps running unless it is blocked in `accept` or
  `read` (weak fairness of `Server`). The client takes in what it is sent, and
  when it is asked again and again to resend a packet, one copy arrives whole
  (strong fairness of that step). Nothing makes a client send, connect or close,
  or the user press Ctrl-C.
* `RfpcDebugger`: the driver is one thread that keeps running and whose clock
  advances, so a wait that is not answered times out. The harts owe nothing:
  `CallsEnd` holds although they may stop for good.
* `DebugSession`: the server's thread runs (weak fairness of `Serve`), and the client
  goes on with what its user has asked for, which includes starting the server again and
  loading the program (weak fairness of `React`). The harts owe nothing: one that
  never halts is met by the time-out. A user who presses Ctrl-C for ever is excluded in
  `BackAtPrompt` itself.
* `TraceFifo`, `TraceTable` (`TableFairSpec`): the reader keeps running within a trace;
  the analyzer need not capture, and no one need ask for a trace or another session.

## What is proved

For every value of the constants that satisfies the named `ASSUME`s of the modules.

*`ExpansionBarProofs`.* From finitely many handles, at least one bar and the
enable bit (no configuration has register 0 equal to zero):

* `TypeCorrect`, `BarsAreExclusive`, `AccessesAreTranslatedRight`, `CacheIsTrue`
  from one inductive invariant `IInv`. The properties are not inductive by
  themselves: `HalfWritten` says that after the first CSR write the register
  already holds the new word, so the second completes the pair, and `Forgotten`
  that handles that are gone keep nothing. The enable bit is needed
  because a zero cache must never equal a configuration, or a new owner would
  skip its first write.
* `ScanNeverExhausted`: the lock files are tried one by one while bars are
  taken and freed behind the scan, and still a handle never runs past the last
  bar unless the handles, together with the lock files that failed to open since its
  scan began (`unopened`), are more than the bars; all handles allocate by the scan
  (`Named = {}`). The failed lock files must be counted: `acquire_lock_file` answers them
  with the same `Err` as a locked bar, so free bars are passed. The argument is a count:
  `ThinningInv` says of a handle that scans at bar `b` that, for every `k` up to `b`,
  at most `Cardinality(Handle) + unopened - k - 1` others are at or above bar `k`. A
  handle only moves up past a bar that is locked by another one at that place, or
  past one of the failures that are counted.
* `PoolRefinement`: `Spec => ImplementsPool`, step by step, from `IInv`.

*`BarConfigProofs`.* For every window size, every island and every 48-bit address
(base addresses and offsets are sets of bits, so nothing is enumerated): `TypeCorrect`;
`DeviceDecodes` (`DeviceDecodesRequest`), that the device makes of the two words and the
offset the command that was asked for, after any sequence of earlier accesses; and
`AllAddressesServed` (`EveryAddressServed`), that a window of at least 64 KiB refuses no
address. `InMove` says which bits a shift-and-mask has, from which `InWord0` and
`InWord1` list the bits of the words; the fields of a layout do not overlap, so each is
extracted as it was put in (`FieldsDecoded`), and the pieces of the address
are joined to what they were cut from (`AddressDecoded`). The invariant is that
the registers hold the words of the last accepted access, and that the cache is
empty or holds them too, which is why an access that skips the writes is decoded right.
`AllAddressesServed` has the hypothesis `~DebugBuild`, without which it is false
(`words_debug`).

*`RfpcDebuggerProofs`.* For any harts, program and sequence of calls:
`TypeCorrect`, `NoCommandFailsHolds` (`NoCommandFails`), `CausesAreRight`
(`CauseIsRight`) and `Refinement`, `Spec => ImplementsHartDebug`.

* The invariant `IInv` must say, for each place in each script, what the script has
  achieved so far, while the command it has started may or may not have been executed.
  So it speaks of the target and of `data0`/`data1` as they are once the command
  under way has been executed (`Eff`, `Data`): `Done` is what the script has read, written
  and saved by then. Executing a command changes none of these. `InPhase` says
  whether the target is held, has been asked to halt, is being let go, or is away
  running; `Left` how the other harts were left; `Requests` that a `haltreq` still in
  `dmcontrol`, where it stays until the next write, stops no hart but the one being
  halted; `Pending` that a command is under way only while its script
  waits for it.
* The refinement takes each step of `Next` in turn. `SavedWhere` says where a script
  holds a borrowed register's value, `TargetView` that the user's view of the target
  therefore stays, and `Commanded` at which command the view changes, which is the one
  step of `HartDebug`. The harts' own steps map to a stop, a start or an executed
  instruction.
* `OpAssumption` is what the server does: users leave `dcsr` to the driver
  and set `dpc` to addresses of the program.
* The four theorems hold whatever calls resume late (`LateCalls`), under one
  hypothesis, `[][~OldHaltTaken]_vars`: no poll for the halt after a step or a continue is
  answered by the halt of before it. The driver ignores the acknowledgement of a resume
  (`libs/rfpc_debugger.rs:249`), so without the hypothesis `NoCommandFails` and
  `CauseIsRight` are false: the poll ends at once, the cause checked is the old one, and
  commands go to a hart that leaves debug mode. `HaltsAreNew` discharges the hypothesis
  when late resumes happen only in calls that wait until the hart runs
  (`LateWhereWaited`), which is the case of the run.

*`DebugSessionProofs`.* First the table of `Breakpoints`, from the sizes and
distinctness of the constants: `TableTypeCorrect`, and `PatchesAreExact`
(`MemoryIsPatchedText`), that for requests that touch no common words (`Separate`) and a
client that clears the breakpoints in a core's local memory before it selects
another core, every breakpoint set is in memory and the rest of memory is the client's
text. The invariant adds `CachedText`, that what is cached of a breakpoint is the
client's text at the place it was set, which is what makes clearing it right.

Then the session, for every number of cores, program, set of breakpoints on different
words of CTM and sequence of requests, deaths and restarts: `SessionTypeCorrect`, and for
a client that loads its program after a restart (`ASSUME Reloads`; without it
`MCDebugSession_noload.cfg` fails)

* `PromptMemoryHolds` (`PromptMemory`): at the prompt memory is the program. `IInv`
  says for each phase of the client which breakpoints can be set: none at the prompt
  and while stepping over, those the user wants later on.
* `StopsWhereAsked` (`StopsAsAsked`): the harts that were continued stand on
  breakpoints when the client is told so. `Control` ties the packet the server handles
  to what the client is about; `Stands` says that only the hart being polled runs, with
  `ebreak` entering debug mode, that the continues already done have ended on a
  breakpoint, and that the steps still to be done start where no breakpoint is, which
  is why the client steps over the breakpoints first.
* `TextIsExecuted` (`ExecutesText`), an action property: a hart executes the
  client's word at its `pc` and never an `ebreak` in its place.

`PlanAssumption` is that a plan is made of continues and steps, at most one per core.

*`ServerProofs`.* Of the session, `StaysInStep` (`InStep`), `ModesAgree` (`AckModesAgree`) and
`TypeCorrect`, from no assumption beyond the modules' own. Neither property is
inductive: what makes them so is `Situation`, a list of the places the outstanding
request can be (on its way, handled, refused, answered, ignored by a server
that died or by `k`), each with the contents of both streams, where the server's
thread is and what both sides believe of acknowledgements.
The only place where they may disagree is while the answer to `QStartNoAckMode` is
on its way.

Of the requests for registers, `RegistersReadRight` (`AnswersAsDescribed`),
`RegistersWrittenRight` (`WriteReaches`), `OnlyNamedRegisterChanges` (`OnlyNamedChanges`)
and `RegTypeCorrect`, for whatever the registers hold and every value written. They rest
on three lemmas about the tables: `TablesAgree` (the arrays of p and of P are the target
description's, number by number), `OrderAgrees` (the nine ranges `read_gprs` walks
through are the description's 58 registers in its order) and `SentRight` with
`ReceivedRight` (a word crosses the two byte orders unchanged). The invariant: the server
works on the core the client has selected (`Selected`) and no debug module reports an
error (`Working`). It needs two hypotheses the code does not ensure, each with a
configuration that shows what happens without it: `ThreadsAgree`, that thread numbers are
below 16, where decimal and hexadecimal agree or the server panics
(`MCRegisters_threads.cfg`; `RegTypeCorrect` does without), and `Writable`, that no
read-only CSR is written (`MCRegisters_readme.cfg`; `OnlyNamedRegisterChanges` does
without).

*`ExplicitBarProofs`.* `CommandsAreOwn`, `DataIsOwn` and `TypeCorrect` for any
users. Two assumptions of the theorems are what the library leaves to its users or
to the card: `DistinctIndices` (nothing allocates an index) and `WideWindow` (a
BAR of at least 64 KiB, without which `MCExplicitBar_small.cfg` loses address bits). The
invariant says how far the registers hold a user's command (`Written`) and when
the transfer memory holds its data (`Transferred`).

*`PaConfigProofs`.* `StartedAsAsked` (`AppliedAsAsked`) and `TypeCorrect` for any numbers
of units, groups and cores: the analyzer's registers, and those of the traced core's own
group. Of groups that earlier sessions left enabled nothing is claimed. `OrderIsComplete` shows that the sequence of writes visits every
unit and nothing else; the invariant that what has been written so far is in the
analyzer, but for mask/compare units that a word without a number replaces.

*`TraceTableProofs`.* First the reader of `TraceFifo`: `TracesAreInOrder`,
`NeverReadsBeyond` and `TypeCorrect` for FIFOs and traces of any length, while the
pointers do not wrap (`NoWrap`; beyond it `MCTraceTable_wrap.cfg` fails). The
invariant: a FIFO that has dropped or overwritten words since the last read is full, so
that what the reader takes from the pointers is the level at that moment, which
only it can lower. On top of it, `TablesAreRight` (`CellsUnderTheirHeaders`) for any
FIFO and any sequence of traces and sessions, with the three exceptions that property
names (`clean`), each of which does put numbers under wrong headers:
`MCTraceTable_partial.cfg`. `SetupsMatch` names the arguments whose table can show
what they capture (the other combinations of `bus_words`, `word_index` and `timestamp`
capture something else than the header says: `MCTraceTable_others.cfg`). The invariant:
the samples are the words taken last, they were captured with the arguments of this
session, and the word before the first of them ended a sample.

Only model-checked: the liveness properties (`CallsEnd`, `BackAtPrompt`, `StopsUnlessBlocked`, `RequestsAnswered`, `TraceEnds`),
which need fairness and `ENABLED` and are out of reach of the prover. Every invariant and
action property of a run that passes is a theorem.

## Where the code and its documentation differ

A run of the project, with the details under `findings`: `words_debug`. Any access at an
address below the window size panics in a debug build: the base address is 0 and
`bit_length - 1` underflows (`libs/expansion_bar.rs:281`). The README's own example
`x/4xw 0x1009e00000004`, which reads CTM at address 4, is such an access; TLC's trace
shows one of the CLS target, and the target plays no part in it. In a release build it wraps to a number outside the
range it is tested for, and the address is served: `words_release`.

Further configurations, each of which TLC finds violated; they state what a
reader of the documentation expects and are kept beside the runs:

| Configuration | Property | What the code does |
|---|---|---|
| `MCRfpcDebugger_step.cfg` | `A1Kept` | `rfpc_dbg_write_reg` writes a CSR through a1 and does not restore it, so a single step changes a1 (`libs/rfpc_debugger.rs:429`); `HartDebug` allows it |
| `MCDebugSession_noload.cfg` | `PromptMemory` | a server that panics leaves its ebreaks in memory, and the next one knows nothing of them |
| `MCRegisters_readme.cfg` | `AnswersAsDescribed` | writing `mhartid`, as the repository's README does, makes the program buffer fail; `cmderr` is never cleared and later answers are stale |
| `MCRegisters_threads.cfg` | `AnswersAsDescribed` | thread numbers are read as decimal: the protocol's `10` selects core 10 and not 16 |
| `MCBreakpoints_padding.cfg` | `TextKept` | `memory_write` pads to a multiple of eight bytes with zeros, over what follows in memory (`libs/rsp_server_stub.rs:799`) |
| `MCBreakpoints_neighbours.cfg` | `BreakpointsArmed` | clearing a breakpoint in local memory writes back a doubleword and disarms the one on the next word |
| `MCBreakpoints_othercore.cfg` | `TextKept` | a breakpoint is cleared in the memory of the core selected last, not of the one it was set on |
| `MCRspServer_stop.cfg` | `StopHonoured` | Ctrl-C does not end a server that is blocked in a read |
| `MCRspServer_close.cfg` | `CloseNoticed` | the end of the stream is treated like a bad checksum, and a closed stream is read for ever when acknowledgements are off |
| `MCTraceTable_wrap.cfg` | `NoReadBeyond` | the pointer difference is not taken modulo 2^15; a release build reads an empty FIFO |
| `MCTraceTable_empty.cfg` | `WaitsForSamples` | `read_fifo` panics on an empty FIFO, which `read_trace` may meet before the first sample |
| `MCPaConfig_units.cfg` | `EveryUnitAsAsked` | words of mask/compare units that were not set name unit 0 and overwrite it, after every `pa_trigger_on_uncomp_trace`, which sets four of the sixteen |
| `MCPaConfig_units.cfg`, with TLC's `-continue` | `OneGroupOnBus` | a group that an earlier session enabled stays on the bus beside the traced core's own (`libs/rfpc_trace.rs:165`) |
| `MCTraceTable_partial.cfg` | `EveryTableRight` | a trace that ends within a sample, a word dropped by a full FIFO, or words left by a session with other arguments put numbers of the next table under other headers |
| `MCTraceTable_others.cfg` | `CellsUnderTheirHeaders` | with three bus words the header begins at word 0 whatever `word_index` says (`libs/rfpc_trace.rs:265`); the example of `format_uncomp_trace` (`:238`) prints four headers over rows of three numbers |
| `MCExplicitBar_small.cfg` | `AddressKept` | in a window below 64 KiB address bits are lost: the check counts leading zeros for trailing ones |

## What is not modelled

* The text of packets, the hex of `M`, `X` and `m` with CTM's byte order, the tables
  of `qSupported`, logging: data without control.
* `c addr` and `s addr`, which write `dpc` first; programs in local memory under
  `DebugSession`.
* An access that starts in a window and crosses its end, which panics; the
  missing check on `counters_nonzero_mask`; transition 7, which passes its check and is
  out of bounds (`SetUnit` has the panic): one condition each, with no state.
* The reads of status, timer and counters of the analyzer, single accesses that change
  nothing; the form of the numbers in a table; what `PerfBus32orTs` puts in the FIFO,
  which the repository does not say.
* Byte order and the copying of data through windows; accesses longer than a
  window.
* Two users of one debug module. The repository locks BARs, not debug modules; a
  second user would interleave with any script.
* In the run, harts that still report halted after the resume request of a step or a
  continue. The driver polls for halted without looking at the acknowledgement of
  the resume (`libs/rfpc_debugger.rs:249`), so the answer depends on the timing of
  the hardware, which the repository does not say. `LateCalls` of the run allows the delay
  where the driver waits for running; the theorems allow it everywhere, under the
  hypothesis that no poll takes the old halt, and are false otherwise.
* The addresses of the groups' trace registers. The model gives each group a pair of its
  own, as the macros of `libs/rfpc_trace.rs:12` do (0xE a cluster and 0x100 a group);
  the start-up code has 0xE0000 a cluster and 0x100 a group (`bin/nfp_rsp.rs:80`), the
  unused `group_ctl_xpb_base` 0xE0000 and 0x80 (`libs/rfpc.rs:268`). Which of them the
  device has is not in the repository.
* The exec command with its transfer bit set (`libs/rfpc_debugger.rs:454`) also
  reads register 0 into `data0`; the model has 0 there. No script reads `data0` before
  another command has filled it.
* What a debugger session finds after an earlier one panicked in the middle of a
  script.
* Garbled packets when acknowledgements are off: the protocol has no answer to
  them.

## Plan

Done, with proofs: `ExpansionBar` and `WindowPool`; `BarConfig`; `RfpcDebugger` and
`HartDebug`; `Breakpoints` and the composition `DebugSession`; `RspServer`; `ExplicitBar`;
`PaConfig`; `TraceFifo` with `TraceTable`; `Registers`.

Next, in this order:

1. Prove: the register answers for words of any number of bytes (a theorem about folds
   over bytes, which needs induction).
2. Model: programs in local memory in `DebugSession`; accesses that cross the end of a window.
