# A verification project for Kokkos Tools

TLA+ models of the tools in this repository, TLC runs that check them on small
instances, and TLAPS proofs of the theorems that matter most.  `PROJECT.json`
maps every definition to the lines it models and lists the runs, the mutants
that show each property can fail, the findings, the hazards and the theorems.

## 1. The system

Kokkos Tools are shared libraries.  The Kokkos runtime (another repository)
loads the first library of `KOKKOS_TOOLS_LIBS` and calls its `kokkosp_*`
functions: initialisation and finalisation, the begin and the end of every
kernel (`parallel_for`, `_scan`, `_reduce`), regions that are pushed and popped,
profile sections that start and stop, deep copies, allocations, fences.  A kernel
has a number, which the tool chooses at the begin and gets back at the end; so
has a fence and a section.  Regions and copies have none.

A tool keeps its state in static variables without locks (memory-events and
memory-usage excepted), so it relies on callbacks that do not run at the same
time.  *Which* callback comes next is not restricted: kernels are asynchronous
and nested dispatch is possible, so two kernels may overlap and end in any order.

| component | state | operations | interaction | what is hard | module |
|---|---|---|---|---|---|
| kernel sampler (`src/common/kokkos-sampler`) | own counter, map own number -> child's number, counters per kind, settings | init, interface, 3 begins, 3 ends, finalize | loads a child tool and calls it; fences through the runtime | overlap, child without some symbols, edges of the percentage and the period | `Sampler` |
| kernel filter (`src/common/kernel-filter`) | patterns, own counter, set of the child's numbers in flight | init, 3 begins, 3 ends, finalize | loads a child tool and calls it | two number ranges, finalisation with kernels in flight | `KernelFilter` |
| space-time stack, time (`src/profiling/space-time-stack`) | tree of frames, current frame | init, kernels, regions, copies, finalize | host; report | ends that do not nest, a pop too many, nested kernels | `StackTree`, `SpaceTimeStack` |
| space-time stack, memory | account and snapshot per space | allocate, deallocate | host; points at frames of the time half | unseen memory, reused addresses, shared spaces, the frame at the time | `SpaceTimeMemory`, `SpaceTimeTool` |
| space-time stack, reduction | a tree per rank, queue, children to broadcast | `reduce_over_mpi` twice | collectives of all ranks | ranks with different trees must make the same collectives | `MpiReduce` |
| space-time stack, memory report; memory-hwm-mpi | mark per rank and space, mark of the process | `Allocations::print`, `print_process_hwm` | reductions, messages to rank 0 | ties, rank 0 sending to itself, ranks running ahead | `HwmReport` |
| simple kernel timer (`src/profiling/simple-kernel-timer`) | entry per name, pointer to the last kernel's entry, array of open regions | init, kernels, regions, finalize | host; table, JSON or binary file | overlap, shared names, pops too many, array bound | `KernelTimer` |
| readers of the timer's files (`kp_reader`, `kp_json_writer`) | merged entries, totals | open a file, read a record, print | binary files of any number of processes | names that demangle alike, a kernel here and a region there, empty names | `KernelReader` |
| memory-events, memory-usage | size per space, its changes, list of events, mutex | allocate, deallocate, regions, finalize | threads; files | threads at the same time, 16 spaces, memory not seen | `MemoryEvents` |
| PAPI connector | stack of names per kind, stack of regions, map of sections | kernels, regions, sections, copies | PAPI regions by name | ends without names, sections that do not nest | `PapiConnector` |
| NVTX, ROCTX and Perfetto connectors | sections and their ids | kernels, regions, copies, fences, sections | a stack of ranges and ranges by id | one stack for everything, ids that outlive their range | `RangeConnectors` |
| Chrome tracing | stack of frames, records | kernels, regions, copies, finalize | a trace file | ends without names | `ChromeTracing` |
| focused NVTX, focused VTune, VTune connectors | domains, the current kernel | kernels | the profiler, started and paused | one current kernel for all | `FocusedConnectors` |
| kernel logger | counter, stack of regions | kernels, fences, regions | lines | one counter for everything, the tool's own fences | `KernelLogger` |
| Variorum connector | two readings, a file name | kernels, `variorum_call` | Variorum | 0 as "no reading", power without a time, overlap | `Variorum` |
| tool registry (`src/profiling/all`) | event sets by name | `get_event_set` | chooses one of the connectors | names a build does not have, an event set without init | `ToolRegistry` |

Not modelled, and why, is section 6.

The correctness of each component in a sentence: the *sampler* tells its child
about a kernel's end exactly if it told it about the begin, and samples as often
as it was set to; the *filter* never tells its child about a kernel that it held
back; the *time tree* reports what the host did or refuses to report; the
*account* is what the host holds, and its snapshot is of the peak and names the
frames the host was in; the *reduction* gives every rank the union of the trees and
never hangs; the *memory report* prints the text of one rank with the most
memory; the *timer* has the time and the calls of every name, and its *readers*
lose none of them; the *memory tools* act as if callbacks came one at a time; each
*connector* tells its profiler, or writes, what the host did.

## 2. How the project is built, and what is left

1. **Wrappers**: `Libraries`, `Maps`, `Sampler`, `KernelFilter`, each shown to
   implement `Wrapper`; proofs in `SamplerProofs`, `KernelFilterProofs`.
2. **Space-time stack**: `StackTree`, `SpaceTimeStack`, `SpaceTimeMemory`, composed
   in `SpaceTimeTool`; `MpiReduce` and `HwmReport` for its communication; proofs in
   `SpaceTimeProofs`, `MpiReduceProofs` and, of the memory report, `ReportProofs`.
3. **Timer**: `KernelTimer`, composed with its readers in `KernelReader`; proofs in
   `ReportProofs` too.
4. **Memory tools**: `MemoryEvents`, shown to implement `MemoryAccount`; proofs in
   `MemoryEventsProofs`.
5. **Connectors**: `HostTrace` is the host, on which `PapiConnector`,
   `RangeConnectors`, `ChromeTracing`, `FocusedConnectors`, `KernelLogger` and
   `Variorum` are built; `ToolRegistry` composes them: a host with any one of them.
   Proofs in `ConnectorProofs`.

`DataFacts` has the lemmas about sequences, sets and sums that these proofs share.

Worth doing next: an abstract `TreeUnion`, all ranks taking the union of their trees in
one step, that `MpiReduce` would implement; and a host whose threads launch kernels at
the same time, for the tools that do not lock.

## 3. The modules

Common abstractions.  The host is part of each module: `live`, `running`, `open`,
`held`, `memory` record what it has begun or owns, and every property compares the
tool with that record.  The three kinds of kernels have handlers that differ in
names only; an action takes the kind as parameter.  Names, labels and texts are
model values.  Printing is left out where it does not change state.

**`Libraries`** - `KOKKOS_TOOLS_LIBS`, its deprecated fallback, the choice of the
next library by `strtok`, `dlopen` and `dlsym`: the same code in the sampler and the
filter.  A library is the set of the symbols it exports.

**`Maps`** - `insert`, assignment and `erase` of a map; `SumOver`, the sum of a map's
values over a set of its keys.

**`Wrapper`** - the abstract specification of a tool that passes kernels on to
another one: of each kernel the wrapped tool hears at its begin or never, and of the
end of exactly those it heard of.  Kernels are identified here, not numbered.
`Sampler` and `KernelFilter` instantiate it as `WrapsChild`; the child's `told` set
is mapped from its open numbers and from the host's record of who got which.

**`Sampler`** - one action for initialisation, one for its exits, one for
`kokkosp_provide_tool_programming_interface`, three for a begin (skipped, drawn,
modulo zero), two for an end (forwarded, ignored), one for finalisation.  `rand()`
is any number of `0 .. RandMax`; the percentage is an integer.  A skip rate of -1
makes the period zero: the modulo traps, or, where the processor does not, yields
the invocation number itself.  A fence the runtime did not provide aborts in the
middle of a forwarded call.  The child is any tool that numbers what it is given
from 0 on; `childStray` counts the ends it could not attribute.

**`KernelFilter`** - patterns are sets of names.  Initialisation that stops the
process (unreadable file, malformed pattern, no library variable) is
distinguished from a child that is missing, which is accepted.  Callbacks still
come after finalisation, as the comment at lines 199-201 foresees.  `live` keeps,
besides the number, who handed it out; the tool does not know that.

**`StackTree`, `SpaceTimeStack`** - a `StackNode*` is the path of its frames, so a
kernel's number, the address of its node, is a path as well.  `Begin` is one of
the eight begin callbacks, `EndKernel` the three ends with a number, `EndUnnumbered`
and `PopUnmatched` those without.  A null `stack_frame` that is used ends the
process (`crashed`), the tests of `end_kernel`, `~State` and `get_space` abort it.
`FinalizeLibrary` is `~State` in one process: the root ends, `adopt`, `invert`, or
the JSON exit before `invert`.

**`SpaceTimeMemory`, `SpaceTimeTool`** - the account of every space, and its
composition with the time half: one tool, one host, one `stack_frame`.  An
allocation notes the tool's innermost frame (`FrameNoted`), null or not; the host
knows the frame it was in (`HostFrame`).  Memory from before the tool
(`AllocateBefore`) is freed under it, and `deallocate` only then uses the frame, for
its warning.  Handles are Kokkos spaces, several of which share a space of the tool,
and one of which (`HBW`) it does not recognise.

**`MpiReduce`** - one action per collective call or return of `reduce_over_mpi`.
Four reductions of a node are one, three broadcasts of a child are one: they are
unconditional neighbours.  A tree (`IsTree`) has finitely many nodes, and with a
node its parent; frames are numbers, whose order is that of the `std::set` that is
broadcast (`Ascending`).  `calls` is all that MPI knows: the n-th collective of a
rank meets the n-th of the others; a broadcast returns when its root has
entered it, a reduction when all have.  `reduced` is the merged tree, sums and maxima, as the
first reduction leaves it.  `Invert` is `~State` going on to the inverse.

**`HwmReport`** - `Dance` is the order in which ranks send and receive; a rank
takes the steps that are its own.  A send returns when it is received
(`FinishSend`) or earlier (`FinishEagerSend`, not fair): MPI need not buffer.
After the spaces come the three reductions of `print_process_hwm`, which is also
all that memory-hwm-mpi does at finalisation.

**`KernelTimer`** - entries are named, so `currentEntry` and `regions` hold names.
`tangled` are the names whose intervals overlapped in a way one timer per name, or
one current entry, cannot tell apart.  A push beyond the array ends the run.  The
two environment variables choose the suffix of the file and its contents
separately (`Suffix`, `Form`): with both set, binary data is in a `.json` file.

**`KernelReader`** - extends `KernelTimer`.  Processes run under the timer one after
another, since they share nothing; `files` are the `.dat` files, `truths` what their
processes really did.  The readers differ in the report only, so one `PrintReport`
has the form as parameter.  `Demangled` is any function of the
names that leaves no kernel without one.  The sum of
squares (`timeSq`) is left out: the merge does not keep it a sum over all files
(`addTime` squares the sum), but nothing prints it.

**`MemoryEvents`** - both memory tools, `tool` says which.  A callback is five steps:
`Enter` (the host calls), `Lock` (the guard, then the timer), `FindSpace` (the loop over
the names), `Account` (a new entry, the size, its line), `Record` (the event, and the
guard's end).  Between them any other thread may step: only the mutex keeps it out.
A region is locked and recorded.  The host reports memory after `malloc` and
before `free`, so two threads never report one address at once.  `Finalize`
writes a file per space.

**`MemoryAccount`** - the abstract specification: a map from names to bytes, their
peaks, a log, and callbacks that take effect at one moment between start and
return.  No locks, no tables, no indices.  `MemoryEvents` implements it as
`OneAtATime`: the effect is `Account` for memory and `Lock` for a region.

**`HostTrace`** - the host of the connectors: blocks that begin and end, mostly
nested (kernels of one kind, regions and copies end innermost first among
themselves), with `slips` for what is not: a pop too many, kernels within
kernels, blocks that overlap, sections, sections started again.  Properties state
which slips they tolerate.

**`PapiConnector`** - PAPI is the bag of its open regions and a count of ends it
rejects.  A section's number is any value: `*sec_id` is read and never set.

**`RangeConnectors`** - a profiler with a stack of pushed ranges and a map of started
ones.  NVTX leaves fences of the tools themselves out and gives them the largest
number, whose end ends nothing; ROCTX does not filter; Perfetto has copies and neither
fences nor sections.

**`ChromeTracing`**, **`FocusedConnectors`** (three tools), **`KernelLogger`** - as in
the table of section 1.  A kernel that ends while the current one is null crashes the
process.  Allocations and copies only write a line in the logger and are left out.

**`Variorum`** - `variorum_call` is one function for begins and ends, which goes by
which of its variables are 0.  A reading may have no socket, no GPU, no timestamp, or a
power of 0; a missing timestamp is stored as 0 beside its power (lines 92-97).  `missed`
and `untimed` are history variables: that a power did not count, and which records
have a power whose time was missing.

**`ToolRegistry`** - `EventSetFound` is the lookup of a tool by name.  A process has one
tool, loaded as a library or through its event set, and every callback of the host
goes to that tool (`Papi`, `Ranges`, ... say which and leave the others unchanged).  It
can end in a callback: Variorum exits when the power cannot be read, Chrome tracing
aborts on a space it does not know.

## 4. The runs

Every state machine has an `MC` module that extends it with the instances for TLC.
`MCToolRegistry` also narrows the host for one run: `NestingSpec` is `RegistrySpec` with sections
that have numbers of their own and end innermost first, as regions do.

| run | question | bounds, and why they are enough |
|---|---|---|
| `sampler` | is every forwarded end for a kernel the child has open, with the promised rate and fences, and is the whole a `Wrapper`? | 4 kernels: three in flight plus one that comes later; `RandMax` 2 has the draws 0, inside, top; skip 0, 1, 2, -1, -2 and percentages below, in, above the range; children with all symbols, without ends, without begins, not loadable |
| `kernel_filter` | does the child get the ends of what it was given, does the set of active numbers drain, is finalisation final, is the whole a `Wrapper`? | 4 kernels, up to 3 in flight, two names; every kind of filter file and every way a child can be missing; the child numbers from 4, beyond every number of the filter's own, so this run is under the second disjunct of `NoCollision` (the proof covers the first, one kernel at a time, too) |
| `space_time_tool` | is every report true, of time, calls and memory, bottom-up too, and does the snapshot name the right frames? | 4 begins, 3 allocations, 3 clock readings; frames and allocations together at most 3 (`MaxMixed`): an allocation in a frame, in a frame after a pop under a kernel, and one in each of two frames.  Alone, frames nest to depth 4 and allocations are 3 at 3 addresses (interchangeable) with sizes 0, 1, 2: reuse of an address, equal peaks.  Time stands still after the first allocation, since the memory half reads no clock |
| `mpi_reduce` | do the ranks agree, on the sum and the maximum of every node, and come out? | 3 ranks, so that the next broadcasting rank is a choice and a child can be held by one, two or all; any of 6 trees per rank: all of two frames and depth one, and two of depth two, in which a frame is below its sibling only or below both |
| `hwm_report` | who prints what, and does it end? | 3 ranks (printing rank 0, another, a third idle), 2 spaces, 3 marks: all ties; process marks all different with an average that is not whole |
| `kernel_timer` | are the times and calls exact, the summary of one process right, and that of the merged files? | 3 begins over all processes, 2 in flight, 2 region slots (512 in the code), so that the third push overruns; 3 clock readings, so that an interval can start and end away from the start of the process; 2 files; a kernel by its mangled and its plain name, a region of that name, a region without a name |
| `memory_events` | are the tables, the log, the files and the account those of callbacks that come one at a time, and does every callback return? | 2 threads, 2 spaces, 2 addresses, sizes 1 and 2, 4 callbacks: two threads are the first to use one space, or two; memory is allocated, freed and its address used again in the other space; memory from before the tool is freed; 2 entries for 2 spaces, so that one entry too many overruns |
| `connectors` | does each of the nine connectors tell its profiler, or write, what the host did? | 4 begins, 2 interchangeable names, 2 kinds of kernels (the third has the same handlers), 2 section numbers, powers 0 and 1: kernels within kernels, blocks that cross, sections that overlap and are restarted, a pop too many, readings without power, timestamp or socket |

Four runs expect a violation, each of something the repository itself says:

| run | what the code does |
|---|---|
| `filter_collide` | with two kernels in flight the child is told that a running kernel is completed |
| `space_time_nested` | a kernel in a kernel counts twice in the percentage of time in Kokkos |
| `mpi_inverse` | the bottom-up tree is summed over the ranks twice, so its averages are `comm_size` times too large |
| `papi_sections` | stopping a section pushes its name again instead of taking it away, so the next pop of a region ends the section a second time and leaves the region open |

Other limits of the code are in the hypotheses of properties that hold.
- At 100 percent a draw of exactly `RAND_MAX` is not sampled: `PeriodicSampling`
  counts these draws in `topDraws`.
- A region that has the name of a kernel shares its entry, under the type of
  whichever came first: `SummariesTrue` is stated for disjoint names.
- Memory that the memory tools did not see allocated may hide a release:
  `UsageIsTrue` holds until such memory is freed.
- A section that is started while it runs loses its first range:
  `RangesFollowHost` leaves it out.  Kernels within kernels leave the focused
  connectors without a current kernel, and pair Variorum's readings wrongly:
  `FocusIsTrue` and `EnergyOfKernel` are for kernels that do not nest, `EnergyOnce`
  for all.
- A missing power, or one of 0, shifts Variorum's pairs for good: `EnergyOfKernel` holds
  until the first.  A power without a timestamp stores the time 0 beside it: at the
  first of a pair the next reading fills the first time, at the second the second time
  stays 0; unless a reading without a power left a time behind, the record ends at 0, with
  an energy of 0 or less.  `EnergyOnce` allows that only for a record one of whose own
  powers had no time, and says that the periods of all others stay apart.
  Variorum's event set has no init, so its records go nowhere: the property is for the
  library.

`papi_sections` runs under `NestingSpec`, so that nothing but line 169 of the connector is at
fault: the trace is a region pushed, a section started and stopped in it, and the pop
of the region.  With a pop in line 169 instead of the push the run finds no violation.

`mpi_inverse`, `papi_sections`, `mpi_reduce`, `hwm_report`, `memory_events` and `connectors`
do not check deadlock: ranks finish, a finalised tool and a host at its bounds stop.
`Termination` and `CallbacksReturn` say that the ranks and the callbacks come to an end.  The other modules have an explicit `Terminated` step or never stop.

**Fairness.**  Three modules state any.  In the MPI modules every rank keeps running
(weak fairness of `Step(r)`), since the code between two MPI calls is straight-line, and
MPI matches a posted receive with a message that is there (`WF` of `Match`); a
buffered send is not fair.  In `MemoryEvents` a thread in a callback keeps running
(`WF` of `Step(t)`).  `Lock` is enabled only while the mutex is free, so weak fairness
is enough because the callbacks are finitely many: `std::mutex` does not
exclude that one thread starves while others never stop calling, and
`CallbacksReturn` does not say so.  `Enter` is not fair: a host need not call.

## 5. The proofs

Eight modules, for all values of the constants, from the named assumptions of the
modules, which TLC evaluates in the runs.  They say what the code's own types
say (`RAND_MAX` and sizes are naturals, the skip rate is an `int`, a rank's tree is
finite and closed under parents), that a constant which stands for "none" is not one
of the values (`NotSet`, `Idle`, `NoThread`, `NULL`), that there are at most
`MaxSpaces` spaces, and that a program has finitely many names, of which that of a
kernel is not empty.  `NullFrame` is defined so that it is not a path.

*How facts about data are proved.*  What a recursive function computes is proved by
least counterexample: the set of the numbers for which a statement fails has a least
element, or is empty.  `NatInduct`, `SeqInduct` and `FiniteInduct` of `DataFacts` state that
once for sets of numbers, sequences and finite sets.  From them come the lemmas
about `SumOver` (one key more, one less, one value changed, sums that agree, the sum
of equal values), about sequences that an element is appended to or taken out of, and about
sequences of blocks filtered by kind (`Among`).

*Sampler* (`SamplerProofs`).  `TypeCorrect`; `EndsMatch`, `OpenWhileLive`, `NoStale`.
None of the last three is inductive: that an end finds an open kernel needs that no
two samples have the same number of the child (`NumbersDistinct`), which needs that
the child's counter is above all of them (`NumbersBelow`), and that an erased entry
does not reappear (`NothingBefore`, since initialisation sets the counter).  `IInv`
joins these with: a sample in flight is open in the child (`SamplesOpen`), what is
open and can be ended is a sample in flight (`OpenSampled`), entries belong to
kernels in flight (`EntriesLive`), samples are of kinds with a begin symbol
(`SampledKinds`).  `FencesPaired` counts fences against calls, using that every
forwarded end is of an open kernel.  `SamplesByRate` needs that the settings are
those of the environment from initialisation on and that nothing is counted before
(`RateInv`); the step is that `(n + 1) \div p` exceeds `n \div p` exactly when `n + 1` is a
multiple of the period.  `Wraps`: the initial states map to those of `Wrapper`, and
every step to a begin, an end, a crash or a stutter.  It needs one fact more,
`EntriesOfOpen`: every number the child has open is in some entry, and no two kernels
are open under one number.

*Kernel filter* (`KernelFilterProofs`).  `TypeCorrect`; `ActiveDrain` without any
assumption on overlap; `FinalizeFinal`, from the invariant that the child's
functions are known only between initialisation and finalisation (`CalleesKnown`).
`Routed` and `Completed` hold only under `NoCollision`: no overlap, or a child that
numbers from beyond what the filter can reach; `filter_collide` shows that it is
needed.  Their invariant `RInv` bounds the numbers by who handed them out and says
that `activeKernels` is exactly the set of the child's numbers in flight.  `Wraps`
holds under the same assumption, from `TypeOK`, `CalleesKnown`, `RInv` and `OpenKnown`: what
the child has open under a number is the kernel that was given that number.

*Memory tools* (`MemoryEventsProofs`), for any number of threads, spaces,
addresses and callbacks: `TypeCorrect` (no size below zero, never more entries
than `MaxSpaces`), `OneEntryPerSpace`, `FilesInTimeOrder`.  The inductive invariant
`IInv`: the mutex is held by exactly the thread inside (`Exclusion`); what that
thread found in the table is still true when it uses it (`FoundHolds`), from which
`SpacesDistinct` follows for the next entry; and the thread inside has the
latest reading of the timer (`ClockAhead`), from which the order of the lines does.
That the table is large enough is counting (`TableLargeEnough`): distinct names of
a set with at most `MaxSpaces` elements.

`ActsAtomically`: `Spec => OneAtATime`, the refinement of `MemoryAccount`.  `RInv` adds to
`IInv` that entries beyond the table are untouched (`Unused`), that the entries of the
log point into the table (`SpacesKnown`) and that every file has a largest size, not
below the current one (`Marked`).  The hard step is `Account`: a
new entry leaves the entries of the other names where they were (`EntriesAfter`), and
`HighWater` of a track with a line more is the larger of the two (`HighWaterAppend`).

`UsageOfHost`: what is in the table is what the host holds.  The host's memory and
the table never agree while a callback is under way, so the invariant `UInv` is
about *accounted* memory: what the host holds, less what a thread has announced and
`Account` has not added yet, and less what it has subtracted already while the host
still has it.  `Balanced` says that a space's size is the sum over it, and
`Announced` that two callbacks are never about the same address.

*Space-time stack* (`SpaceTimeProofs`), for any frames, spaces and addresses and any
order of callbacks.  `AccountOfSpace`: `AccountIsTrue` is nearly inductive; `AccountInv`
leaves open which frames the account names, since a deallocation finds its
allocation by address and size alone.  `ReportOfTime` and `SnapshotOfPeak` are about a
tool that loses track: after a pop under a kernel its current frame is not the
host's, and it goes on.  `StackUp` distinguishes three cases.  The current frame
is null, and the next callback of the time half stops the process.  Or the tool
is `Derailed`: some kernel in flight is no longer under the current frame, or two
kernels are in one node; then the end of one of them will not be accepted, no frame
that begins can repair that, and finalisation does not come back to the root, so no
report follows.  Or it is `Matched`: host and tool have the same frames open since
the same time, all totals are true, and the account names the host's frames.  Only
the third reaches a report.

`CallsOfKernels`, `InversionOfTimes` and `ToolTypeCorrect` are about the tree itself, and
do not care whether the tool has lost track.  `TreeInv` says that the nodes are finitely many
paths closed under parents, that the calls of all nodes add up to the kernels begun,
and that the children of a node have run no longer than the node, the time since its begin
included while it is current or above the current frame (`Holds` of `RanIn`).  The last
is why `invert` never clips a self time; it is stated only while the current frame is
not null, since with a null frame the tool never reports.  For `adopt`,
whose value at a node is the node's own and the sum over its children's, the sum over all
nodes below is one over levels: every node but the root is the child of one parent
(`SumByKey`).  For `invert` every node spreads its self time over the chain of its
ancestors reversed, of which one has length one (a child of the inverse's root), so the sum over those
is the sum of the self times, which telescopes to the root's total.  `MemoryTyped`
adds that the bytes of a space are the sum of the sizes that the host holds there, from
which no total goes below zero.

*Reduction over MPI* (`MpiReduceProofs`), for any number of ranks, any finite trees
and any speed of the ranks.  `CallsPairUp`: no two ranks are ever at the same place, so
the invariant `MInv` says that there is a *traversal*, a sequence of stages, one per
collective, along which every rank has gone some way (`Follows`).  A stage holds what
all ranks share after that collective (queue, nodes found and visited, who
broadcasts, how many children are left), and `Goes` says which stages may follow it,
given the initial trees.  The difficulty is to show that a rank which makes the next
collective first chooses the stage that all the others will: `LeftIs` computes from the
stage alone which children a rank has left, so all of them compute the same next broadcasting
rank (`LowestIs`), and the children come in the order of the set (`AscendingIs`).
`SumsAllTrees` needs that the traversal misses nothing: every node found is in the
queue or visited, and every child of a visited node is found (`Sound`), so when the
queue is empty every node of every rank was visited, by induction over the length
of its path (`AllFound`); that a node's total is the sum over the ranks, and its maximum
the largest of any rank's, is `MergedTree`.  A rank without the node contributes 0 to both,
which is never above the maximum of a rank that has it (`HighestOfHolders`).  `BottomUpTotals` is about the second round: all ranks start it with the
inverse of the *same* tree, so every total comes out `comm_size` times too large, for
any number of ranks and any trees.  `mpi_inverse` shows the consequence.

*Memory report* (`ReportProofs`), for any number of ranks and spaces.
`ReportsLowest`: a send may return before it is received, so a sender can be spaces
ahead of rank 0, and only the order of messages keeps texts apart from lengths and
spaces from each other.  `HInv` puts the messages of all spaces in one order (`Code`)
and says how far each rank has sent (`SentTo`) and rank 0 has received
(`ReceivedTo`); what is under way from a rank is exactly what lies between, in that
order (`InOrder`).  Which rank sends is agreed on since both reductions of a space have
the same contributions at the same position of every rank's calls (`Counted`, `Valued`),
from which `ReportsProcesses` follows as well.

*Connectors* (`ConnectorProofs`), for any kinds, names and number of blocks, each
under the slips of the host that its property names.  All rest on `HostInv`: the
host's blocks are in the order of their begins, no two alike, and an end takes one
out (`EndsView`: unless they overlap, the last of the kinds that nest).
- `PeriodsSafety` and `KernelEnergy` (Variorum): recorded periods end before the first
  reading that waits, if it has a time, and a pair without a time is noted in `untimed`
  (`PairsOpen`); the reading is of the kernel in flight as long as kernels do not nest
  and no power is missed (`PairsOfKernel`).
- `RecordsNesting` and `TraceWritesWhatEnds` (Chrome tracing): no frame of the stack began while
  a record ran (`NestingInv`), which holds however blocks cross; while they nest the
  stack is the image of the host's blocks (`StackOfHost`).
- `KernelInFocus`: at most one kernel is in flight (`OneKernel`), and domains, range and
  collection are its own or nobody's.
- `LogReadable`: every number is announced once and completed at most once, later,
  and completed unless its block is in flight (`LogOf`).
- `RangesAreTrue`: each fence or section in flight has a handle of its own below the
  counter (`HandlesOf`), found through the section's number; the pushed ranges are as
  many as the blocks that nest, and the same while they do (`PushedInv`).
- `PapiIsTrue`: PAPI's bag counts the blocks in flight by kind and name; each
  stack of names has the names of its kind in flight, so an end
  takes a name that is there (`PapiInv`).

*Timer and its readers* (`ReportProofs`), for any finite sets of kernels and region
names, any processes and files, and any order of the records.  What an entry has is
true only of names that are not tangled, but no call may be lost even then, so
`Accounted` says three things of a map of entries: it has all calls together; those of
a name that is of regions only, under that name; and of a name that is not tangled,
time and calls.  The end of a kernel goes to the entry begun last, and that this is
its own, or both are tangled, is `KernelAlone`; the end of a region goes to the entry in the
innermost slot, whose timer runs since the push unless the name is tangled
(`RegionsApart`).  `Listed` and `Kinds` keep the entries of kernels apart from those of regions for the
summary, and `TimeWithin` bounds the time of kernels that never overlapped by the
begin of the one in flight.  These are `TimerInv`; what a process leaves in a
file is the same predicates again, of its records (`FileTrue`).

The reader's half, `ReaderInv`, does not mention what the processes did: `Merges` says
that the map it has so far is the sum, name by name, of exactly the records read so far
(`ReadOf`), whichever they are, so one lemma (`MergeOne`) is about opening and
reading in any order.  `MergesExactly` exchanges sums: an entry sums records, each record is what
its process spent there, and a process without a record has spent nothing there
(`Listed`).  `LosesNoCall` sums over names first (`SumPairs`, `SumByKey`), where the files
conserve calls even for tangled names; names that demangle to nothing are dropped by
the reader, and are of regions only, whose calls each file has exactly.
`SummariesOfKernels` holds of one process from `Accounted`, `Kinds` and `TimeWithin`,
and of several since the entries the reader calls kernels are those with a kernel of some
process in them (`KernelsMerged`).

*Only model-checked.*  Liveness, `Termination` and `CallbacksReturn`: the prover has no
fairness.  Every other property of a passing run is stated by a theorem.  The runs that expect a
violation show what the code does to one instance; of these only the factor of
`mpi_inverse` has a theorem (`BottomUpTotals`).

## 6. Not modelled

*Components.*  `energy-profiler/daemon`: no build file compiles it, nothing uses it,
and its header names `std::chrono::duration` without arguments, so there is no
program to model.  `memory-hwm`: one `getrusage` call at finalisation.  SystemTap: one
static probe per callback, and two counters nobody reads.  Name demangling: text,
which `KernelReader` takes as a function of names that need not be injective.  Caliper and TiMemory have only
a README here.  `perfetto/` is the vendored library, and almost all of the lines of
the repository: of the connector itself the slices are modelled; starting the
session and reading the trace back are calls of that library.  The examples,
tests and build files have no state of their own.

*Parts of modelled components.*  Data races of unsynchronised statics: callbacks of
one tool are taken one at a time, except in the memory tools, which lock.
Floating point: times are integers, so the rounding that `invert` clips is not there.
`invert` and the reduction also carry the time in Kokkos and the calls; only total
runtimes are followed through them.  The JSON branch of `~State` under MPI, which
skips the second reduction.  Text: layout, JSON trees, the output threshold, and names
that are too long: the memory tools keep 63 characters and an end mark only of
shorter names, and `get_space` compares prefixes.  The resident set that every line of
the memory tools repeats.  Overruns of buffers are the end of a run (`PushOverrun`) or
left out (`lineBuffer`).  Files of the timer that were cut short.  Marks and names of
threads in the range connectors, which change nothing.
