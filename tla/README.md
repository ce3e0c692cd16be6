# A TLA+ model of Cheesecloth

Cheesecloth turns a program with a known bug into a zero-knowledge statement
about its execution.  This repository holds the parts that tie the tools
together: the scripts that build the tools and run them, the scripts that run a
prover and a verifier, a TCP proxy that counts the bytes between these two, and
a vendored copy of compiler-rt.  The builtins of compiler-rt are linked into every
program that is proved about; its other libraries are in the tree and switched off
by the build.  MicroRAM, witness-checker, llvm-passes, picolibc and the example
programs are submodules whose source is not in the tree.

The modules here model those parts, TLC checks them on small instances, and
TLAPS proves the main results for every instance.

## Inventory

### Byte-counting proxy (`scripts/proxy.py`)

State: the listening main thread and its list `workers`; per connection two
sockets `k` (client) and `v` (server) and two worker threads; the global counters
`c2s` and `s2c`; the flag `running`.

Operations: `doProxyMain` (listen, accept, connect, start two workers, register,
then the final loop that kills and joins), `worker` (recv, count, send, and
`killp` at an end or an error), `killp` (shutdown and close of two sockets inside
one `ignored`), `inthandler` (three prints on SIGINT) and `signalhandler`.

What is hard about it: three threads may run `killp` on the same two sockets;
the first call of `killp` that raises skips the rest; `+=` on a counter is not
atomic; the report reads the counters while workers run; a SIGINT can hit the
main thread anywhere, and because `sys` is not imported the handler ends in a
`NameError` at that place; `send` may take only part of a chunk; a worker in
`recv` is not woken by `close` alone.

It should be so that: bytes are neither lost, duplicated nor reordered while
their destination is up; the counters are right; nobody waits for ever.

### Build and run pipeline (`scripts/common.sh`, `build_*`, `run_*`, `clean`)

State: the source trees, the files made from them, the shells that run scripts.
Operations: 8 `build_` functions, 7 `clean_` functions that `clean` calls, and
`run_grit`, `run_ffmpeg`, `run_openssl` in three variants each.

What is hard about it: `set -e` with `| tee`, where the status of the tool is
lost; `[ -f x ]` tests that skip configuration or whole builds; scripts that are
interrupted and started again; two scripts at once over shared libraries;
relative paths that only hold in some directories.

It should be so that: a run script that exits with 0 leaves a circuit made from
the current sources; no failure wedges the tree.

### Word division (`compiler-rt/lib/builtins/int_div_impl.inc` and its callers)

State: the locals of a shift-and-subtract loop.  Operations: `__udivsi3`,
`__umodsi3`, `__divsi3`, `__modsi3`, `__udivmodsi4`.

What is hard about it: the comparison `r >= d` is made without a branch, from the
sign of `d - r - 1`, which need not fit in a signed word; the first shift count is
a difference of unsigned counts that may wrap; the least word has no positive
counterpart.

It should be so that: the results are the truncated quotient and the remainder,
for all arguments with a divisor other than 0.

### Two-word integers (`udivmoddi4.c`, `udivmodti4.c` and the functions around them)

Division, multiplication, shifts, comparison, bit counts and the arithmetic that
traps on overflow, on values put together from two words.

What is hard about it: shifts by zero and by exactly one word need cases of their
own; the estimate of a quotient digit in `__udivmodti4` is too large by up to two,
and the loop that corrects it computes in words; overflow of a product is predicted
by divisions; the least value has no positive counterpart.

### Software floating point (`fp_*_impl.inc`, `fp_lib.h`, `comparesf2.c`, ...)

Addition in four rounding modes, multiplication, comparison, conversions between
formats and to and from integers, `scalbn`.

What is hard about it: bits that are shifted out must still decide ties (sticky
bits); subnormal numbers are normalised and brought back, and must be rounded only
once.

### `__atomic_*` (`builtins/atomic.c`)

State: an array of spin locks.  Operations: load, store, exchange,
compare-exchange and fetch-op, by one instruction where the size allows it and
otherwise part by part under a lock that a hash of the address chooses.

It should be so that: every call takes effect at one moment, although objects share
locks and a failing compare-exchange reads the object twice.

### Threads in the thread sanitizer (`sanitizer_thread_registry.cpp`, `tsan_rtl_thread.cpp`, `tsan_interceptors_posix.cpp`)

State: thread contexts, their quarantine and the list of those to use again;
counters; the clock by which a thread hands on what happened before.  Operations:
the interceptors of `pthread_create`, `join`, `detach`, `tryjoin`, `timedjoin`, the
start and the end of a thread.

What is hard about it: an interceptor calls the registry, then the real function,
then the registry again, and the library may recycle the handle in between; a
context outlives its thread and is recycled too.

### Vector clocks of the thread sanitizer (`tsan_clock.cpp`)

State: a clock per thread and per sync object, with tables shared by reference
count, two dirty elements beside the table, flags for "already acquired" and a table
cached by the thread that stored it last.

It should be so that: with all these shortcuts every clock has the value that the
simple model in the comment at the top of the file gives it.

### The guarded pool of GWP-ASan (`guarded_pool_allocator.cpp`, `common.cpp`, `crash_handler.cpp`, `segv_handler_posix.cpp`)

State: slots of one page between guard pages, the list of free ones, metadata per
slot, two mutexes.  Operations: allocate, deallocate, disable and enable around
fork, iterate, stop, and the report of a fault.

What is hard about it: metadata is written outside the mutex; two threads may free
one pointer; `disable` comes while another thread is about to return its slot; the
handler of a fault reads the metadata later, while other threads free and allocate.

### libFuzzer (`FuzzerMerge.cpp`, `FuzzerCorpus.h`, `FuzzerLoop.cpp`, `FuzzerFork.cpp`, `FuzzerDriver.cpp`)

State: the control file of a merge and its processes; in a fuzzing process the
inputs, who owns which feature, and the files on disk; in fork mode two queues, the
workers and what is known about the corpora.

What is hard about it: processes die in any input, before the first one or while they
write a result, and are resumed from the control file, whose inputs may be gone by then;
an input is evicted, or replaced by a smaller one, and its file deleted, before the new
unit is written, and the process may exit in between; a job or a null job too few leaves
threads waiting.

## Modules

| Module | What it is |
| --- | --- |
| `Proxy` | `proxy.py`: main thread, workers, `killp`, signals, sockets, peers |
| `Relay` | what a proxy promises: the abstract specification `Proxy` implements |
| `Pipeline` | `common.sh` and the scripts that call it |
| `Divide` | the division loop and the five functions built on it, for words of N bits |
| `WideInt` | integer arithmetic on two words of W bits |
| `SoftFloat` | floating point with S significand and E exponent bits |
| `AtomicLocks`, `AtomicCell` | `atomic.c`, and the abstract cells it implements |
| `ThreadRegistry` | the registry as functions on its state |
| `TsanThread` | interceptors and threads over the registry and the pthread library |
| `TsanClock` | vector clocks, with the simple model run beside them |
| `GwpAsan` | the guarded pool |
| `FuzzerMerge`, `FuzzerCorpus`, `FuzzerFork` | the modes of libFuzzer |
| `FuzzerDriver` | the choice among them |
| `MCProxy`, `MCPipeline`, `MCBuiltins`, `MCAtomicLocks`, `MCTsanClock`, `MCGwpAsan`, `MCFuzzer` | constants of the small instances; `MCBuiltins` also makes one call of `Divide`, `WideInt` or `SoftFloat` |
| `ProxyProofs` | proofs about `Proxy` |
| `PipelineProofs` | proofs about `Pipeline` |
| `DivideProofs` | proofs about `Divide` |
| `AtomicLocksProofs` | proofs about `AtomicLocks` |
| `GwpAsanProofs` | the inductive invariant of `GwpAsan`, and what follows from it |
| `TsanThreadProofs` | the inductive invariant of `TsanThread` with its registry, and what follows from it |

Where parts interact they are composed: `Proxy` of its threads, handlers and peers,
`Pipeline` of the shells, `TsanThread` of the registry, the runtime and the library
it wraps.  `FuzzerFork` uses the merge by its contract, which is a property checked of
`FuzzerMerge` (`MergeSound`); of a child process it assumes nothing.  The other parts share no state: the proxy is started by the
drivers, the builtins run inside a proved program, and the sanitizers are not linked
together with them.

Operators whose comment begins with "Mutant" are faulty variants of the definition
that follows them: each property was tried against one, to see that it can fail.
They are used nowhere else.

### Proxy

A worker is named by the socket it reads, `<<c, "k">>` or `<<c, "v">>`; it writes
to the opposite end.  `wpc` and `mpc` hold the place of every thread.  Each call
that another thread can come between is a step: `recv` is the call on the Python
object (`RecvCall`, which sees a closed descriptor) and its return (`RecvData`,
`RecvEnd`); `c2s += len(b)` is a load and a store; `send` takes byte after byte
(`SendByte`) until it is done, is cut short (`SendShort`) or raises (`SendRaise`);
`killp` is four calls.  Bytes are counted and not spelled: TCP and the single
worker of a direction keep their order, so numbers are enough.

`running` is never changed: `signalhandler` assigns a local variable.  So the exit
of the loop at `proxy.py:57` cannot happen, and `Sigterm` changes nothing.
`PrintTotal` includes the `NameError` of `sys.stdout.flush()`: `RaisedTo` says
where it takes the main thread from each place.

External: the kernel's sockets (`shut`, `fd`, `inq`, `outq`; `shutdown` raises on a
closed object or a connection that is gone, and may raise when both ends have
finished), the peers (send, read, end their direction, reset) and the arrival of
signals.

### Pipeline

A function of `common.sh` is the sequence of the commands it runs; a script is a
sequence of functions.  A command is a tool that makes a file from files and
sources, a test that skips commands, or an `rm`.  A file holds the set of source
versions it was made from, so "fresh" can be said.  `Advance`, `Abort` and
`AfterFailure` are the control: `set -e`, and `| tee`, whose status replaces the
tool's.  `Starts` says how a script was named, because `$cc_dir` is relative to
that.

Assumed of the external tools: they rebuild what has changed (make, ninja, stack,
cargo), and a tool that fails leaves its output as it was; ffmpeg's `make clean`
keeps `config.h`.  `clean_openssl` is called by no script and is left out.

### Divide

`fn`, `a`, `b` are the call; `n`, `d`, `r`, `sr`, `carry` are the locals of
`__udivXi3` and `__umodXi3`; `res` and `rem` are what is returned and stored.
`Enter` takes absolute values for the signed functions, `Shift` is the count of
leading zeros, the early returns and the first shift, `Iterate` is one turn of the
loop, `Finish` the last shift and the sign.  Words are numbers modulo 2^N; the
bitwise operations are written as the arithmetic they do (`x << 1` is
`Wrap(2 * x)`, `d & s` is `d` or 0).  `__modsi3` computes in signed words, where
overflow is undefined: `MultiplyBack` then allows every word.

`pow2` is a constant and not an operator because a proof needs only
`2^(j+k) = 2^j * 2^k`, which `WidthOK` states.

### WideInt and SoftFloat

Every function is an operator; `Init` chooses a function and its arguments, and
`Call` computes the result.  Loops are recursive functions over the number of turns.
Where the text for `di_int` and `ti_int` is the same there is one operator, where it
is not there are two (`udivmoddi4`, `udivmodti4`; `divmod` is checked with either).  What C leaves undefined is a set
of results: negating the least value in `__divmoddi4` (`Negations`), the shift into
the sign bit in the conversions to signed integers.  The reference for `SoftFloat` is
arithmetic on exact values m * 2^e and one rounding (`RoundTo`).

Limits of these properties, which are also limits of the code: `DivisionExact` says
nothing of `__divmoddi4` and `__divmodti4` for the least value; the conversion to
signed integers compares the exponent with the full width, so `ConversionsRounded`
demands saturation from 2^width on and a truncated value below 2^(width-1), and
nothing between them.

### AtomicLocks

A call goes through `Lock`, `ReadPart`s, then `WritePart`s, or `ExpectedPart`s for a
compare-exchange that fails, then `Unlock` and `Return`; on a lock-free object it is
`Instruction`.  Each part a memcpy copies is a step.  The mapping to `AtomicCell`
lets a write take effect when the thread turns to its memcpy and a read when the
last part is copied.

### ThreadRegistry and TsanThread

An operation of the registry holds its mutex throughout and is a function on `reg`;
a failed CHECK is recorded in `reg.ok`.  `TsanThread` has a step for each stretch
between two calls: `ThreadConsumeTid`, the real function (`RealJoin`, `RealDetach`,
`NotJoined`), the registry again (`ThreadJoin`, `ThreadDetach`, `ThreadNotJoined`).
The library (`os`) is external and follows POSIX: it recycles a handle as soon as
nobody may use it.  A program uses a handle at most once, as POSIX demands
(`MayUse`).  `sync` holds which releases a clock carries; `good` records that no
acquire missed its release and no clock was left over.

### TsanClock

Each operation under the mutex of a sync object is a step, except that a thread which
releases increments its epoch first (`IncrementEpoch`) and updates the clocks later:
the global acquire takes no such mutex and visits the threads one by one while they run
(`BeginGlobal`, `UpdateClockCallback`), so it can read the epoch in between.  Where a
scenario has no global acquire nobody can, and the two steps are taken together
(`Alone`).  `tref` and `sref` are the simple model.  The two levels of a table are a
layout and are abstracted to a function.  A thread that ends (`OnFinished`) leaves its
time in `epoch1`, where a global acquire finds it; a later one starts with the same index
(`OnStarted`).  These threads are detached and have no parent, so the sync clock of their
own stays empty; what it hands on is in `TsanThread`.

### GwpAsan

The steps of a call are the stretches between two acquisitions of a mutex, and
`RecordAllocation` is split into its three writes.  `AllocateReturn` is the release of
the last mutex and the return, between which the call touches nothing that is shared: in
the properties memory is handed out at that release.  The program may free twice, free
an address that was never allocated, or use memory late: what it is told then is
what the component is for.  `ambiguous` marks a second free that meets a slot with a
new owner, which no allocator can tell from a right one; the properties about slots
are stated for the other states.

A fault is four steps: the access (`Touch`, or the store of `trapOnAddress`), `stop`,
`dumpReport`, and the end of the process (`Over`).  Other threads go on in between; `stop`
uses `tryLock` and so may leave the allocator running.  `fault` remembers what was
touched and whether its slot was mapped again before the report (`reused`).  `dumpReport`
applies `diagnose_error` to the metadata of that moment, and `FaultsExplained` is about
its result: a use of freed memory is reported as one, or as unknown if the slot was mapped
for a new allocation after the fault; a step off either end of held memory is blamed on
its slot and on the right side, even if that was freed and reused in the meantime.  Once
a bad free is recorded in `State`, reports of other threads speak of that, and only the
thread that did it is spoken for.

### FuzzerMerge, FuzzerCorpus, FuzzerFork

`FuzzerMerge`: `Attempt` starts an inner process, which writes STARTED before and FT
after each input and may die between any two steps, also before its first input
(`InnerCrashes`), exit because the input is gone (`InnerMissing`) or die while it writes
a result (`InnerCut`); `DoMerge` and `CopyOne` are the outer process.  `Kill` takes both
down, and the control file stays.  A result that is cut lacks its newline, so the next
line becomes its end and is lost; one that is cut inside a number reads as another
feature.  `wasted` counts the attempts that started no input and `cut` says whether the
control file rests on a result that was cut.

`FuzzerCorpus`: `RunOne` with `AddToCorpus`, `Disown` (eviction) and `Replace` is one
step, the writing of the unit by `Report` another; the leak detection between the two may
end the process (`LeakExit`).  Other processes write and delete files of the same output
corpus.  `twins` and `gone` remember which units were two inputs at once and which files
others deleted.

`FuzzerFork`: `First` is the loop, `Work` a worker with its child, whose results are
arbitrary.  Seeds come from all corpus directories (`main` and `side`), units that are
found go to the first.  `Chosen` is what a merge may choose, by its contract: for
`Merger::Merge` the units in the order of their sizes when they ran, cut to
`MaxInputLen`, and for `SetCoverMerge` in any order.

Limits of the properties, found while modelling, and so limits of the code:

- An attempt that starts no input is lost.  "Every inner process should execute at least
  one input" (`FuzzerMerge.cpp:488`) does not hold if an input of a resumed control file
  is gone: all attempts end there, the merge is made from what was executed before, and
  exits with 0.  `ControlFileComplete` says exactly how many inputs that can leave out.
- A process that dies while it writes a result may leave a control file that is refused,
  or a number with its last digits missing.  `ControlFileComplete` is stated where no
  result was cut, `MergeSound` where none was cut inside a number.
- A merge killed after all inputs ran and before the copying is taken as complete by the
  next one, so `MergeSound` speaks of merges that reach their end.
- An older control file makes inputs of the first corpus count as new, so
  `OnlyUsefulAdded` is stated without one.
- What `DiskCovers` lets a restart miss: the unit being reported, also when the process
  exits before it is written; the "\n" that is run when there is no seed; files that other
  processes delete; and, with `-reduce_inputs` (the default), the file of a unit that two
  inputs have come to be, which goes when one of them is reduced again.  Such twins share
  a features file too, and the half about these files is stated where there were none.

## Runs

| Run | States | What it shows |
| --- | --- | --- |
| `proxy` | 1,547,931 | `TypeOK`, `ClosedWasShut`, `NoSilentLoss`, `GiveUpOnlyWhenDrained`, `CountsExact`, `ReportConsistent`, with both peers ending or resetting and a signal at any place |
| `proxy_race` | 20,226 | `CountNeverOvershoots` when two connections race on a counter |
| `proxy_live` | 51,938 | `RelaysFaithfully` (refinement of `Relay`), `NoDescriptorLeak`, `LossReachesOtherPeer`, `CleanupTerminates`, while nobody resets and calls of the main thread may fail |
| `proxy_reset` | violated | with resets, `LossReachesOtherPeer` fails (finding 1) |
| `pipeline` | 2,024,146 | `SuccessIsFresh`, `NoWedge`, `CleanReconfigures` for four plans: variants of grit and `clean`; openssl with its tests on `libssl.a` and `driver-link.ll`; two shells over the shared libraries; each way of naming a script |
| `pipeline_tee` | violated | with tools behind `tee` that fail, `SuccessIsFresh` fails (finding 2) |
| `builtins` | 2,109,238 | `ComparisonExact`, `ResultCorrect` (5-bit words), `DivisionExact`, `IntegersExact` (two words of 4 bits), `ArithmeticRounded`, `ConversionsRounded` (4 exponent and 3 significand bits), for all arguments |
| `atomic_locks` | 268,792 | `LocksHeld`, `Linearizable` (refinement of `AtomicCell`), `LocksReleased` for two threads and every call on two objects behind one lock and a lock-free one |
| `tsan_thread` | 86,054 | `RegistryConsistent`, `HandlesResolve`, `EdgesKept`, `InterceptorsReturn` |
| `tsan_clock` | 574,368 | `ClocksConform`, `TablesSound` in five scenarios |
| `gwp_asan` | 262,168 | `SlotsAccountedFor`, `HeldMemoryUsable`, `FaultsExplained`, `NothingHandedOutWhileDisabled`, `CallsReturn` |
| `fuzzer` | 734,503 | `ControlFileComplete`, `MergeSound`, `CorpusConsistent`, `DiskCovers`, `EnvConsistent`, `StopsWhenOver` in the modes of a libFuzzer binary |

### Bounds, and why they are enough

*Proxy.*  Connections share nothing but the two counters and the main thread.  The runs
have one connection, as `dmc.sh` and `ffmc.sh` do, except for the race on a counter,
which has two.  `CountsExact` and `ReportConsistent` are claims about one connection
only, in the runs and in the theorems; the other theorems hold for any number.  The
liveness runs do not show how the final loop behaves with several.  In `proxy`, a chunk of 2 bytes into a send buffer of 1
makes `send` block, split and fall short, and the other direction has a byte in hand
when this one ends.  `PeerEnds`, `Faults` and `Signals` say what the environment may
do; `proxy` has one signal, at any place.  `proxy_live` reaches the final loop by calls
of the main thread that fail, a `connect` before anyone listens among them; it has no
signals.  A SIGINT that arrives inside `inthandler` is not modelled: the inner call
prints its own three lines and raises to the same place.

*Pipeline.*  A stale file needs an edit after an earlier run, and a wedged tree needs a
failure in one; scripts may be run any number of times.  The plans for grit and openssl
have two edits, with one failure and with two (openssl's build has two tests to get
past).  With two shells, failures are left out and there is one edit, so that plan
speaks only of scripts that disturb each other without a failure; a tool's write of a
file is one step, so two tools that write the same file at the same moment are not
covered.  `pipeline` assumes that the two tools behind `tee` do not fail of themselves:
`pipeline_tee` shows what happens when they do.  The proofs remove the bounds on edits,
failures and, for scripts that neither remove anything nor make two variants of one
statement, on shells.

*Builtins.*  Five bits let `sr` take four values, the divisor have its top bit set or
not, and both early returns happen; the proofs remove this bound.  Two words of 4 bits
have halves of 2 bits, the least in which the estimate of a digit needs both
corrections.  The format of 8 bits has subnormals, infinities, NaNs and every distance
of two exponents; the narrow format has 3 exponent bits and 1 significand bit, so that
truncation drops a bit to round by and one more.  Exponents of at least 4 bits are
needed by the addition (`FormatsOK`).

*Atomic locks.*  Two threads, an object in two parts: a read can fall between the two
halves of a write, and a third object shares nothing.  The proofs remove these bounds.

*Threads.*  Two handles, four contexts (one is the main thread's), a quarantine of one,
two uses of a context and five threads in all: a handle is recycled while its last user
is still in an interceptor, and contexts pass through the quarantine and are reused.
An empty quarantine is excluded (`RegistryConstants`): no runtime asks for one, and
`FinishThread` would then mark a context that has been reset.  The proofs remove the
bounds on handles, contexts, reuse, threads created and the quarantine.

*Clocks.*  Three threads are one more than the dirty slots.  The cases that need many
ticks (increments of the threads' times) need few operations, and the other way round, so
`MCBounds` has five scenarios: all operations with the reuse of an index and three ticks;
all operations with four; all operations with a global acquire and reuse, two ticks; a
global acquire that sees a later time of one thread and not the earlier one of another,
which takes four ticks of releases (without the second half of
`HasAcquiredAfterRelease` it violates `ClocksConform`); and two releases of each thread to
an object, six ticks, which overflow the dirty slots in `UpdateCurrentThread`.

*Guarded pool.*  Two slots, three allocations: a slot is used again.  Two events, which
are wrong or late uses or forks: one races another, and a slot is freed and reused between
a fault and its report.  Pages have 4 bytes, so the middle of a guard page lies between
two.  The proofs remove all these bounds but the one on the powers of two a request may
have as its alignment.

*libFuzzer.*  Merges: four inputs of sizes that tie or are cut, one in the first corpus,
one added later; two merges over one control file; two faults among two crashes, a result
cut short, a kill, a request to stop and a removed input, at any points, so that a killed
merge is resumed over an input that is gone.  Fuzzing: targets on four units and two
features, with the default flags and with `-shrink`, `-reduce_inputs` and `-keep_seed`;
one file deleted by another process.  Fork mode: two workers, three units, one of them
longer than `MaxInputLen`, and a unit that is in both corpus directories.

Deadlock is checked for `Pipeline`, `AtomicLocks` and the builtins.  It is not checked
elsewhere: a relay whose peers are silent may rightly wait for ever, a program may join
a thread that never ends, a crashed process or a finished fuzzer stops, and the clocks
and the pool stop at their bounds.

### Fairness

*Proxy.*  Weak fairness for each worker, for the rest of a handler that has begun, for
the final loop of the main thread, and for peers reading what they were sent.  The first
three are threads the operating system and the interpreter schedule.  The fourth is a
property of a prover and a verifier that both read their sockets; without it a full
buffer blocks `send` rightly.  Nothing is assumed that makes a peer send, end or
connect, or a call fail.

*AtomicLocks.*  Weak fairness for each thread inside a function.  A spin lock may starve a
thread, so what is claimed is that locks are given back, not that every call returns.

*TsanThread.*  Weak fairness for each thread inside the runtime and for the start of a
new one.  A thread of the program need not end, and `pthread_join` need not return; an
interceptor does once the library has let it through.

*GwpAsan.*  Weak fairness for a thread inside a call, strong fairness for its acquiring a
mutex: the mutexes are the platform's, which let a waiting thread in if they are free
again and again.

*Fork mode.*  Weak fairness for the loop and each worker.  A child ends because every
job is given `-max_total_time`.

### Findings

1. `proxy.py:27`: after a reset, `shutdown` of the dead socket raises inside
   `killp`, and `ignored` skips the three calls after it.  The other peer is not
   told and its worker stays in `recv`.  The comment at `proxy.py:37` and the
   disabled `is_socket_closed` (`proxy.py:111`) treat a reset as closed.
2. `common.sh:128`: `stack run compile ... | tee` and `cheesecloth ... | tee` run
   without `pipefail`, so their failure does not stop the script: it can exit with
   0 and an old circuit, or none, where `README.md:16-17` says what a successful run
   produces and `run_grit:2` says `set -e`.

## Proofs

Assumptions:

- `ConstantsOK` of `Proxy`: payloads are numbers, chunk and buffer are at least 1, and
  so on;
- `PipelineConstants` of `Pipeline`: the plans have the type of a plan;
- `WidthOK` of `Divide`: N is at least 2, `pow2` gives the powers of 2;
- `AtomicAssumption` of `AtomicLocks`: every object has a lock, values and calls are of
  their types;
- `ConstantsAssumption` of `GwpAsan`: the page size is a power of two larger than the
  default alignment, requests are pairs of numbers, there is a slot; that smaller powers
  of two divide larger ones is stated, because the provers do not reason about 2^i;
- `RegistryConstants` and `HandlesAssumption` of `ThreadRegistry` and `TsanThread`: the
  limits are numbers, the quarantine has room for one, and 0 is not a handle.

TLC evaluates them, and those of the modules without proofs, in every run of their
modules.  Every strengthening below was an invariant of a TLC run on the instance of the
component before it was proved.

**`TypeCorrect`, Spec => []TypeOK (Proxy).**  `TypeOK` is not inductive: that `hold`
stays a natural number when `send` takes a byte needs `Hands` (a worker has bytes in
hand exactly between `recv` and the end of `send`), and that in turn needs `Fresh`
(a connection that is not set up yet has no worker, so starting one never interrupts
another that has bytes in hand).

**`ShutBeforeClose`, Spec => []ClosedWasShut.**  Strengthened by `KillOrder`: a
thread about to close a socket has already shut it down.  Nothing undoes a
shutdown, so it does not matter that three threads run `killp` at once.

**`LossOnlyWhenDown`, `DrainedBeforeKill`.**  Strengthened by `Conserved`: what a
peer means to send is with it, in the kernel, or received, and a worker never
forwards more than it received.  `DownForEver` says a connection that is down stays
down; a worker drops bytes only after seeing its destination down.

**`ProxyImplementsRelay`, Spec => RelaysFaithfully.**  The mapping sends `rcvd` to
`took`, `fwd` to `out`, what is received and neither forwarded nor in hand to
`lost`, and `~Down` to `up`.  Each step is a `Send`, `Take`, `Deliver`, `Lose` or
`Fail`, or leaves the relay alone.  It uses the invariants above.

**`DescriptorsClosed`, Spec => []NoDescriptorLeak, when nobody resets and no signal
arrives.**  Finding 1 is why resets are excluded: `ignored` skips the `close` after a
`shutdown` that raises.  `LeakInv` is the argument that it cannot raise otherwise before
the socket is closed or another thread is about to close it: a socket that was shut down
is closed or some thread is on its way to close it (`ShutIsClosing`), a connection counts
as gone only after its socket was shut down (`ResetWasShut`), and a worker past
the first call of its `killp` has its own socket shut down (`DoneWasShut`).  So a thread
whose `killp` is cut short leaves the rest to another that is still in its own, or to one
that has finished it.

**`CountersExact`, `ReportTruthful`, Spec => []CountsExact and []ReportConsistent, for one
connection.**  Each counter then has one writer, so the value a worker loaded is still
the counter's when it stores (`LoadedIsCurrent`).  `PrintedSoFar` carries what
`inthandler` has printed from one print to the next: a number printed is at most the
counter, and the counters only grow.

**`Fresh`, `Unwedged`, `Cleaned`, Spec => []SuccessIsFresh, []NoWedge and
[]CleanReconfigures (Pipeline).**  For every set of scripts, every way of naming them and
any number of edits, interruptions and failures, under two hypotheses.  `TeeFails =
FALSE`: finding 2 is what happens otherwise.  `Undisturbed`: there is one shell, or there
are any number of them that run no `clean` and no two variants of one statement; a `clean`
under a running build, or two `run_grit` with different arguments over one `grit.cbor`,
do break the properties.  The three need each other and more.  `MadeSoFar` is the core: every
tool a running script has come past has left a file that is there, of the script's variant,
from sources not older than the start of the script, whether the tool ran or a test skipped
it.  For that a file behind a test must have all its parts (`FromParts`), whoever made it
and whatever failed since, and openssl's four files must come in order (`KeptInOrder`),
because one test stands before all of them.  `Reconfigured` and `RemovedSoFar` are the same
for `clean`: what is there of the files it removes was configured after it.  That the bodies
of the scripts have this shape (a tool's inputs come before it, a test skips only what it
tests for) is `Segment`, proved function by function of `common.sh`.

**`DivideTypes`, `ComparesExactly`, `DividesCorrectly` (Divide), for every N >= 2.**
The invariant `LoopInv` says that n = lo * 2^(N-sr) + q, with lo the sr bits of the
dividend still to come and q the quotient so far without its last bit, and that
dividend = ((2q + carry) * d + r) * 2^sr + lo with r < d.  It also says why the
comparison is exact: while turns are left, either d <= 2^(N-1), or this is the last
turn and 2r >= 2^(N-1).  In the first case d - r - 1 fits in a signed word because
r < 2d after the shift, in the second because r, once shifted, and d are both at least
2^(N-1).  `DoneInv` carries the quotient and remainder to the return, and
`SignsOfDivision` and `DoneGives` treat the signs.  Two cases are stated as they are:
the least word divided by -1 wraps to itself, and the least word modulo -1 overflows
in `__modsi3` and may return anything.  A divisor of 0 is undefined, and only the
types are claimed.

**`LocksExclude`, Spec => []LocksHeld (AtomicLocks).**  For all threads, objects, locks,
hashes and sizes.  `LocksHeld` needs `Calling` (a thread has a call unless it is idle, and
is on the path of its object, locked or lock-free) and the types.

**`AtomicImplementsCell`, Spec => Linearizable.**  The invariant is `AtomicInv`: types,
`Calling`, `LocksHeld`, and `Copied`, which says what the copies have done so far: a
reader's first k parts are those of the object, a failing compare-exchange already has
the value it reads again, and a writer's first k parts are in the object.  `Exclusive`
turns `LocksHeld` into "nobody else is between lock() and unlock() of this object", which
is why a step of one thread leaves `Copied` of another alone.  `BarFacts` says what the
mapped cell is at each place, `OthersSame` and `AnswersSame` that a step touches only its
own object and answer; then every step is an `Invoke`, a `TakeEffect` or a `Respond`, or
leaves the cells alone.

**`SlotsAreAccountedFor`, `HeldMemoryStaysUsable`, `FaultsAreExplained`,
`DisabledHandsOutNothing` (GwpAsan), for all threads, slots, page sizes and requests.**
The invariant `GwpInv` has four parts beside the types and the mutexes.  `AddrInv`: every
pointer lies in the page of its slot; this rests on lemmas about division, alignment and
the layout of the pool (`Pages`, `SlotFacts`, `Nearest`, `Around`, `PtrsFit`).
`TokenInv`: `IsDeallocated` is a token that hands a slot on.  A slot marked as freed is on
the free list or with exactly one call, so the second of two racing frees finds the mark
and is reported.  This part holds whatever the program does.  `MapInv`: a page without
access is freed, unused, or about to be mapped.  `HoldInv`: until a repeated free meets a
slot with a new owner (`ambiguous`), the metadata of a slot in use are its owner's, and
each slot has one owner.  The last needs the third write of `RecordAllocation` to come
after the other two.

`FaultsAreExplained` is about a report that comes any number of steps after its fault, so
`FaultInv` carries what is known from one to the other, beside `GwpInv`.  `NamedInv`: the
metadata of held memory have an address, and a slot that was used never loses it, so a
step off either end (`EdgeFault` in `StuckInv`) is told to be an overflow or an underflow
whatever happens to the slot.  `FreedFault` in `StuckInv`: as long as the slot of a
freed pointer was not mapped again, its metadata say that it is freed and no call is about
to say otherwise, since only the third write of `RecordAllocation` does and comes after
the mapping.  `TrapInv`: a thread that recorded a bad free in `State` keeps `PoolMutex`
for good, so no other bad free replaces its own.

**`RegistryAgrees`, `HandlesLeadToThreads`, `HappensBeforeKept` (TsanThread), for any
number of handles and contexts, any quarantine and any limit on reuse.**  `ThreadInv` says
whose a context is at every moment.  `RegistryOK` is the registry alone: its lists, its
marks, and that tids are 0 to n - 1.  `SlotThreads` ties a running thread to its context,
`Creators` a thread that has not started to the interceptor that waits for it, `Users` a
context to the handle in `user_id`, and `HeldHandles` the handles the program may use to
a context.  `Claims` and `Holds` are about the stretch in which an interceptor has taken
the tid and cleared `user_id`: the context stays finished or running and undetached, and
no other context gets the handle until the library has let go of it.  `Clocks` says which
releases a context's clock carries in each state, and that a dead one carries none.  One
lemma per step shows that `ThreadInv` is kept; lemmas on `QuarantinePush`, `FinishThread`
and the other operations say, field by field, what they do to the registry.

`CountsAgree` compares counters with the sizes of sets of contexts, so each operation has a
lemma that says which contexts enter or leave such a set (`StepCounts`, `LifeCounts`) and
`CountsNext` turns this into sums with the library's facts on cardinality.  The two halves
need each other: the CHECKs of `FinishThread` that the counters are positive hold because
the main thread never ends and is always counted (`SomeoneRuns`).

Only model-checked: `CountNeverOvershoots`, which sums over all connections by a fold;
everything about the two-word and floating-point arithmetic, the vector
clocks and libFuzzer; and the liveness properties, since fairness and ENABLED are out of
the prover's reach.  So are induction over data and RECURSIVE operators, which is why the
modules with proofs use none.

## Not modelled

- The submodules (no source here; `Pipeline` models how the scripts use them), the
  proof systems of swanky (external), libcxx and libcxxabi (headers), and the Dockerfile
  (a list of packages).
- The proof drivers `dmc.sh` and `ffmc.sh`: a prover, the proxy and a verifier started
  after fixed delays.  All but the proxy is external; what a delay that is too short does
  to the proxy is a failing `connect`, which `proxy_live` includes.
- Most of compiler-rt by number of lines.  The tree has some 175,000 lines of it, and the
  greater part is tables of system calls and structure sizes, interceptors that forward
  to the real function, code for other platforms and processors, report printing, flag
  and file-format parsing, instruction patching and shadow-memory encodings: code with
  no protocol to check, none of which `build_compiler_rt` builds.  What was modelled of
  it are the parts that keep state over many steps of several threads or processes.
- Of the builtins: floating-point division, whose reciprocal has error bounds for the
  three real widths and no small instance; popcount and parity (masks of a fixed width);
  complex arithmetic; 80-bit floats; assembly; `__emutls_get_address`, which no program
  here calls.
- Of the modelled parts: thread names and search callbacks of the registry; memory ranges,
  ignores, fibers and fork in tsan's threads; sampling, random numbers and the packing of
  stack traces in GWP-ASan, and an unwinder that calls back into it; energies, mutators,
  data-flow traces and time limits in libFuzzer; memory orders in `atomic.c`, whose
  accesses are taken to be sequentially consistent.

## Plan

1. Proofs for the tables and reference counts of `TsanClock`.
2. `WideInt`'s division for every width: the lemmas of `DivideProofs` carry over to the
   loop of `__udivmoddi4`.
3. The sanitizers' mutex and its semaphores; the emulated thread-local storage.
