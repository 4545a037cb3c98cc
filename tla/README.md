# HeatNG in TLA+

A model of HeatNG, a library that injects a server into a Windows process (the
*application under test*, AUT), and lets a client intercept functions there:
calls of an intercepted function run a *replacement*, which may call the
original. Modules (`*.tla`), TLC configurations (`*.cfg`) and proofs
(`*Proofs.tla`) are kept next to each other; `PROJECT.json` maps every definition
to the lines it stands for. Paths below are relative to `src/src/heatNG/`.

Run a check with `tlc -config Stubs.cfg MCInterceptStubs`, a proof with
`tlapm InterceptionProofs.tla`.

## The system

| component | code | state it keeps | operations |
|---|---|---|---|
| interception stubs | `libraries/sisystem/headers/siheatsupport.h`, `sicodegen.h` | per AUT thread two TLS slots: the *in intercept* counter and the top of the return address stack (RAS, one page of the heap); per replacement a static pointer to its caller stub | replacement stub, caller stub, push and pop of return addresses |
| server handler | `components/heatNGserver/sources/heatNGserver.cpp` | `m_intercepts`, TLS indices, `g_heatThreadIds` | `readAndIntercept`, `cmdHandlerFunction`, `getOriginalFunctionCaller`, disable and enable of interception, `startupServer` |
| startup | `dllmain.cpp`, `siinject.h`, `sithread.h` | suspend counts, loader lock, TLS slots, thread register | `DllMain`, `suspendWorker`, `sithread`, both injections |
| comms | `libraries/comms/headers/*`, `siclient.cpp`, `siserver.cpp`, `sicomms.cpp` | one pipe, one server thread, one client | `sendCommand`, `serverFunction`, connect with timeout, `stopServer` |
| client | `components/heatNGclient/sources/HeatNGApp.cpp` | `m_state`, `m_client` | constructor, `addIntercept(s)`, `runApp`, `pauseApp` |
| HeatApi | `components/HeatApi/CHeatApp.cpp`, `CIntercepts.cpp`, `CNode.cpp` | flags, handles, intercept list, a monitor thread per attach | the sixteen calls of the earlier API |
| walks | `sisystem.cpp` (`processAllThreadsState`), `CHeatApp.cpp` (`modifyProcessState`) | none; they change suspend counts | suspend or resume every thread of a snapshot |
| redirection | `siheatsupport.h` (`writeRedirection`), `sisystem.cpp` | five bytes and the protection of their page | write a jump over a function's first bytes |
| stub memory | `sinativeintercept.cpp`, `sinativeintercept.h`, `sisystem.cpp` | a static cursor and the base of its page | `interceptFunction`, `memoryAllocNear`, `findFreeMemNear` |
| thread register | `sithread.h`, `heatNGserver.cpp`, `dllmain.cpp` | `heatThreadIds` | `HeatCreateThread`, `DLL_THREAD_DETACH`, `IsHeatCreatedThread` |
| relocation | `siinstrreloc32.h`, `siinstrreloc64.h`, `instrtable*.h` | none | decode and move the first instructions of a function |
| import table edit | `sistartwith.h`, `siinject.h` | the image header and the tables of a process that has not started | make a process load the server first |

How they interact. The client process makes the AUT load `heatNGserver.dll`
(import table or remote thread). `DllMain` starts a worker, the worker suspends
the thread that loads the DLL and starts the server thread, and then allocates
the TLS slots. The client connects to the server's pipe and sends one command
at a time; the server thread executes it (install an intercept, suspend all
threads, resume all threads) and answers with a status byte. Meanwhile the AUT's
threads run through the stubs. Client and server also meet without a message,
at the suspend counts of the AUT's threads, and everything in the AUT meets at the
loader lock and the heap lock.

What is hard, and what must hold:

* **Stubs.** Calls nest in any order, recursion runs off the RAS into the heap, a replacement keeps the caller stub it looked up first, and the stubs
  store absolute values into a counter that the exported functions count up and
  down. Return addresses must come back in the right order, the application must stay
  intercepted and replacement code must not be.
* **Server.** Two writes and two reads per command, a client or an AUT that dies
  between any two of them, walks over a snapshot of threads that is stale at once,
  a server that allocates while other threads are suspended. An answer must tell what
  happened; pauses and resumes must add up; a client must not wait for nothing.
* **HeatApi.** A user's thread, monitor threads and processes act on the same
  flags without a lock. Flags, intercept list and the kernel's counts must agree.
* **Startup.** Four threads and a client race through two locks, three suspend counts
  and two slots. An AUT started suspended must not get ahead of its first intercepts
  and must run afterwards.

* **Redirection.** Five single writes into code that other threads may be executing, with a pause or without.
* **Stub memory.** Several intercepts share a page through two static variables; each call may fail half-way; the memory that is
  searched changes meanwhile. No code may be written over other code, and no jump may be out of reach.
* **Thread register.** Windows uses thread ids again, a register is read in one critical section and written in another, and a client
  resumes threads that their maker has suspended.
* **Import table.** Ten accesses to another process, each of which may fail or be the last. The process must start with the imports it had, or with those and the
  server, and the client must know which.

`PROJECT.json` lists these hazards with the line where each bites, and the
properties that cover it; where none does yet, the reason.

## Modules

| module | models | checked by | proved in |
|---|---|---|---|
| `InterceptStubs` | stubs, RAS, counter, recording of intercepts | `MCInterceptStubs` | `InterceptionProofs` |
| `CallReturn` | abstract: threads call and return, nothing else | property `Transparent` | `Transparency` |
| `AutServer` | client, pipe, server thread, handler, walks, AUT threads | `MCAutServer` | `AutServerProofs` |
| `RemoteCall` | abstract: one command, executed at most once, answered with its own status | property `IsRemoteCall` | `RemoteCallImplemented` |
| `HeatApp` | `CHeatApp`, its list and its monitors, one or two processes | `MCHeatApp` | `HeatAppProofs` |
| `AutStartup` | injection, `DllMain`, worker, server thread, connect, first command | `MCAutStartup` | `AutStartupProofs` |
| `HeaderCopy` | copying and relocating a function's first instructions, and the copy being run | `MCHeaderCopy` | `InterceptionProofs` |
| `FunctionCode` | abstract: a function is executed as it was compiled | property `RunsAsCompiled` | `Compiled` |
| `Patching` | the redirection byte by byte, with the suspend walk around it and the threads that call the function meanwhile | `MCPatching` | `PatchingProofs` |
| `Redirection` | abstract: a function is redirected at one moment | property `IsOneStep` | `OneStep` |
| `ThreadRegistry` | threads that HEAT creates, their ids, the register, a client's walks | `MCThreadRegistry` | `ThreadRegistryProofs` |
| `FreeMemory` | `findFreeMemNear` and `memoryAllocNear` in a memory that changes | `MCFreeMemory` | `MemoryProofs` |
| `StubMemory` | `interceptFunction` as a user of pages | `MCStubMemory` | `MemoryProofs` |
| `ImportTable` | `injectIntoProcess`, `sistartwith`, the process that is started | `MCImportTable` | `ImportTableProofs` |
| `ImportList` | abstract: a module is put in front of the imports, in one step | property `AddsImport` | `Implements` |
| `Cpu` | external: what the processor does with the classes of instructions that relocation tells apart | with both | |

### InterceptStubs

A thread's `stack` is its pending calls, each with the way it was made: `direct`,
by a replacement stub (`replacement`) or by a caller stub (`original`). A stub moves the
return address into the RAS page (`slot`, top `rasPtr`, as the generated code does in
`writePushRAtoRAS`), sets the counter (`flag`) and calls on; the way back pops
what the RAS holds *now*, whatever is on the model's stack, so that an unmatched push shows as a
wrong return. `CallReplacement`, `CallOriginalReentrant`, `CallOriginalPlain` and `CallDirect` are
the ways into a function; when the counter is set, the replacement stub hands the call to the copied header.
The generated push has no bounds check. `slot` has words behind the page, too: they belong to other blocks of the heap, whose owners write them at any time (`WriteHeap`), and
a push simply goes on into them. A stub that pops a word which has been overwritten meanwhile returns to it, and what the thread does then is not followed (`LoseTheWay`). The AUT dies
when the first RAS of a thread cannot be allocated, and when a replacement finds no intercept at all.
`DisableInterception` and `EnableInterception` are the exports. The server installs
in two steps, `patched` first and `m_intercepts` later, in this order because
`interceptFunction` writes the jump and the handler records it afterwards.
A replacement looks its caller stub up only while its static is null (`LookCallerUp`), stores the answer in a step of its own (`StoreCaller`, which another thread's may precede) and calls what the static
holds ever after. `getInterceptByName` keeps its fall-through: a miss in a nonempty list is the last element, and may end up in the static for good.
Registers, calling conventions and the encoding of instructions are left out. The redirection is one step.

### AutServer

`cPc` and `batch` are the client inside a call, `toServer` and `toClient` the pipe,
`sPc` the server thread in `serverFunction` and the handler. A walk takes a snapshot (`snap`)
and visits its threads one by one (`left`); opening a thread that has exited ends it half-way with FALSE, as in
`processAllThreadsState`. The AUT's threads run, take and release the process locks (`lock`), create threads and exit,
when they are not suspended; the AUT or the client may die between any two steps. A write or read on a broken pipe fails; `sendCommand`
ignores the result of the last read, so its answer is then arbitrary.

### HeatApp

An API call is a sequence of routines (`todo`), each routine one or several steps. A routine that fails ends
the call, except in the destructor. `pauseApp` and `resumeApp` walk the threads one by one; `forceInject` constructs a
`HeatNGApp`, sends the unsent nodes of the list and ignores both results where the code does. `sendUnintercept`
does nothing in the code, so detaching unintercepts nothing in the model either. A monitor reads `m_hProcess` when it gets to run and clears three flags
one after the other. The process starts and exits threads or exits. `setPauseState` and `attachTo...` assume a user who tells
the truth. What the server does while it is loaded is `AutStartup`'s business; here the constructor's outcomes are
`Construct` and `ConstructThrows`, with what an injection leaves behind: its two walks over a running process may give up anywhere, with nobody looking (`SuspendedAndResumed`), and the pipe may have no
server thread (`ServerLoads`). A server thread at work on an intercept may need a lock whose holder is suspended (`ServerBlocks`); then it never answers. A monitor that outlives its object is not followed (undefined behaviour).

### AutStartup

`pc` says where each of the four threads is, `client` where the client is. Both injections are behaviours of the
same module (`running`). `Create`, `Register` and `Release` are `sithread`'s constructor, run by the loading thread for the worker and by the
worker for the server thread. Everything that allocates needs the heap lock, everything that loads, attaches, detaches or resolves a module needs the loader lock; the AUT's own
first thread takes and returns them at will, and may be suspended with them. The client's walks may give up before any thread (`WalkGivesUp`); the creation of
the worker, the pipe or the server thread may fail (`LoadFails`, `StartupFails`), which nobody hears of. A disable made before the slots exist goes to slot 0 and is lost to the allocated slot.

### HeaderCopy

`InterceptStubs` takes for granted that the copied header *is* the original function. `HeaderCopy` looks into that:
`CopyInstruction` is the loop of `generateFunctionHeaderCopy`, `Relocated` the decision and the handlers of `copyNextOpcode` for one
instruction, `JumpBack` the jump behind the copy and `WriteRedirection` `writeRedirection`. Then the processor runs the copy (`RunCopy`) and what is left of
the function (`RunOriginal`). An instruction is its class, length and displacement. `x64` chooses the platform: each has a header of its own in the code, and they differ.
A piece of the copy carries the original address it stands for (`means`), which maps a run of the copy to one of the function (`FunctionCode`); the pieces of one relocated instruction are one step and stutters.
`meant` is a history variable: the flag that the function's own comparisons left, which the copy's jumps may destroy.

### Patching

`InterceptStubs` takes the redirection as one step. `Patching` asks when it is one. A function (`code`) is a map from offsets to instructions
with a length and the places they go on to; threads (`at`) stand between two instructions, in a callee, in the stub or outside.
`WriteBytes` writes any of the five bytes that are left, because nothing orders the writes in a build. `EnablePage` and `RestorePage` change the page's protection before and after. With
`pauses` the server suspends a snapshot of the threads before and resumes them after, as `addIntercepts` makes it do; without, it is
`addIntercept` or HeatApi's `sendIntercepts`. `RunTorn` is a thread that meets some bytes of an instruction and some of the jump. It does not go on.

### ThreadRegistry

`Create`, `Register` and `Release` are the constructor of `sithread`, run by a replacement through `HeatCreateThread`; `BeginExit` and `EndExit` are
`DLL_THREAD_DETACH`, which looks an id up in one critical section and erases it in another. An id is free again when the thread is gone and
the caller has closed the handle (`CloseHandle`). `Snapshot`, `Visit`, `GiveUp` and `EndWalk` are the client's batch, and `Abandon` is its end without a resume: an intercept was refused, or the client is gone.
`hurried` has the ids of threads that a walk let run before they were registered. Nothing in the code destroys a `sithread`, so that
`TerminateThread` in its destructor, which would leave an id behind, never runs.

### FreeMemory

One search in a memory of pages that the application's threads allocate and free. `high` and `low` are the addresses to ask about next, `mbih` and `mbil` what Windows said last. Some things the code does are easily overlooked:

* The distances of the two candidates are compared with their signs, so that the one below always wins.
* Below, the search goes page by page; above, it asks for one page of each region.
* The new address below is compared after a truncation to 32 bits, so that the search below ends at every boundary of 4 GB (`Stops`).
* A query behind the last page fails, and what the last one said stays in use.
* The search in another process goes upwards only.

### StubMemory

`interceptFunction` as far as it concerns pages. The copied header and the caller stub get a page each, replacement stubs share pages: `pvMem` is the cursor and `pvMemBase` the page it is compared with.
`InitialiseStatics`, `AllocIfFar` and `CheckSpace` are the three places that may move the cursor to a new page, `WriteStub` moves it past a stub. Which page is found is left to `FreeMemory`: here it is any that HEAT does not have,
or none. The calls of `VirtualFree` on the error path have a size and `MEM_RELEASE`, which Windows refuses, so that nothing is freed (and nothing is freed twice). `Far` is the
code's check of a distance; what a jump can encode is another thing (`Displacement`, `Encodable`), as it counts from the jump's end. Two distances the
code does not look at are left out of `JumpsReach`: from a stub to the copied header, and to the code behind it.

### ImportTable

The client reads the header and the table, allocates a block, writes thunks, name and table, and then points the header to it between two changes of
protection. `Access` is one of these: it succeeds or fails, and the process may be killed, or the client crash, between any two. A user may try again (`calls`) or let the process run all the same (`OtherResumes`); then the
loader takes what the table holds (`ImportsOf`). The module's refinement of `ImportList` says that it never meets anything but the imports there were, or these with the server in front.
Handles that cannot be opened are null and compared with `INVALID_HANDLE_VALUE`, and the result of `ResumeThread` is not looked at:
TRUE does not mean that the process runs.
The place of the block is searched upwards without a limit, and the image's distances are cut to 32 bits: `reach` says what the image can address of the block (all, the table only, or nothing), and what it
cannot is `Elsewhere`, where there is no table, name or thunk; `cut` remembers that a header with such a distance was written. A retry after a failure to restore the protection puts the server in front a second time, which `ImportList` allows.

## Runs

| run | result | shows |
|---|---|---|
| `stubs` | pass, 199k states | calls nested three deep over a two-slot RAS and past its end: RAS, counter, re-entrance, which original a cached caller stub runs, what an overrun needs; refinement of `CallReturn` |
| `server` | pass, 432k states | pause and resume balance, answers tell the truth, a client waits for ever only behind a suspended lock holder; refinement of `RemoteCall` |
| `heatapp` | pass, 534k states | flags, list and suspend counts agree through injections that fail half-way; exits are noticed; calls return unless the server cannot answer |
| `startup` | pass, 11.9k states | held until `runApp`, running afterwards, registered, served unless wedged or without a server thread; walks and thread creation may fail |
| `startup_shield` | `ServerIsShielded` violated | the server thread disables interception in a slot that is not allocated yet |
| `header_copy` | pass, 1.59M states | the copied header followed by the rest of the function does what the function did; the jump back meets an instruction |
| `patching` | pass, 829k states | who can be torn by a redirection, with and without a pause; when the redirection is one step (refinement of `Redirection`) |
| `registry` | pass, 126k states | HEAT's threads are registered while they run, ids that are used again are not; suspend counts add up; threads run at last unless a batch was left half-way |
| `free_memory` | pass, 499k states | the search below misses nothing in its segment; the search ends |
| `stub_memory` | pass, 242k states | no code over other code or off its pages; displacements lead to their stubs, but for the edge that the check forgets |
| `stub_overrun` | `StubsFit` violated | the check for space measures from the wrong page, and a stub leaves its page |
| `import_table` | pass, 83k states | the answer tells what the loader will find, in reach of the image; refinement of `ImportList` |

The two violated runs are two findings, each against a comment of the code, quoted in `PROJECT.json`.

### Claims of the code that do not hold

These are stated as definitions in the modules, with no run of their own. Each is violated when it is added to the
configuration named here, with the constants that are given.

| definition | what the code says | reproduce | what happens |
|---|---|---|---|
| `InterceptFound` (`InterceptStubs`) | `heatNGserver.cpp:211`: "assert(si != 0)", for every replacement that asks for its original | `Stubs.cfg`, as invariant | the redirection is written before the intercept is recorded, and a replacement may run in between |
| `ReplacementIsShielded` (`InterceptStubs`) | `siheatsupport.h:222`: "disable intercepts again for the rest of the replacement code" | `Stubs.cfg` with `SpanningDisables = TRUE` | a caller stub overwrites a counter that a replacement has counted up |
| `AnswerIsStatus` (`AutServer`) | `CommClient.h:59`: "read back command execution status", on which `sendCommand` answers | `Server.cfg`, as property | the last read's result is ignored: an AUT that dies may be answered TRUE |
| `IsRunningTruthful` (`HeatApp`) | `CHeatApp.cpp:653`: "Returns true if the application is currently running, false otherwise" | `HeatApp.cfg` with `Processes <- MCTwoProcesses`, `Reuse = TRUE`, `MaxOpens = 2` | `m_bRunning` survives a detach (line 352) and lies about the next process |
| `ResumedByDestructor` (`HeatApp`) | `CHeatApp.cpp:161`: "make sure we don't leave the app in a paused state" | `HeatApp.cfg`, as invariant | it resumes through `resumeApp`, which refuses after a detach |
| `InterceptTakesEffect` (`HeatApp`) | `CHeatApp.cpp:576`: "Begins intercepting the function given by pszFuncToIntercept" | `HeatApp.cfg`, as property | line 386 ignores the answer, and a refused intercept is marked sent |

Three more disagreements are part of the models as they are:

* `IsHeatCreatedThread` (`heatNGserver.cpp:241-253`: "dwThreadID - the thread id to check ... true if the thread was created by heat") looks up the caller's own id, whatever it is asked. In `ThreadRegistry` it has
  both parameters and uses the first, and the properties quantify over the second.
* `injectIntoProcess` answers TRUE for a table that lies 4 GB or more above the image, although the distances it wrote (`sistartwith.h:272-274,286`) have lost their upper half and the loader finds no server there (`cut`).
* The check of distances (`sisystem.cpp:254`) lets four addresses pass whose displacement overflows in `writeDisplacement` (`sicodegen.h:71-76`), which counts from the end of the jump (`AtTheEdge`).

### What the passing properties exclude

What the passing properties had to exclude says as much as they do. Each of the following is in a property's formula, as a premise or an alternative;
what the modules leave out altogether is under *Not modelled*.

* `RASMirrorsStubs` and `Transparent` promise nothing of a word behind the RAS page that its owner has overwritten; `PageSuffices` says that it takes more pending stubs than the page has slots to get there.
* `OwnOriginal` excepts a caller stub of an intercept that was recorded before the replaced function's own: a replacement that looks its caller stub up between the redirection and its recording gets the last entry of the list
  (`heatNGserver.cpp:79-94`), and its static keeps it. The property says that this is the only wrong original there can be.
* `CounterMatchesContext` and `ProtectedReentrance` need replacements that do not hold a disable across the call of their original (`SpanningDisables = FALSE`): a caller stub overwrites the counter (`ReplacementIsShielded`, above).
* `BatchRestores` speaks of batches that were answered TRUE, `AnswerMatchesEffect` of commands that both ends survive, and `IsRemoteCall` allows any answer after a disconnect (`AnswerIsStatus`, above).
* `NothingPending` and `PatchedOnce` need that no detach has given up half-way. `detachFromApp`
  marks the whole list unsent before a pause that may fail; the object stays attached, and its
  next `interceptFunc` sends intercepts whose redirections are still in place.
* `RunningMeansResumed` needs that no pause has given up half-way, and that no resume walk of an injection has given up before a thread which the injection had suspended.
* `ExitNoticed` is about a process that exits after the attach has returned.
* `AnswersOrWedged` allows for a server thread behind a suspended lock holder, or suspended along with the others. `CallsReturn` allows for these (`ServerSilent`) and for a server thread that could never be created.
* `Served` allows for a thread suspended with a lock (`Wedged`: `suspendWorker` suspends the loading thread wherever it is, and a resume walk may give up), and for a pipe without a server thread (`Serverless`).
* `AutReleased` excepts a first thread that a resume walk did not reach before it gave up (`missed`).
* `Registered` is about an AUT created suspended. In a running one the client's `resumeAllThreads`, after its ten seconds' wait, can resume
  the new thread between `CreateThread` and its registration, although `sithread` creates it suspended to register it first.
* `RunningIsRegistered` and `NoStrangers` except the ids of threads that a walk has resumed before their maker registered them (`hurried`). Such a thread may exit with nothing to erase; its maker then registers the id of a dead thread, which
  Windows gives to another.
* `NobodyLeftBehind` needs that no walk has given up half-way (`gaveUp`) and allows one suspend for each abandoned batch; `RunsAtLast` allows for either.
* `PausedIsSafe` and `SafeOnceInstalled` need a function without a branch back into its first five bytes (`NoWayBack`). `PausedIsSafe` excepts threads that stood among the
  bytes, or were to return there, at the first write, and threads that the walk did not see. Without a pause anybody may be torn, and is.
* `IsOneStep` needs, besides, that nobody escapes the pause and that the first instruction is as long as the jump (`AtOnce`), as it is in functions that are made to be patched on the fly.
* `NothingMissedBelow` is about the search in both directions, and about pages below the address within its 4 GB.
* `CodeIsKept` needs that no new page was found below the base (`behind`); `stub_overrun` shows why. `JumpsReach` needs that a page was found near whenever one was asked for (`scarce`), and excepts
  stubs in the last addresses below that pass the check (`AtTheEdge`).
* `AnswerIsTruthful` excepts, for FALSE, a call that wrote the header and could not restore its protection (`relocked`): the server is then loaded all the same. For TRUE it needs distances that
  were not cut (`cut`), and so does `AddsImport`. `ImportList` lets each call add the server once, so that a call repeated after such a FALSE adds it again.
* `RunsAsCompiled` needs a `Regular` function, and `BackToAnInstruction` what of it is about decoding and distance. Without any one of these
  exclusions TLC finds a wrong run, but for the comparison behind a branch's target and the loop and the data out of reach, which the menu of instructions is too small for:
  - a branch of the function into the five overwritten bytes;
  - a `ret` with an operand that ends the header: `IMMED16` copies one byte of two, on both platforms;
  - on Win64, jumps in the header: `JumpShort` and `JumpCondShort` take an 8-bit displacement as unsigned, and all four handlers add it to a
    pointer that `readByte` or `readDWord` moves in the same expression;
  - on Win64, a call through a register in the header, which takes the handler of a near call;
  - on Win64, references out of reach of the copy: a near call's parameters are shifted by the `rbx` that is saved below them; the far half of a loop and an operand addressed by RIP
    are written with 32 bits all the same;
  - on Win64, a condition tested behind the header that was not computed there: no near jump is ever written (the two bounds in `writeJump` exclude each other), and the far one changes the flags;
  - on Win64, a copy just above its function, within a short jump: the short form is measured from the end of the near one.

### Bounds, and why they are enough

* `stubs`: one thread, two functions, two call sites, two intercepts, depth three, two RAS slots, one outstanding
  disable. Depth three over two slots fills a page and pushes once behind it, over a word that its owner may or may not have written, before or after. Threads share the list of intercepts, which only the server changes, and the statics.
  Two threads that race for a static are covered by the proofs only, which hold for any number; with one thread the static is still filled in the gap before the recording and used long after.
  Sites and functions are symmetric; all the properties checked with symmetry are invariants or step properties, none is a liveness property.
* `server`: a first thread, a second one, a third that is created on the way, two functions, two calls of the client. Two calls are
  needed for a pause that follows a failed batch, three threads for one inside, one behind and one gone from a snapshot.
* `heatapp`: one process, a first thread, a worker that comes and goes, the server thread; one attach, five calls, two functions. The histories that the properties
  turn on are create or attach, intercept, inject, then pause or detach, then resume or intercept: five. (Six calls, 1.9M states, pass as well.) The proofs cover any number. (`IsRunningTruthful` takes two processes and two attaches.)
* `startup`: the threads are HeatNG's and the program's first one, and a walk may give up at any place, as if it met another of the program's threads that has exited; the only bound is one first command.
* `header_copy`: headers of three instructions from a menu of nineteen (nine for the third), two tails, a copy just above its function, one further above and one below, calls in reach and out of it. Nine bytes, the longest
  header asked for, are two or three instructions; shorter headers take the tail in. Displacement bytes are 8 bits wide, 32-bit displacements are scaled down to `Reach`. The proofs cover any function.
* `patching`: two threads, one more that may be created behind the walk, and five functions: one long first instruction, short ones, a call that returns into the middle of the jump, one that
  returns behind it, and a loop into the middle. One installation. Threads do not meet but through the bytes and the walk.
* `registry`: three ids, so that a maker, its thread and a third exist at once, and an id is used by both kinds of thread in turn; one batch of the client's (a pause, and a resume or none).
  That suspends of several batches add up, abandoned ones included, is covered by the proof only, which has any number.
* `free_memory`: five units of allocation of four pages, 4 GB are three of them, every unit but the first taken by none, one, three or four pages; two changes by the application. The proof covers any memory.
* `stub_memory`: four calls for two functions out of each other's reach, five pages of four units, two low, three high, two of which touch. Two calls fill a page, the third needs a new one, and the fourth meets its successor's cursor. A stub at the edge of what a jump can reach is among the choices. The proofs cover any number.
* `import_table`: two imports, three calls: one that fails after the header was written, one that adds to its table, and one more, each with a block that the image reaches, partly reaches or does not reach.

### Fairness, and why the code justifies it

* `AutServer!FairSpec`: the client inside a call, and the server thread, go on while they are enabled
  (weak; Windows schedules threads that are not suspended). Threads leave critical sections when they
  run. Steps that wait for the locks are strongly fair, as the kernel hands a lock that is released again and again to its waiters.
  Nobody has to call, crash, exit or create a thread.
* `HeatApp!FairSpec`: the current routine and each monitor go on (weak).
* `AutStartup!FairSpec`: the client goes on and the program gives its locks back (weak); the loading thread, the worker and the server thread wait for
  locks that others take meanwhile, hence strong fairness.
* `ThreadRegistry!FairSpec`: a walk goes on, and a thread that creates another goes on while it runs (weak). A client that has paused resumes or abandons its batch: which one, nothing says. Nobody has to begin a batch, create a thread or exit.
* `FreeMemory!FairSearchSpec`: the thread that searches goes on (weak). That the search ends does not depend on what the application does meanwhile: either side moves one way only.
* Safety properties are checked on these specifications too, and do not depend on fairness. The violated safety runs use `Spec`.

## Proofs

TLAPS proves the following for every value of the constants that satisfies the named assumptions in the modules.

`InterceptionProofs`, the part on `InterceptStubs` (assumption `ConstAssumption`):

* `TypeCorrect`, `RASMirrors`. `RASMirrorsStubs` is not inductive without the types and `TypeOK` is not
  inductive without it: that `rasPtr` does not go below the page on a pop follows only from the number of stub frames.
  `RASInv` is their conjunction. The lemmas on `Rank` and `StubFrames` say
  what a push and a pop do to the order of the stub frames; `StubPush`, `StubReturn`, `DirectCall` and
  `DirectReturn` cover every action that touches a stack.
* `CounterCorrect`, `Shielded`, `Reentrance` (with `SpanningDisables = FALSE`). `CounterInv` adds to
  the counter's value that frames are well nested: a replacement frame was entered with interception on and nothing disabled, an original frame
  from replacement code. A return then restores the value the frame below expects.
* `Harmless`: what a step writes behind the page is the word at the top of a thread that has more stubs pending than the page has slots (`PushedPastPage`), and a return to foreign data reads such a word (`LostPastPage`).
* `RunsOwnOriginal`: `OwnInv` adds to `OwnOriginal` the pointers that are on their way (`StaticsOwn`): what a static holds, and what a thread has looked up and not stored yet, which it stores long after the list and the static
  may have changed. An intercept that is recorded later changes neither what an earlier position holds nor whether it came before (`OwnStable`). The lookup itself finds the first intercept of the name, or the last of all (`LookupFinds`).
* `Transparency`: `Spec => CR!Spec`. Each stub action maps to one call or return of `CallReturn`, from `RASInv`: a return through the RAS goes
  where the top frame's caller is. It holds with `SpanningDisables`, too.

`InterceptionProofs`, the part on `HeaderCopy` (assumption `CodeAssumption`), for any function, any page for its copy and any reach of a displacement. The two modules are proved about in one, which is why
names of `HeaderCopy` that `InterceptStubs` has, too, begin with `Copy`. The assumption says what a compiler and `VirtualAlloc` provide: instructions stand one behind the other, do not overlap and are at most
fifteen bytes long, control does not run off the end of a function, and nothing of the function, nor what it branches to, is on the page of the copy. The page may be on either side of the function: `memoryAllocNear` looks below first.

* `CopyTypeCorrect`, `BackCorrect`: from `Written`, which says that the copy is a strip of pieces without gaps (`Strip`), that it fits on its page (`Fits`), that decoding stays in step with the function
  or has left its end behind (`InStep`), and where the last piece jumps (`EndsWithJumpBack`). The type invariant alone is not inductive: that a displacement byte is a byte, and that the next
  piece begins where the last one ends, has to be known of what each handler writes (`JumpCondWrites`, `LoopShortPieces`, `CallNearWrites` and so on). `Fits` is needed for the jump back: a copy below its function is too far for a short jump only if it keeps to its page.
* `Compiled`: `CopySpec => FC!Spec`. `Faithful` says what each piece of a regular function's copy stands for: the same instruction with its displacement corrected, a widened jump, a `ret` whose operand follows, the three
  pieces of a loop, or bytes that are no instruction; and that the next piece stands for what comes next. It is not inductive without `Written`, and is kept when more is written behind (`KeepsStanding`).
  `OnCourse` then says that the processor is at a piece, or at what is left of the function, and that on Win64 the flag is lost only where nobody tests it. Each kind of piece has a lemma on where the processor goes from it (`SameGoes`, `JumpGoes`,
  `RetGoes`, `LoopGoes`, `SkipGoes`, `JumpOnGoes`, `JumpBackGoes`): one step of the function, or a stutter on the way to it.
  The proof found one case that the menu of instructions does not have: on Win64 a loop or an operand addressed by RIP must be in reach of the copy as calls must, and `Regular` says so.

`AutStartupProofs` (assumption `ThreadAssumption`):

* `TypeCorrect`.
* `Held`: `HeldUntilRun` follows from `FirstThread` (in an AUT created suspended the first thread passes its states in order, and no walk
  of the client's reaches it) and `WorkerFirst` (until the worker's suspend there is no pipe, and
  after it the count is at least one until `runApp`).
* `Released`, however the DLL got in: `AutReleased` speaks of the end of a run, `Releasing` of every state before. The first thread's count is never two: in an AUT created suspended it is one from `CreateProcess`
  to the resume behind the injection and from the worker's suspend to `runApp`, and a count of one says which of the two it is (`HeldOnce`); in a running one it is one exactly between the visits of the client's pause and resume (`Walked`), or for good when the resume gave up before it (`missed`).
* `AlwaysRegistered`: from `WorkerIds` and `ServerIds`, which tie the register and the suspend count of each new thread to its creator's step.

`PatchingProofs` (assumptions `CodesAssumption`, `PlacesAssumption`, `ThreadsAssumption`), for any functions and threads:

* `TypeCorrect`, `PauseProtects`, `InstalledIsSafe`. The invariant says where a thread may stand in each phase: under a pause, after the first
  write, those of the snapshot are suspended, and stand behind the jump unless they were inside at that write.
* `OneStep`: `Spec => R!Spec`. Under `AtOnce` nobody runs between the first write and the last, so that the writes of some bytes stutter
  and the last of them is `Redirect`.

`ThreadRegistryProofs` (assumption `IdAssumption`), for any ids and number of batches:

* `TypeCorrect`, from `Sound`: types, one maker for each new thread (`Makers`), and nothing suspended that is gone (`Leavers`).
* `Registered`, `NoStranger`: `KnownInv` adds what a thread that leaves has found out about itself, which must still be so when it
  erases its id, although other ids come and go in between. It speaks of ids that no walk has hurried; what happens to the others does not touch them.
* `LeftBehind`: `BalanceInv` bounds every suspend count by what its maker (`Owed`) and the walk (`Pending`) have still to give back, and the batches that were abandoned, over any number of them.

`MemoryProofs` (assumptions `MemoryAssumption`, `PageAssumption`, `FunctionAssumption`), about both modules, which is why the names of `FreeMemory` that `StubMemory` has, too, begin with `Search`:

* `SearchTypeCorrect`, for any memory, unit and boundaries: above all, that no address is negative.
* `NothingMissed`: `SearchInv` says that the page asked about is not below any page that could have been had throughout and is still due. Its core is that regions end behind the page they are
  asked for, which rests on the existence of least elements (`Least`, from the well-foundedness of `<` on the naturals).
* `TypeCorrect`, `Kept`, for any pages, stubs, functions and reach: `KeptInv` has the cursor on a page of HEAT's and behind everything that is written there; a page that is new holds nothing, and pages do not overlap.
* `Reaches`: from the steps' order: a cursor that is used was compared with the function, or is new, since the function was chosen.
  So `ReachInv` has every stub within the code's check, and arithmetic has the rest (`NearIsEncodable`): what passes the check is encodable, or is one of the last addresses below.

`ImportTableProofs` (assumption `ImportAssumption`), for any imports and any number of calls:

* `TypeCorrect`, `Truthful`. `ImportInv` says that, unless a distance was cut, the table the header points to is whole (it ends, and thunks and names of all before the end are there), and, step by step, what the call in
  progress has written into a block that the header does not point to yet.
* `Implements`: `Spec => L!Spec`. Only `WriteHeader` changes what the loader meets; it does not stop short, as the new table was written before it, nor come late, as nobody resumes the process in the middle of a call.
  A header with a distance that was cut is `ImportList`'s `Lose`. `ListedWhole` and `BeforeFront` say what a loader takes from a whole table, and from one with a descriptor more.

`AutServerProofs` (assumptions `ConstAssumption`, `CommandAssumption`), for any threads, functions and number of calls:

* `TypeCorrect`. That a handler never meets a command without data, and a walk never a missing command, is known only from who has written what: `PipeInv` says that, while the AUT lives, client and
  server take turns over one command, the first of the batch (`Turns`), and what order a batch is in (`Ordered`: a pause first, a resume last, no function twice).
* `RemoteCallImplemented`: `Spec => IsRemoteCall`, from the same invariant. The client's beginning of a command is `RemoteCall`'s `Invoke`, the handler's return `Execute`, the client's read of the status `Answer`; a crash of either
  end is `Disconnect`, and a call that fails after it `Abandon`. All other bytes, walks and threads stutter.
* `AnswersMatchEffects`: `EffectInv` follows the current command's function from "not redirected" through the server's steps to the status byte in the pipe; the functions of later commands are not redirected.
* `PausedWhileInstallingCorrect`: `PausedInv`. The snapshot's part that the walk has been through is suspended, until the resume's walk. It needs that a thread that is created
  is none of the snapshot's (`snap \subseteq spent`), and has to say what is left of the claim when the AUT is dying while the server is still installing.
* `BatchesRestore`: `BalanceInv` compares every living thread's count with the one before the call, step by step: even, one more behind the pause's walk, back behind the resume's. A thread created meanwhile
  has the count zero on both sides, as the resume's `ResumeThread` does nothing to it.

`HeatAppProofs` (assumption `ConstAssumption`), for any processes, functions and number of calls:

* `TypeCorrect`, however the object is used: `TypeInv` adds the plan of each API call (`Planned`: what can be left of it, from which each routine's successor is known) and that an object that needs a process has one (`Opened`).
* `NeverPatchedTwice`, `AllSent`, `FlagMeansResumed`, for an object that is attached once (`~Reuse`), like the run's. The hypothesis is what the code needs: `detachFromApp` leaves `m_bRunning`, `m_bInjected` and the connection of the
  process behind (`CHeatApp.cpp:352`). With `MCTwoProcesses`, `Reuse = TRUE` and `MaxOpens = 2` TLC finds each of the three violated: the next process is taken for injected or running, and the list is sent to the old one again.
  `SingleUse` says what one use means: before the attach the object is as constructed, monitors wait for the one process, and only that has been patched.
* `PatchedOnce` and `NothingPending` are not inductive: that a function about to be sent is not redirected yet is known only from the list. `InterceptInv` has that what is redirected is on the list and marked sent (`Marked`),
  that what is on the list has been sent outside the calls that send (`Sent`), and that the checks in a detach do not refuse half-way (`DetachGoesOn`).
* `RunningMeansResumed`: `RunInv` follows the two walks. What a pause has not reached still runs, what a resume has reached runs again, and nothing is suspended twice unless a pause has given up. An injection's two walks, which the model takes in one step, raise no thread's count,
  or the injection is marked as one that gave up (`Injecting`).

No run lists the types of `FreeMemory`, `StubMemory`, `Patching`, `ThreadRegistry` and `ImportTable` among its properties; they are proved.

Every safety property of a passing run, and every refinement, is a theorem. Only model-checked:

* Liveness under fairness (`AnswersOrWedged`, `ExitNoticed`, `CallsReturn`, `Served`, `RunsAtLast`, `SearchEnds`): the prover does not reason about ENABLED.

`ServerIsShielded` and `StubsFit` do not hold.

## Plan

Done, in this order: `InterceptStubs`, `CallReturn` and proofs; `AutServer`, `RemoteCall`; `HeatApp`; `AutStartup` and proofs; `HeaderCopy`, `FunctionCode` and proofs; `Patching`, `Redirection` and proofs;
`StubMemory`, `FreeMemory` and proofs; `ThreadRegistry` and proofs; `ImportTable`, `ImportList` and proofs; the proofs of `AutServer` and `HeatApp`.

Left:

1. `InterceptList`: the pointer list of `CIntercepts`, shown to implement the sequence `HeatApp` uses.
2. `updateCriticalSystemPointers`, as a second user of `FreeMemory`.

## Not modelled

* What happens to the owners of the heap words that an overrun RAS overwrites, the RAS of another thread included, and where a thread goes that returns to foreign data; the access violation of a page that ends its heap segment.
* The canary of a RAS is written and never looked at, and the first push overwrites it; `deinitRASForThread`, which would, is called by nobody.
* The race of `getInterceptByName`'s iteration with `m_intercepts.push_back`, a data race without a lock: `Lookup` reads the list as it is before or after.
* `TlsAlloc` failing in `startupServer`; a server that comes up in `HeatApp` only after `ConstructThrows` has returned; threads of the AUT other than its first, HeatNG's and, in
  `HeatApp`, one worker: a walk that meets another one that has exited is a walk that gives up (`WalkGivesUp`).

* `stopServer`: it is called from `DLL_PROCESS_DETACH` only, when Windows has ended the other threads already.
* `updateCriticalSystemPointers` copies a fixed list of headers to one page, checking for space after each copy; the page is large enough for all of them.
* Code nobody calls: `refreshHeaders`, `dumpDH`, `runInThread`, `deinitRASForThread`, the destructor of `sithread`; the branches
  for a paused `HeatNGApp`, whose state nothing assigns; and what is commented out in `siinject.h` and `siheatsupport.h`.
* The opcode tables, prefixes and the encoding of instructions (data), formatting, debug output and the exception class.
* `siintercept.cpp` and `sidisasm.cpp`, which are not part of the build, and the test programs for their own sake.

Windows is modelled from how the code uses it: suspend counts, thread snapshots,
handles, named pipes, TLS slots, virtual memory, the loader lock and the heap lock.
