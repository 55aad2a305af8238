# A TLA+ model of godot-onnx-loader

godot-onnx-loader is a GDExtension: a GDScript class, `OnnxLoader`, over a small
C wrapper of ONNX Runtime (`src/onnx_runtime.c`).  The wrapper keeps tensors
between calls, reuses them in place, shares one environment among all sessions
of the process and finds the runtime library by itself.  Nothing of that is a
difficult algorithm; what is hard is that everything is shared through slots and
globals that outlive a call, and that almost every line can fail halfway.  This
directory models those parts, checks them with TLC and proves the invariants
that matter most with TLAPS.

File names below are relative to the repository.

## 1. The system

| Component | State | Operations | Hard behaviour |
|---|---|---|---|
| Runtime session (`onnx_runtime.c`, `struct OnnxRuntime`) | bound input tensors and their remembered shapes, cached outputs and the index of each, generation, counters, profiling flag, last error; behind the handles, the values ONNX Runtime allocated | create, destroy, set_input, run, output getters, predict, predict_shaped, end_profiling | reuse in place, replacement and release, failure at every call into ONNX Runtime, arbitrary output selections, compound calls that share slots with simple ones |
| Tensor shape arithmetic (`onnx_runtime.c`, `OnnxLoader.cpp`) | none | flat size, element count of a requested shape, shape made up by predict, room for an output, bounds of a slice | overflow, zero, dynamic dimensions, unsigned subtraction |
| Shared environment (`onnx_runtime.c`: `g_env`, `g_env_users`) | the environment and the number of its users | use and unuse, called by create and destroy; shutdown | a reference count with some twenty failure paths, an escape hatch that abandons sessions, a terminator that may come too early |
| Library resolution (`onnx_runtime.c`: `g_ort`, `g_ort_dlhandle`, `g_ort_libpath`) | API pointer, library handle, recorded path | search, open, ask for the API; report the path; shutdown | three globals written in different places, failures between them, files that come and go |
| `OnnxLoader` (`OnnxLoader.cpp`) | the session or none, its own last error | load_model, unload_model, the methods that forward to the session | a load releases the old session first; the error lives in two places; sizes checked here and below |
| Introspection, descriptors (`tensor_float_info`, `copy_descriptor`) | names, dimensions and flat sizes, constant after create | look at every tensor during create; read | which models are refused and with what error, names cut by fixed buffers, the flat size |
| Model metadata (`onnx_runtime_metadata_*`, `get_model_metadata`) | only during a call: objects obtained from ONNX Runtime, the keys, the dictionary so far | list, look up | fixed buffers cut keys and values, every request may fail with objects in hand |
| Registration (`register_types.cpp`) | none | register, terminate | when the terminator runs |
| Demo inspector (`demo/matrix_demo.gd`) | an editor per input, output names, what is on display; a loader that every load replaces | load, edit, apply, run, benchmark | a failed load leaves the editors of the model before, a press may stop between two bindings |
| Test programs, smoke scenes, build, packaging, CI, fixtures | files | scripts | none a model checker helps with |

Calls go one way: GDScript to `OnnxLoader`, to the session, to ONNX Runtime; the
session also uses the library and the environment, whose state is global to the
process.  There are no callbacks.  Concurrency is what the README of the program
allows ("Thread ownership"): one owner at a time for each loader, different
loaders concurrently, creation and destruction serialized by the application.
`get_diagnostics` is neither creation nor destruction, yet it loads the library
when nothing has: that is where the globals of the library meet two threads.

What makes each component correct, in short: a session never loses, frees twice
or overfills a tensor, answers by name, and never answers with something old; the
environment outlives every session and is released with the last; the library
loaded is the first one found and its path is the one recorded, as long as loads
do not overlap; a supported model
is loaded and its names lead back to its tensors; metadata listed is the model's
and nothing obtained for it is leaked; the loader's errors and answers belong to
the model loaded last, and so does what the inspector shows.  `PROJECT.json` lists the
hazards one by one, at their lines, with the properties that cover them.

## 2. The modules

    TensorShape                      the arithmetic, as functions
      MCTensorShape                  ... against reference definitions
        TensorShapeProofs            theorems: the same for shapes of any size
      OnnxRuntime                    one session             <- refines TensorContract
        MCOnnxRuntime                instances for TLC
        OnnxRuntimeProofs            theorems: invariants
        OnnxLoader                   the GDScript class        <- refines TensorContract
          MCOnnxLoader               instance for TLC
          OnnxLoaderProofs           theorems: predict, the contract, the class
      Inspector                      the demo inspector over a loader
        MCInspector / InspectorProofs
    TensorContract                   what the documentation promises of both
    SharedEnv / SharedEnvProofs      the environment, and theorems
    OrtLibrary                       the library, call by call
      OrtLibraryThreads              ... step by step, on threads  <- refines OrtLibrary
        OrtLibraryProofs             theorems about both
    Introspection                    which models load, and their names
      MCIntrospection / IntrospectionProofs
    Metadata                         listing and looking up metadata
      MCMetadata / MetadataProofs

Operators whose comment begins with "fault" are plausible mistakes.  No
specification uses them: each stands next to the definition it could have been
and shows that a property would notice.

### TensorShape

`CheckedProduct`, `FlatSize`, `ConcreteShape`, `ShapeFits` and `SliceFits` are
the guarded loops of the runtime, `OutputShape`, `OutputCount`, `OutputLength`
and `SliceLength` what the readers of `OnnxLoader` make of an output. The one
whose rank exceeds the room of `get_output_shape` is among them: `get_output`
gives nothing of it, while slices and scalars go on reading it. All are
recursive functions over the prefixes of a shape. `Int32Max` and `SizeMod` are
constants, so that the guards bite on small numbers. Nothing in the module is
declared `RECURSIVE`, since the modules with proofs build on it.

### OnnxRuntime

The variables are the fields of `struct OnnxRuntime` plus `heap`, which says what
each live `OrtValue` holds (`Null` when it is not allocated).  Handles are reused
freely by the allocator: a new value may get the address of one just released.
A tensor is a shape and its data; the data of an output is the term "output `o`
of the model applied to these inputs" (`Evaluate`), so that two outputs are equal
exactly when they must be.

| Code | Action |
|---|---|
| `onnx_runtime_create`, `_create_profiled` | `Create`, `CreateFails` |
| `onnx_runtime_destroy`, `_drop` | `Destroy` |
| `onnx_runtime_set_input_f32` | `SetInput`: `BindInPlace`, `BindFresh`, `BindRefused`, `BindFails` |
| `onnx_runtime_run` | `Run`: `RunSucceeds`, `RunRefused`, `RunFails` |
| `onnx_runtime_predict`, `_predict_shaped` | `Predict`, `PredictShaped` (bind), then `PredictRun`, `PredictRead`; `PredictRefused` |
| `onnx_runtime_has_output`, `_output_data_f32` | `HasOutput`, `Readable`, `OutputOf` |
| `onnx_runtime_end_profiling` | `EndProfiling` |

A call is one step, since a session has one owner; predict is three, because the
three calls it makes are those of the public interface and share everything with
them through the slots.  The other steps wait while a predict is under way.
`NamedSpec` leaves the predicts out, for instances that are about the named calls.
The `ok` of an action is what the call returns; ONNX Runtime may fail wherever the
code asks it something (`lastError = "ort"`).  Where it fails after it allocated
something (the new tensor of a binding, the outputs a run had begun), the values
are put on the heap and then released by `Discarded`, so that a release left out
is a leak the model shows.  A run that names more outputs than the model has is
recorded as a `"long_run"` in `reply` (`RunOp`), since it alone is turned down
before the cache is released.

`TensorContract` is the same interface without handles, reuse or release: a table
of bindings, a table of outputs, a generation, and what `run` told its caller
(`returned`).  The last is what makes a failed run a step of its own there: an owner
who is told "failed" has an empty output table.  The code breaks that in one case,
the run that names too many outputs, and the contract has it as an exception of
its own, `RunRefuse`; that the exception is needed is what `run_refused_stale` shows.
`ImplementsContract` maps the session's slots to those tables and `Returned` to what
the caller was told.  The owner of an `OnnxLoader` sees one model after
the other through the same tables: `Replace` empties them under a model that is
loaded over another, and `LoaderImplementsContract` is the refinement of
`LoaderSpec`.

### SharedEnv

One action per effect on the shared state: a loader's `step` says where in
`onnx_runtime_create_impl` or `onnx_runtime_destroy` it is.  `turn` is the
serialization the program's README asks of applications; sessions that are ready
run (`BeginRun`, `EndRun`) whoever has the turn.  Environments are numbered, so
that a session can be seen to point into one that was released.

The terminator (`Shutdown`) may come at any moment between two calls, and the
module may be used again after it; `orderly` is a history variable that remembers
whether every loader was gone each time.  `ONNX_LOADER_SKIP_SESSION_RELEASE`, the
escape hatch that abandons sessions instead of releasing them, is read anew at
every call, so `SwitchSkip` changes it at any step, to the values in `SkipTo`;
`leaked` remembers the environments of the sessions it abandoned.  `SkipTo` does
not contain FALSE in the run or in the theorems: see section 6.

### OrtLibrary

A file is its rank in the search order, and is one of four kinds, according to
how far `ort_api` gets with it; one that is not there has the kind `Absent`, which
means nothing.  `Written` are the places whose path the search
writes into the buffer before it tests them: the fixed relative paths are the
exception.  Files are installed and removed between calls.

### OrtLibraryThreads

`ort_api` again, one action per access to the three globals: read `g_ort`
(`AlreadySet`, `MustLoad`), read the handle (`UseHandle`, `BeginSearch`), empty the
buffer, write a candidate into it, test it there, `dlopen` what the buffer says,
look for the entry point, ask for the API.  A thread creates a session
(`BeginCreate`), which takes the turn that README.md asks of creations, or asks for
diagnostics (`BeginDiagnostics`: the version, then the path), which takes none and
comes at any moment.  Either may find nothing loaded and load.

`image` is what the library behind the handle is, which stays what it was when its
file is replaced.  Two variables are history and not code.  `alone` is TRUE as long
as no load has fallen into another, nor a reading of the path into a load, since
the start or the last termination; two threads of which one loads and the other
only finds `g_ort` set do not disturb each other.  `settled` is what the globals
were when an undisturbed `ort_api` last returned, and it is through `settled` that
the module implements `OrtLibrary`.

What shares a step: `onnx_runtime_ort_library_path` reads path and API at once
(`Report`, `ReportLoading`), together with the copy of what it returns; `dlopen` of
the buffer and the store of the handle; the two writes of `NoBase`, and each last
write before `ort_api` returns with that return; the characters of a candidate.
`Forget` puts a local back that will not be read again; that is a reduction of the
state space and nothing the code does.  Files change, and the module is terminated,
only while no call is under way.

### Introspection

The two nested loops at the end of `onnx_runtime_create_impl`: one action per
value, which stores its name (`Store`) or refuses the model (`TooDeep`,
`NotFloat`, `OrtFails`).  A value may also be no tensor at all, a sequence or a map:
the cast to a tensor then succeeds with NULL, and that goes unlooked at into the
next request.  `NotTensor` leaves open what ONNX Runtime makes of it, an error or
the end of the process (`step = "ended"`).  `Cut` is what the buffer of a name
holds of it.

### Metadata

`get_model_metadata` is one listing of the keys and one lookup per key;
`get_metadata_value` is a lookup.  `step` says where in a helper the call is,
`live` which objects of ONNX Runtime it holds, `Freed` what its exit path
releases.  Texts are members of a small set; `CutKey`, `CutValue` and `Latin1`
are the conversions: what a buffer of 128 or 65536 bytes holds, and what
`String(const char *)` makes of bytes.

### OnnxLoader

Extends the session with the loader's own error and with the checks each method
makes before it asks the session.  `live` stands for `rt != nullptr` and `reply`
for what the script gets; `exact` tells a predict from a predict_shaped under way.
In `reply`, a `set_input` of more dimensions than the loader copies is a
`"deep_set_input"`, on which it returns at once and records no error.  A run of more
names than the model has outputs is a `"long_run"`: the session refuses it and says
so, but the loader does not get that far, and says nothing, when the names are also
more than it copies.

### Inspector

The editors (a shape text, the count it had when it was applied, values), the
output names, the panels and the loader, reduced to its model, its bindings and
what it computed. A press binds the editors one by one (`BindInput`), each of
which may stop it (`BindInputFails`), then runs once or as often as the
benchmark asks, then shows. The getters may come back empty for any output, for
its shape (`get_output_shape`) and its values (`get_output`) independently, and
the inspector shows that without a word (`Parts`, `Blank`). `ElementCount` is
the product GDScript computes in 64 bits, which wraps.

## 3. What TLC checks

| Run | Instance | Shows |
|---|---|---|
| `tensor_shape` | dimensions -1..4, rank up to 3 and outputs of one more, `Int32Max` 11, `SizeMod` 512 | the arithmetic against unguarded definitions; what is announced is accepted; outputs are handed out whole; the ways to read one agree, for outputs whose elements a `size_t` counts, as ONNX Runtime does, and except for a rank over the loader's room, of which `get_output` alone gives nothing; slices stay inside |
| `session_named` | `NamedSpec`: 2 inputs (one with a dynamic batch), 2 outputs, 5 handles, 6 kinds of selection | types, ownership through failures before and after an allocation, in-place reuse, answers by name, generation, refinement of `TensorContract`, the return of every run included |
| `loader` | 1 input, 1 output, three output sizes, buffers of three capacities; load, replace, unload, named calls and predicts interleaved | errors, replacement, nothing left by failed runs that named no more outputs than there are, predict complete and about its own input, refinement of `TensorContract` |
| `shared_env` | 3 loaders, 3 environments, terminator at any time, escape hatch off, on or switched on | the environment outlives sessions and is released; the count is exact, or never over; every call returns |
| `library_threads` | 3 places, 4 kinds of file, 2 threads, creations in turns and diagnostics at any moment | as long as no load has fallen into another: path recorded, order of the search, no good library missed, refinement of `OrtLibrary` |
| `metadata` | models of up to 3 entries, a buffer of 2 keys, keys that become equal when cut | nothing leaked or released twice, no value under another's key, exact within limits |
| `introspection` | up to 3 values a side where 2 are allowed, tensors or none, ranks 1 and 2 where 1 is | supported models load, others do not; names lead back |
| `inspector` | two models that share names, shapes that fit, do not, and wrap; presses of 1 and 2 calls | panels and bindings belong to the model; what is shown is empty or the answer to the editors |

Four runs state what the repository says and find that the code does otherwise:

| Run | Said | Done |
|---|---|---|
| `run_refused_stale` | "failure leaves no retrievable output" (README.md), "a failed run can never expose stale values" (comment in `onnx_runtime_run`) | a run given more names than there are outputs is refused before the cache is released; the old outputs are still answered |
| `failure_unexplained` | "`get_last_error()` explains a failed named operation" (README.md) | `set_input` and `run` fail without a model, or with more dimensions or names than the loader copies, and record nothing |
| `shutdown_live` | "Never ReleaseEnv while sessions may still be leaked" (comment in `ort_env_unuse`) | the terminator counts the live sessions, prints the number, and releases the environment |
| `diagnostics_race` | "Prefer ORT beside the GDExtension ... ONNX_ORT_BIN is a last-resort override" (comment in `resolve_bundled_ort_path`) | a creation has written the path of the bundle, which is there and good, into the buffer; before it tests it, `get_diagnostics` on another thread begins a search of its own and empties the buffer; the creation passes over the bundle and loads `ONNX_ORT_BIN` |

The promise of the first holds of every single run that names no more outputs
than the model has, whatever other runs of the session named: `loader` checks it
as `FailedFittingRunLeavesNoOutput`, `session_named` through the contract.
`library_threads` is the same specification as the last; what it shows is said
of the time before two loads overlap.

**Bounds.** `MaxGeneration`, `MaxAllocations` and `MaxReuses` bound counters the
code only increments; two or three of each suffice for an output or a binding to
be made, replaced and made again, and the proofs need none.  Five handles are two
bound inputs, a replacement in progress and two outputs; fewer would keep some
selections from running.  `MaxEnvs` = 3 lets an environment be released and made
again twice.  Selections longer than the outputs, with repetitions and with names
of inputs are among those asked.  `Int32Max` is 11 in `tensor_shape`, below the
largest products, and large enough elsewhere; `SizeMod` is large enough there for
every product the guards let through, as 64 bits are, and 64 in `inspector`, small
enough for a typed shape to wrap to a count of one.  Three places, of which the
middle one is tested before it is written, are the three rules of the search.  A
buffer of two keys for three entries, and a limit of two tensors for three, put
the instance on both sides of every limit; the numbers of the code (128, 32, 8)
change nothing but the size, and the theorems hold for all of them.  Handles are
interchangeable and only safety is checked of sessions, so permuting them is a
sound symmetry; the instance with the liveness property uses none.
`introspection` alone lets the system stop: a create that is over is over.

**Fairness.** Only `SharedEnv` has a liveness property, `CallsReturn`.  It
assumes weak fairness of each loader's `Continue`, the steps of a call that has
begun: straight-line code without waits, and serialization gives a call its turn
until it returns.  Nothing is assumed of the application, which need not begin
a call, and nothing of the terminator or of who switches the escape hatch.

## 4. What is proved

All proofs are for every value of the constants that satisfies the assumptions
named in the modules; TLC evaluates the assumptions in the runs.  Every property
that a passing run checks is proved, but for the one of section 5.

Those of the session, the loader, the shapes and the inspector say what the
code's types and limits guarantee: `ShapeAssumption`, that a `size_t` is wider
than an `int` (`SizeMod > Int32Max`); `DimAssumption` and parts of
`InspectorAssumption`, that dimensions are integers; `SessionAssumption`, that a
model has an input and an output, and that the null pointer is none of the
values; `LoaderAssumption`, that a model has no more outputs than `run()` takes
names, because introspection refuses one with more than `ONNX_IO_MAX`;
`RoomAssumption`, that the sizes of the loader's buffers are among the capacities
the session is given.

**Sessions** (`OnnxRuntimeProofs`). `TypeOK`, `Ownership`, `BoundTensorsFit`,
`GettersAnswerByName`, `FailedFittingRunLeavesNoOutput` and the action property
`GenerationIdentifiesOutputs`. `IInv` conjoins what they rest on: `TypeOK`;
`Slots`, which is `Ownership` together with the kind of tensor behind each slot
(a bound slot holds an input, a cache entry the output of its index);
`BoundTensorsFit`; and `Presence`, that without a session every slot is empty
and no predict is under way. `Ownership` alone is not inductive: destroy and
create need `Presence` to know that nothing is left behind, and a cache entry
keeps its tensor only because no input slot holds its handle and refills it in
place. One lemma per group of calls (binding, running, the life cycle) says
what it does to the slots and the heap; the step theorem goes through the
actions of `Next`. A call that fails after it allocated leaves the heap as it
was, because the handles were free before and are released again (`Discarded`).
`FailedFittingRunLeavesNoOutput` is about each run by itself: it needs nothing
of the runs before, only that the failed one named at most as many outputs as
the model has. All of it is about `Spec`; `NamedSessionIsSession` carries it
over to the `NamedSpec` of the run.

**Predict and the contract** (`OnnxLoaderProofs`, first half).
`PredictAnswersItsOwnInput` rests on `PredictPlace`: before the run of a predict its
payload is bound to the first input, before the read the first output was computed
from it.  `ImplementsContract` is proved under `UniqueOutputs`, that no two outputs
have one name: with two outputs of one name the session answers for the first of
them whatever was selected, and the contract's table would have an entry that can
never be read.  ONNX itself gives outputs different names; they can only become
equal by being cut.  Every step maps to one of the contract's and none that returns
from a run stutters unseen: a run that told its caller "failed" is a `RunFail`, whose
table is empty, one refused for its names is a `RunRefuse`.

**OnnxLoader** (`OnnxLoaderProofs`, second half).  All six properties of the run
`loader`, and of a session that the loader creates, replaces and drops also
`Ownership`, `BoundTensorsFit`, `GettersAnswerByName` and
`GenerationIdentifiesOutputs`.  `ErrorReportsLatestCall` speaks of loads,
and of calls of `set_input` and `run` on a model with no more dimensions and names
than there is room for; `unload_model` is not among them, since it leaves the error
of an earlier load where it is.  The session's steps occur inside the loader's, but
not its create and destroy, so none of it follows from the theorems about `Spec`.
`LoaderInv` is the part of the session's invariant that does not depend on the
reply (`Core`), `PredictPlace`, which sort of predict is under way (`ExactPlace`),
and that a load leaves nothing behind (`EmptyAfterLoad`).  What a call does to the
slots is proved once, of `SetInputReturns` and `RunReturns`, and used in both halves.

`LoaderImplementsContract` maps a load over a model to `Replace`, a first load to
`Open`, and a failed load to `Close` or, when there was no model, to nothing: for
that last case the generation must have been zero all along, which is
`GenerationStartsOver`.  It needs `UniqueOutputs`, for the same reason.

**Shapes** (`TensorShapeProofs`).  The six properties of `tensor_shape`, for shapes
of any rank and dimensions of any size, and any width of `int` and `size_t`.  The
state machine of `MCTensorShape` only grows shapes; what is proved is that the
properties follow from `TypeInv`, that shapes are sequences of integers.  Each of
the recursive functions there is shown to exist and to take the steps it is
written with (`RecursionExists`), and what it computes is proved by induction
over its prefixes.  An induction rule that takes a predicate is beyond the provers;
`NatSetInduction` takes the set of those numbers for which the claim holds instead.
The heart is that the division guard is exact: a product of positive dimensions
passes it if and only if it does not exceed the limit, and once one prefix exceeds
it, every longer one does.  `ReadersAgree` assumes `Produced`, that the elements are
counted by a `size_t`: without it the product that ONNX Runtime reports would have
wrapped already.  It also says what happens where the readers do not agree: of an
output of more dimensions than `get_output_shape` has room for, and more than one
element, `get_output` gives nothing and the others read on.

**Environment** (`SharedEnvProofs`).  For any finite set of loaders, with
terminations at any moment and the escape hatch switched on at any step:
`TypeOK`, `UsersNeverOver` and `NoEnvLeaked`; and as long as the module was
terminated only with every loader gone, `SessionsHaveEnv`, `UsersExact` and
`FreeMeansUnused`.  The inductive invariant of the latter is `orderly => IInv`.
`IInv` says, of each step of create and destroy, what the loader there has
already done: whether it is counted, has a session, and whose environment it is;
that the count is the cardinality of the counted loaders is then kept by adding
and removing one element.  After a termination under live sessions `IInv` is lost
for good, and the others rest on `IInvAnytime`, in which the count is a lower
bound.  `TypeOK` needs no condition on the escape hatch, everything else that it
is never switched off again, `FALSE \notin SkipTo`.

**Library** (`OrtLibraryProofs`).  `LoadedPathRecorded` and `BundlePreferred` of
whole calls, for any number of places.  Then, for any number of threads, with
diagnostics at any moment and as long as no load has fallen into another (`alone`):
the refinement `ImplementsLibrary`, and `PathRecordedAlone`, `BundlePreferredAlone`
and `GoodLibraryLoadsAlone` at every step.  `TInv` says, while `alone`, that at most
one thread is within a load (`Undisturbed`), what the globals are when none is
(`AtRest`) and, for each step of a load, what it has established (`Loads`): that a
search has ruled out the places before its own and left in the buffer the last one
it wrote, that a library just opened is the first there and its path in the buffer,
that one kept open has no usable API.  The steps that return from `ort_api` are then
the calls of `OrtLibrary`, and all others change nothing that it sees.  That the
hypothesis is needed, and that the program does not guarantee it, is what
`diagnostics_race` shows: nothing is proved about loads that overlap.

**Introspection** (`IntrospectionProofs`).  `AcceptsSupported` and `NamesAddress`,
for any limits, names and cuts; the invariant says that what the loops have passed
was supported and is stored in its place, and that the process ends only at a value
that is no tensor.

**Metadata** (`MetadataProofs`).  `ReleaseExact` and `EntriesAreTheModels`, for
any model and any buffers; the invariant says what each step holds (`Held`).
`MetadataExact` needs more, since `EntriesAreTheModels` allows a listing to lack
entries: `ListingInv` says that, while nothing has failed and the model fits, the
dictionary is exactly the entries of the keys before the one being looked up
(`ListedBefore`), and what each step has in hand for that one (`AskingKeys`,
`AtEntry`, `InEntry`).  At the end of the list nothing is left out, because
`order` names every key of the model's finite map (`OrderLists`).

**Inspector** (`InspectorProofs`).  `PanelsMatchModel` and `ShownAnswersEditors`,
for any models and presses; `Progress` says that what a press has bound is what
the editors say, which nobody can edit meanwhile.  What is shown of an output is
that answer or nothing, part by part; that it is ever shown is not claimed.
`BindingsComplete`, in spite of
the product that wraps: what reaches the session is counted again by
`CheckedProduct`, which is the true product of any shape it lets through; the
invariant adds that every editor holds a sequence of integers (`Complete`).

## 5. What is only model-checked

- `CallsReturn`: liveness is outside what the prover does.
- The four disagreements of section 3, which are counterexamples.

The proofs are about the models; that the instances reach the interesting cases,
and that each property would notice a plausible mistake in the code, is what the
runs and their mutants show.

## 6. What is not modelled

The texts of errors and diagnostics, of which only presence and origin are
kept; the marshalling of Godot containers; float values; the search's platform
spellings; the widgets of the inspector; ONNX Runtime itself, which is a source of
fresh handles, of results and of failures.  It is assumed not to hand out one
handle for two outputs, nor an input's handle as an output.  The test programs,
the smoke scenes, the scripts, CI and the fixtures are sequential and keep no
state worth checking.

Some places where the code departs from its documents are in the models and stay
outside the properties, which hold of the rest; no run is spent on them:

- Metadata keys beyond 128 and what does not fit the buffers are dropped
  (`onnx_runtime.c`:1150), and texts are read as Latin-1 (`OnnxLoader.cpp`:350),
  while README.md says that metadata is exposed unchanged.  `MetadataExact` is
  about models `WithinLimits`.
- A tensor of rank over 8 refuses the model without an error of its own
  (`onnx_runtime.c`:441; the action `TooDeep`), while README.md says that errors
  explain failures.
- A search that finds nothing leaves its last candidate in the buffer, and
  `onnx_runtime_ort_library_path` reports it (`onnx_runtime.c`:287; `LeftBehind`),
  while `onnx_runtime.h` speaks of the library loaded.
- What `get_diagnostics` answers while another thread is loading may name a
  candidate that is only being tested, or mix the moments before and after
  (`onnx_runtime.c`:817); the models let it, and no document says what is answered
  then.
- A library that opens but has no usable API is kept, and asked again by every
  attempt until the module is terminated (`onnx_runtime.c`:339; `UseHandle`), whatever
  becomes of its file.  `GoodLibraryLoadsAlone` names it as the third reason of a
  failure.
- A value that is no tensor passes the cast with NULL (`onnx_runtime.c`:438;
  `NotTensor`), and it is left to ONNX Runtime whether the request made with it
  fails or ends the process, while README.md says that value kinds other than
  dense tensors "fail explicitly".  The model keeps both outcomes, and
  `AcceptsSupported` asks only that no such model loads.  Whether the cast gives
  NULL for a sparse tensor as well is ONNX Runtime's affair.
- The escape hatch switched off between two destroys releases the environment of
  the session abandoned first (`onnx_runtime.c`:380), which the comment above it
  excludes.  Nothing suggests that it is ever switched off, and `SkipTo` leaves
  that out.
- The escape hatch keeps the environment at a count of zero even when nothing was
  abandoned, and the next create makes another: `NoEnvLeaked` is about runs of the
  program without it.

## 7. Plan

Done: the session and its arithmetic, the environment, the library on one thread
and on several, introspection, metadata, the loader, the inspector, and the
proofs of section 4.  Left, in this order:

1. `OnnxLoader` with two owners that hand a loader over, as README.md allows,
   over `SharedEnv` instead of a session that is always there to be had.
2. `OrtLibraryThreads` composed with `SharedEnv`: a session created between a
   load that fails and one that succeeds.
3. Theorems about `TensorContract` by itself, so that what it promises follows for
   the session and the loader through the refinement.
