# Imageflow in TLA+

Imageflow turns images into images: a client submits a graph of operations over
some inputs and outputs, and an engine estimates, rewrites and executes that graph
until every output is written. Around the engine there are codecs and io in C and
Rust, a C interface, the commands of query strings, a server with a disk cache, and
licenses. This directory holds models of these parts, the configurations that check
them with TLC, and proofs about most of them checked by TLAPS. Paths are those of the
repository; `core/` is `imageflow_core/src/`, `lib/` is `c_components/lib/`.

## 1. The system

| # | Component | State | Operations | Interacts with |
|---|---|---|---|---|
| 1 | Execution engine (`core/flow/execution_engine.rs`) | the graph (nodes with estimate and result, edges), `more_frames`, pass count | `execute_many`, `execute`, `validate_graph`, `link_codecs`, `estimate_node_recursive`, `populate_dimensions_where_certain`, `graph_pre_optimize_flatten`, `graph_execute` | calls node definitions through `OpCtxMut`; tells decoders |
| 2 | Graph surgery (`core/flow/nodes/mod.rs`, `OpCtxMut`) | the engine's graph | `replace_node`, `replace_node_with_existing`, `delete_node_and_snap_together`, `copy_edges_to`, `consume_parent_result` | called by definitions in mid-loop of the engine |
| 3 | Node definitions (`core/flow/definitions.rs`, `core/flow/nodes/*.rs`) | none: static trait objects | `edges_required`, `validate_params`, `estimate`, `expand`, `execute` per definition | the graph, bitmaps, codecs |
| 4 | Graph translation (`core/parsing.rs`) | none | `translate_graph` | numbers nodes in the iteration order of a `HashMap` |
| 5 | Context and io (`core/context.rs`, `io.rs`, `json.rs`, `context_methods.rs`) | codec and io sets, the list of io ids, the error buffer | `add_*`, `message`, `get_output_buffer_slice` | codecs, C context, engine |
| 6 | Codecs (`core/codecs/`) | per io id: decoder, encoder or a placeholder; position in the stream | `initialize`, `get_image_info`, `tell_decoder`, `read_frame`, `has_more_frames`, `write_frame` | C codecs, io |
| 7 | GIF screen and disposal (`core/codecs/gif/`) | the composed screen, the pending disposal, the frame read ahead | `blit`, `dispose` | GIF reader |
| 8 | Colour transform cache (`core/codecs/mod.rs`) | two maps shared by all threads | `transform_to_srgb` | decoders of all contexts |
| 9 | Growing collections (`imageflow_types/src/collections.rs`) | chunks of cells with run-time borrow flags | `add`, `add_mut`, `try_remove`, iterators | context, codecs |
| 10 | Errors (`core/errors.rs`, `lib/context.c`) | last error, last panic, category; the C context's error | `try_set_error`, `try_set_panic_error`, `recoverable`, `try_clear`, `FLOW_error*` | ABI, C context |
| 11 | ABI (`imageflow_abi/src/lib.rs`) | contexts and responses handed out as pointers | `imageflow_*` | context, error buffer; catches panics |
| 12 | C heap (`lib/context_heap.c`, `context.c`) | table of allocations with owner, destructor and the next free slot | `calloc`, `realloc`, `destroy`, `set_owner` | every C component |
| 13 | C io and codecs (`lib/io.c`, `codecs*.c`) | cursors, growing buffers, decoder stages | `read`, `write`, `seek`, begin and finish reading | Rust codecs |
| 14 | C pixel operations (`lib/scale2d.c`, `weighting.c`, `convolution.c`, ...) | none | functions of bitmaps | node definitions |
| 15 | RIAPI (`imageflow_riapi/src/`) | none | parsing of command strings, sizing, layout, decoder hints | command-string nodes |
| 16 | Server and disk cache (`imageflow_server/src/`) | cache folders on disk, flags that directories exist | request handling, `CacheEntry::write`, `read`, `exists` | file system, contexts |
| 17 | Licensing (`imageflow_helpers/src/licensing/`) | a write-through cache in memory and on disk, a list of licenses, fetched licenses | `try_put`, `get`, `get_or_add`, `compute` | disk, network |
| 18 | Tool, bindings, build | none of their own | | context |

What makes each of them correct:

* **1-4.** Every output gets the frames the client's graph means, whatever order the
  nodes are numbered in; sound jobs finish and unsound ones fail; a bitmap is never
  drawn on while somebody else holds it; sizes used by expansions are true; the
  loops stop before the pass limit.
* **5, 9.** An io id names one codec; whatever fails, a codec is never lost or
  replaced; a cell is never borrowed twice; what is absent is not found.
* **6-8.** Frames come out once and in order, as announced; a screen shows what its
  frames say together; a transform is the one of its profile.
* **10, 11.** An error is reported once and as it was raised; a text never leaves its
  buffer; only misuse ends the process.
* **12.** Everything is freed exactly once, children before parents, and the slot table
  never forgets an allocation.
* **13.** A read never passes the end of a buffer, a cursor stays inside it, and no byte
  is lost or repeated.
* **15.** A layout fits and is what was asked for; instructions survive being written.
* **16, 17.** A reader sees some writer's complete bytes, also after a crash; failures
  are not kept; a verdict holds until the time it names.

What is hard in a job is seldom concurrency: one job runs on one thread. It is the
engine's loop, in which nodes rewrite the graph that is being iterated over, sizes
are guesses that executions later correct, ownership of bitmaps is passed along by
convention, and the order of everything depends on a hash map; and it is the protocols
between layers, where each call may fail in the middle. Concurrency matters
in 8, 16 and 17; failure in the middle of an operation in 5, 6, 10, 12, 13 and 16.
`PROJECT.json` lists these hazards line by line, with the properties that would notice.

## 2. The modules

Component numbers are those of section 1.

| Module | What it models | |
|---|---|---|
| `Bitmaps` | bitmaps and pixel operations | 14 |
| `NodeDefs` | the constant part of the node definitions: kinds, edges, validation, estimates, expansions, checks, effects | 3 |
| `ExecutionEngine` | the engine, `OpCtxMut` and the decoder state they depend on, as a state machine | 1, 2, 4 |
| `FlowSemantics` | abstract specification: what a job's graph means | |
| `ExecutionEngineProperties` | the engine's properties | |
| `ExecutionEngineLemmas`, `ExecutionEngineProofs` | lemmas about the operators; theorems about the engine | |
| `Induction` | lemmas: induction on numbers and finite sets, functions defined step by step, sums | |
| `OwnershipForest` | abstract specification: a heap is a forest of owned objects | |
| `ObjectTracking` | the C context's heap: records, slots, owners, destructors | 12 |
| `ByteStream` | abstract specification: a file of bytes and a position | |
| `CIo` | the three kinds of `flow_io` | 13 |
| `JpegIo` | libjpeg's source and destination managers over a `CIo` | 13 |
| `CDecoders` | the stages of the JPEG and PNG decoders, their hints and error handlers | 6, 13 |
| `ErrorStatus` | status codes, categories, and how they map to each other | 10 |
| `CErrorBuffer` | the error a C context remembers, and its report | 10 |
| `ErrorText` | how an error's text is cut to a client's buffer | 10, 11 |
| `HeapProofs`, `NativeProofs` | theorems about `ObjectTracking`; about all of the C components | |
| `JobContext` | a context, its io and codecs, its outward error, and the C functions | 5, 6, 10, 11 |
| `AddRemoveSet` | the set that lends its values | 9 |
| `TransformCache` | colour transforms shared by threads | 8 |
| `ContextProofs` | theorems about the three modules before | |
| `GifDecoder` | look-ahead, screen and disposal of the GIF decoder; times in the encoder | 7 |
| `Sizing`, `LayoutRun` | sizes, and a list of steps carried out on a layout | 15 |
| `RiapiLayout` | from instructions and the size of an image to nodes | 15 |
| `Ir4Instructions` | from a query string to instructions, back, and to an encoder | 15 |
| `ColorText` | hexadecimal colors | 15 |
| `RiapiProofs` | theorems about layouts, lists of steps, modes and scales, queries, and colors | |
| `BlobStore` | abstract specification: a store of whole blobs | |
| `DiskCache` | the folder of the disk cache, one file system call at a time | 16 |
| `ServerSideProofs` | theorems about it, `Server` and the licenses, in one process | |
| `Server` | the requests of five engines over a cache of sources | 16 |
| `LicenseCache` | license texts in memory and in files, several threads and processes | 17 |
| `LicenseManager` | the list of licenses, fetched licenses, verdicts and the clock | 17 |
| `LicenseText` | reading and verifying the text of a license | 17 |
| `MC*` | instances for TLC, one module per run | |

### The engine

**Bitmaps.** A pixel is the set of the samples that were blended into it; a sample
names its decoder, frame and source coordinates, and counts the colour transforms it
went through. So two images are equal exactly if the same source pixels ended up in
the same places with the same colour steps, which is what a wrong orientation, a
transform applied twice, a lost frame or a shared bitmap disturb. Weights, colours,
strides and pixel formats are left out. Resampling collects the source pixels a
target pixel covers.

**ExecutionEngine.** `nodes` is the graph's index order and `weight`, `est` and
`result` are the node weights, by identities that survive the renumbering of
`remove_node` (`SwapRemove`). `step` is the position in the body of `execute()`
(`Program`), whose calls are one action each when they do not loop (`ValidateGraph`,
`LinkCodecs`), and otherwise one action per iteration: `PopulateNext`/`PopulateDone`,
`FlattenChoose`/`FlattenExpand`/`FlattenDone`, `ExecuteChoose`, one action per kind of
executing node, `ExecuteDone`. `estimate_node_recursive` has an explicit stack,
`calls`, since it calls itself in the middle of a loop over parents, panics at a depth,
and starts over when a definition invalidates the graph. `NextFrame` is the
iteration of `execute_many`: the graph is the client's again, codecs are where they
were. `status` is `failed` where the code returns an error and `panicked` where it
panics.

Behind each io id stand the size, the EXIF orientation and the number of frames of a
JPEG, GIF or PNG, and `codec` is how far its decoder has come: whether it has begun
to read (the orientation is unknown before that), which hint it was told, which
size it will decode to, how many frames it has read.

**FlowSemantics** says what the client's graph means without any of that: each node
denotes an image computed from its parents' images; an orientation is the table of
where stored rows and columns go, not a chain of flips; a job is `Sound` if its nodes
are connected as they must be and its rectangles lie inside the images.

### The C components

**ObjectTracking** keeps the table as the code does: `slots` with owner, destructor and
`is_owner`, and the next free slot. Destroying walks the table by slot number and calls
destructors, which free, allocate and destroy on their own; so a destruction in
progress is a stack of frames (`stack`), each at a place in one of the two mutually
recursive functions, and one step advances the innermost. The clients whose destructors do
more than free (the decoders, the scaler) are there as what their destructors do.
`ImplementsForest` maps the table to **OwnershipForest**: who is alive, who owns whom,
what is being taken apart.

**CIo** has operators that take and give an io of each kind (`ReadFrom`, `AfterRead`,
`Sought`, `ObufWritten`, `FileWritten`), so that **JpegIo** uses the very same ones under
libjpeg's callbacks, which fill, skip, empty and terminate. Disks and memory may run out at any call.
`ImplementsStream` maps each kind of io to **ByteStream**.

**CDecoders** has one stage variable for what the code keeps in `stage` and `cinfo`, and
takes `setjmp` literally: an error of the library jumps to the frame that was
established last, and if its function has returned the outcome is undefined. It answers
`get_image_info`, takes hints, and decodes; the library may find the image broken in its
header, its body or its end.

**CErrorBuffer** and **ErrorText** count bytes: the stack trace has a fixed number of frames, a
report is assembled in a buffer of a size the caller gives, and a text is cut where it
must be, with a suffix and a null.

### Contexts

**JobContext** is what a client of the C functions can do: create, add inputs and outputs,
send messages (a job, build messages with their own io), ask for buffers, for the error,
clear it, destroy. The guard of a call is what the function checks. Each call is whole,
since a context is used by one thread, with every early return as a value of its result; what
add_io leaves behind when a decoder cannot be initialised is part of the action (`AddIo`
adds before `Initialized` succeeds). `Guarded` says whether clients call the C functions,
which abort when called after an unrecoverable error, or Rust methods, which do not.

**AddRemoveSet** has cells with their borrow flags, as many loans as one likes, and every
place where a conflicting borrow would be refused. **TransformCache** has a program counter
per thread with one step per look at the shared map. **GifDecoder** is one frame ahead of
what it returned; its screen and the area to dispose of are the code's, and a second,
definition (`Composed`) composes each frame from the first one.

### Commands

**Sizing** and **LayoutRun** are the steps of a layout; lengths are exact fractions, a
result is the set of its possible values (empty for an error). **RiapiLayout** chooses the
list of steps for mode and scale and makes the nodes. **Ir4Instructions** tries the keys
in the order the code does (`Tries`, one step of `ParseField` each), with a map of the
pairs that are left; writes them for a command node; parses that; and chooses the encoder.

### Server and licenses

**DiskCache** has one action per file system call of a put or a get, for any number of
threads, and actions of the environment: a failed write, a deleted directory, a
restart. What a failure or a restart leaves is a file in the staging folder. It
implements **BlobStore**. **Server** uses the cache through `BlobStore`'s promise: an entry is
put in one step and may be lost. **LicenseCache** locks threads of one process and not
processes; a file is truncated and filled in two steps. **LicenseManager** has a list that
only grows, a table of aliases, a fetcher that hands in licenses, and computations that walk
the list several times while `now` advances.

### How they compose

The engine, the C components, contexts, commands and the server side are five state
machines for TLC: `MCExecutionEngine`, `MCNative`, `MCContext`, `MCRiapi`, `MCServerSide`.
Inside each of the last four, models that share no state are looked at one at a time:
`part` is chosen in the initial state, and the others rest. Since they have no variable
in common, steps of two of them commute, and no property relates them; interleaving
them would multiply states and show nothing new. Where components do interact they are
composed: `JpegIo` over the `CIo` operators; `Server` over the store that `DiskCache` is shown to
implement; decoders and graph in one machine in `ExecutionEngine`; codecs, io, errors and the C
functions in one machine in `JobContext`; layouts over `LayoutRun` over `Sizing`.

## 3. What TLC checks

Five runs pass. `PROJECT.json` names a mutant for every property: a plausible slip in one
definition, with which the property no longer holds.

### `engine`: jobs

The jobs of five families, in all or several orders of their nodes: **chains** of every
pair of 15 operations after a decoder, and three operations under all 8 orientations;
**compositing**, branches over one image, two images on a canvas, one image twice on a
canvas, the four sizes of the export example; **hints**, command strings with and without a
decoder of their own and explicit decoder hints; **animation**, one and two animations of
up to 3 frames; **doubtful** jobs, with rectangles at and over the border, missing
parents, an encoder with a child, chains deeper than the pass limit.

* `EncodesDenote`: when a job finishes, every output has exactly the frames that its
  graph means. This is the abstract specification of the engine, compared at the
  end of a job, for every numbering of the nodes in the family.
* `JobVerdict`: a job finishes only if it is sound and fails only if it is not.
* `PassesWithinDepth`: a job never takes more passes than its longest chain of
  expansions needs, so the limit of `max_calc_flatten_execute_passes` stops only jobs
  that are that deep.
* `ExclusiveOwnership`, `HeldFramesAreStable`: a bitmap is the result of at most one
  node, and does not change while that node keeps it.
* `ExpandSeesTruth`: when a node is expanded, its parents' estimates are the sizes of
  the frames they have produced.
* `GraphIntact`: expansions leave no dangling edge and lose no index.
* `Termination`: the engine stops.

### `native`: the C components

* `TableIsSound`: the table has a record of exactly what the heap has handed out, its next
  free slot is the lowest, and nothing is freed that it has no record of.
* `ImplementsForest`: refinement to `OwnershipForest`. `DestructorsFirst`: an object's
  memory goes after its destructor ran and after all it owns. `TeardownFreesAll`: a context
  that ends leaves nothing behind but what was given up on purpose.
* `DestructionReturns`: each destruction ends, with destructors that call back into it.
* `ImplementsStream`: refinement to `ByteStream`. `StreamsMatch`: libjpeg is given the bytes of
  a file in order, and what it emits is in the output or still in the buffer.
  `SkippingEnds`: so does a skip, also over the end of a file.
* `DecodedAsAnnounced`: a decoder decodes one frame at most, of the size it last announced,
  whatever hints and failures came between.
* `FirstErrorIsTold`: the first error is the one reported, with its own trace, inside the
  buffer, in its category, never as a success.
* `NativeTypeOK`: types, and that cursors stay in what has been written.

### `context`: contexts and their parts

* `CallsAreConsistent`: an io id keeps the codec it got first, codecs are never lost or
  replaced, an error that is shown stays the same, only misuse ends the process.
* `BrokenIsUnreachable`: what a call that failed has left in a context is never used by one
  that works. `FailureIsSeen`: a call that failed leaves an error to be seen.
* `LoansAreSound`: what is lent exists; a search that finds nothing means there is
  nothing; a pointer to a removed value never means another.
* `OwnTransform`: pixels are changed by the transform of their own profile and format,
  what a thread saw in the map is there when it uses it, and the limit of the cache is
  passed at most by the threads behind the check.
* `GifIsShown`: every frame shows what all frames so far say together, frames come in
  order, each is written with its own time.
* `ErrorIsShown`: a client reads a beginning of the error's text and nothing else.
* `ContextTypeOK`.

### `serverside`: server and licenses

* `ImplementsStore`: refinement of `DiskCache` to `BlobStore`. `FolderIsSound`: an entry that
  was seen can be read until something is deleted, and what lies in the staging folder was
  left by a failure.
* `AnswersAreTrue`: an answer is what upstream or the disk once said for that very url,
  failures are not kept, and with what is needed in the cache nothing fails.
* `LicensesAreKept`: what is put undisturbed is kept in memory and on disk, and threads of
  one process never see half a file.
* `VerdictsHold`: threads share one license per id, a placeholder is answered for by its
  own license, a verdict holds until the time it names, the revoked permit nothing.
* `OnlySignedAreRead`: the lines of a license are read exactly if a trusted key opens its
  signature; each round of the exponentiation is exact.
* `ServerSideTypeOK`.

### `riapi`: commands

* `LayoutsFit`: nodes can be carried out one after the other, and what comes out has the
  size announced; whatever steps are taken, the source stays within the original and the
  image within the canvas. `LayoutsSucceedAsAsked`: only sizes out of range fail; exact
  sizes are met, maximums kept, the scale respected. `NothingIsDistorted`: proportions
  change only when asked for, also for lists of steps nobody wrote.
* `InstructionsAreMeant`: no pair of a query is lost without a warning, settings have the value
  of their pair, instructions survive being written for a node, and the encoder is set as
  they say.
* `ColorsAreMeant`: three, four, six and eight digits mean what they are short for.

### Runs that end in a counterexample

Seven runs check a sentence of the source that the code does not keep:

* `shared`: "Don't consume without verifying no other nodes want access"
  (`definitions.rs:419`). A node that changes an image in place, next to a sibling that
  reads the same image, takes the image over all the same. `MutProtect::expand` sees
  the sibling, but what it puts in front is another copy of the changing node, not a copy
  of the image. This is why the families above share images only between reading
  branches.
* `unfed`: "Edges will be validated before calling estimation or execution or
  flattening" (`definitions.rs:178`). `&&` joins conditions that should be alternatives,
  so a node without its input is validated. The job still fails, later (`JobVerdict`).
* `uneven`: "Ensure next_frame is present (only called for first frame)"
  (`gif/mod.rs:116`). It is called again when an animation has ended and another one
  in the same job has not, and then there is no frame.
* `sideways`: "Add the necessary rotation step afterwards" (`codecs_and_pointer.rs:131`).
  Sizes are estimated before that step exists, so a crop that fits the upright photo
  but not the stored one is rejected.
* `secondpanic`: "Returns true if the context is in an error state." (`imageflow_abi/src/lib.rs:313`).
  Clearing an error keeps the recorded panic, and the next panic is not recorded over it.
* `secondrequest`: "static file proxy with permanent caching" (`imageflow_server/README.md:9`).
  What `permacache_proxy` stores is not in the form in which it reads, and the second request panics.
* `anchor`: instructions are only changed to "delete whitespace from instructions"
  (`ir4/mod.rs:88`). An anchor is written with its two parts swapped.

### Bounds

| Run | Bounds | Why they are enough |
|---|---|---|
| `engine` | jobs of up to 7 nodes, images of 1 x 1 to 8 x 8, `IoId` 1..4, `MaxNodes` 24, `MaxBitmaps` 12, `MaxPasses` 7 (the program's is 40), `RecursionLimit` 100 | `MaxNodes` and `MaxBitmaps` cut nothing off: deadlock is checked, and a job that ran out of identities would deadlock. Images are never square where an orientation matters. Pairs of operations let each kind be parent and child of each other kind; a third adds only passes, and with 7 of them both sides of the limit are met. |
| `native` | tables of 2 to 5 slots (`MinSlots`, `MaxSlots`) and 3 addresses; buffers of 2 bytes (`MinGrowth`, `BufferSize`), streams of up to 5 (`MaxLength`), 2 byte values; images of three JPEG and one PNG size; reports into 0 to 2048 bytes | The table grows twice and slots are reused; three objects make a chain of owners and a pair of siblings. A skip spans three buffers. |
| `context` | 2 ids and `MaxCodecs` 4; 4 boxes lent `MaxLoans` 2 times; 3 threads, 6 transforms, `Limit` 2; GIFs of up to 3 frames on 2 x 2; 40 texts into up to 13 bytes | Codecs of one id, broken and whole, in either order; a hole between lent cells; more threads than room; a frame whose disposal is disposed of. Texts reach from empty to longer than every buffer. |
| `serverside` | 2 threads, 2 keys in one directory, 2 blobs, `MaxHarm` 2, `MaxLosses` 1, `CacheHarm` 1; 4 license texts, `MaxNow` 3; two RSA keys of 12 bits, 3 lines | Two misfortunes make one hit the recovery from another. Time passes over each date of the licenses. |
| `riapi` | sides of up to 6 (`Side`) with every mode and scale, of up to 4 (`SmallSide`) with crops and turns, `MaxSize` 1000; 11 lists of steps; every key with every kind of value, every two of those that interfere; texts of up to 5 characters of 6, longer ones of 2 | Each relation of image and target (less, equal, greater, per side) occurs, with and without a remainder. |

In the engine's hints family shrinking while decoding and resampling afterwards gives the
same samples as resampling at once, so that `EncodesDenote` is exact; that restricts
target sizes, not the steps of the engine. Threads, profiles and blobs are symmetric.

Some constants are switches, set so that the properties are about what is defined:

* `Aborts = FALSE`: no client destroys or ends anything between giving an object a new owner and
  allocating something with that owner.
* `Abandons = FALSE`: no context ends while a decoder's scratch has a lower slot than its decoder.
* `Crashes = FALSE`: no memory runs out in a place whose outcome is undefined in C.
* `Guarded = TRUE`: clients call the C functions, which end the process when called after an
  error, and not the Rust methods below them, which go on.

With the other value each shows a divergence of section 5.

### Fairness

`FairSpec` of the engine asks for `WF_vars(Next)` only: `execute_many` is a plain function on
one thread, which waits for nobody, so as long as it has a step to take it takes it.
`NativeSpec` asks for weak fairness of `Destroying` and of `Skipping`, for the same reason:
both are loops inside one call of the C library. Nothing is fair about clients, who may
stop at any time, nor about threads, networks and disks.

## 4. What is proved

Each theorem holds for every value of the constants that satisfies the named assumptions
of the modules (sets of inputs are of the right type, bounds are numbers), and the further
assumptions given here. The composed specifications are used without fairness, which no
safety property needs; `NativeSafety` is `NativeSpec` without it.

### The engine

For every set of jobs, every set of io ids and every value of the bounds, from
`BoundsAssumption` (they are numbers) and `JobsAssumption`: a job is a graph of
well-formed nodes over existing io ids; each of its nodes has one place in the index order;
and its edges join nodes that exist and go from lower to higher ones, so that they form
no cycle. Translation ensures that, which panics at an edge to a node that
is not there and refuses a cycle.

* `TypeCorrect`: `Spec => []TypeOK`. This is more than bookkeeping: parameters and estimates
  are natural numbers because every expansion builds nodes with the fields their
  definition expects, because a crop is validated before it is subtracted, because
  `constrain` divides only by sizes it has compared, and because the two limits
  are tested before they are passed. `TypeOK` is not inductive; `ControlInv` adds where
  the engine is: the cursor moves only while sizes are populated, the pass limit
  has been tested whenever the loop's body runs, and the chosen node is one
  that can be expanded, or is being executed. `EngineInvariant` is their conjunction.
* `BitmapsHaveOneOwner`: `Spec => []ExclusiveOwnership`. It is inductive together with
  `Allocated` (a held bitmap is older than the next one, so a new bitmap is nobody's) and
  `ChosenUnexecuted` (the node being executed has no result, so it is not its own
  parent). Steps fall into three kinds: those that leave frames alone, those
  that allocate one, those that take one over.
* `FramesAreStable`: `Spec => HeldFramesAreStable`, from the same invariant: only a step that
  takes a bitmap over draws on it, and exclusive ownership means nobody else
  holds it.
* `GraphStaysIntact`: `Spec => []GraphIntact`. An edge may dangle after
  `delete_node_and_snap_together` if the node is its own grandparent, and identities may be
  used twice if a node is added that is not new. So `GraphInv` adds that identities are
  handed out once (`HandedOut`), that the chosen node is live, and that the graph has
  no cycle. The last is stated by ranks, numbers that go up along every edge
  (`Acyclic`), since paths cannot be reasoned about without induction: a chain of new
  nodes gets the ranks just below or above the node it replaces, after those of the others
  have been spread.
* `ExpansionSeesTruth`: `Spec => []ExpandSeesTruth`. An estimate may be made before the frame
  exists, from codecs that have not decoded yet, be dropped by a command string, be made again
  long afterwards from parents whose frames are gone, or be forced by execution. `TruthInv`
  says what survives all that: every node that has run has a true size, determined by its
  definition, its parents' true sizes and, for a decoder, the codec's (`Determined`), which
  settles when the first frame is read (`CodecSettles`); it is its bitmap's size while it holds
  one; and the node's estimate is that size or nothing (`Truthful`). The true sizes are a
  function that exists, not a variable: a step that produces a frame extends it. Whether
  expansion sees an estimate at all is a matter of order, which takes up most of the proof:
  nodes that have run keep their parents (`ResultsInv`: an encoder ends its branch when
  execution begins, and splicing moves no edge of a node that has run); no node that has yet to
  run keeps an estimate its parents have lost (`EstimatesInv`); and on the stack of
  `estimate_node_recursive` (`StackInv`) each activation waits only for the one above it, and
  above a node whose parents have all run there are only nodes that have run, none of them a
  command string that would invalidate what it waited for.

`ExecutionEngineLemmas` states what the proofs need of each operator: which nodes an
expansion makes, that `constrain()` and decoder hints yield sizes, that graph
surgery stays within the graph, that each pixel operation yields a bitmap with a size.

### The C components

* `HeapInvariant`, for contexts of any number of objects whose clients neither give up between
  two steps nor end a decoder below its scratch (`~Aborts`, `~Abandons`; both are divergences
  of section 5, and the properties are false without). `HeapInv` says that table, free slot
  and underlying heap fit (`Table`), that owners are in the table and form no cycle
  (`Acyclic`: no set of slots in which each is owned by another of them), which scratch belongs
  where, and, for a destruction in progress, how its calls stand on each other (`Stacked`,
  `Calls`) and that each has not lost the record it walks from (`Stays`). That a nested
  destruction frees nothing an outer one still stands on (`Spares`) is the
  heart of it: it follows from the absence of cycles, by induction over the stack.
  `TableStaysSound` and `TeardownIsComplete` are read off it; `DestructorsComeFirst`
  and the refinement `HeapIsAForest` are proved step by step from it. `HeapTableIsSound` puts
  the table next to the other components.
* `FirstErrorTold`, for statuses among which 200 is not (`NoOddStatus`: it would become
  success), messages that fit the buffer of an error and lines of a trace as long as
  those of the repository's paths (`LengthsAreBounded`). `ErrorInv` relates what is stored
  to the first error raised. That a report fits is the sum of the most each part can take.
* `FrameIsAsAnnounced`, if memory does not run out where C leaves the outcome undefined
  (`~Crashes`). `DecoderInv`: the library is live exactly between the start of decoding and
  its end, and its size is the announced one, at every scale by eighths.
* `IoIsAStream`, the refinement of `CIo` to `ByteStream` for every size of memory, file and
  buffer. The io it is about never runs out of memory or disk; the one under libjpeg
  may, and is covered by the next theorem. It needs `IoSound` (the cursor stays in what was written) and `Kept` (an output buffer
  holds what was written and has the room it says).
* `BytesStayInOrder`: `JpegInv` says which part of the stream libjpeg's buffer holds, while
  bytes to skip are still owed, and for outputs that what was emitted is what has been
  written followed by the buffer.
* `NativeTypesHold`.

### Contexts

* `ContextTypeCorrect`, `FailuresAreSeen`, and, for clients of the C functions (`Guarded`),
  `BrokenStaysUnreachable` and `CallsStayConsistent`. A call is a chain of steps each of which may
  fail; `Leads` says what a chain keeps whatever its length, and that it ends with all
  codecs whole or with an error that cannot be cleared. `ErrorsAreTold` is the invariant:
  either every codec is whole or such an error stands, behind which no call gets.
* `OwnTransformIsApplied`, for any finite set of threads. A thread that was told the cache is not
  full inserts one transform more. So the length alone is not inductive; the length plus
  the number of threads behind the check is (`Bounded`). The length is a sum over the map, about
  which `Induction` has what is needed.
* `LoansStaySound`, for any number of boxes: addresses are distinct and what is lent exists.
* `GifStaysShown`, for any movies (`MoviesAssumption`: a movie is a sequence of frames on a screen).
  The screen that the property compares with is defined by recursion over the frames drawn. The
  invariant says instead that a sequence of screens exists (`Shows`), one before each frame, of
  which each is what the frame before it leaves of the one before it, and that the decoder's screen,
  disposed of, is the last of them; a step that draws a frame extends the sequence. `IsAt`
  and `IsAfter` say where the reader is, which is behind the frames drawn and at most one ahead of them;
  `HasDelays` that a file has its repeats first and then one time for each frame written.
* `ErrorsAreShown`, for texts of any bytes, written in any number of pieces, and endings without
  a null (`TextAssumption`). `TextInv` has one conjunct for each stage of the
  writing: what is in the buffer is what the pieces so far make, and what is still to come is
  the rest of the text. `FlatOfMore` is the lemma about joining pieces that this rests on.
* `ContextTypesStay`, the types of all five, from the invariants above.

### The server side

* `FolderInvariant`: `Spec => []Inv` of the disk cache, for any threads, keys, blobs and number of
  misfortunes, and any layout of directories. Its parts: `Types`; a call in progress knows its
  key and blob (`Called`); a staged file about to be renamed is whole or was deleted
  (`WholeOrGone`), which is what makes the rename atomic; no entry is ever cut (`NeverCut`); and
  what was seen is there until something is deleted (`SeenIsThere`).
* `FolderIsAStore`: `Spec => ImplementsStore`, the refinement. `QuietStep` shows that most steps
  leave entries alone, `RenameStep` that a rename is `Put`, `DeleteStep` and `RestartStep` that
  they are `Lose` or nothing; `EveryStep` puts them together.
* `StagingIsExplained`, for finitely many threads. The count of files left behind is inductive with
  a potential: the threads that have passed the check of their directory and lost it since
  (`Astray`) will each leave one more, and each misfortune sends astray at most all threads.
* `AnswersComeFromThere`, if no other engine asks for the urls of `permacache_proxy`
  (`ProxyIsApart`; what that one stores is not what the others expect, and its own second
  request panics, as the run `secondrequest` shows). `RequestInv` says of each thread that what
  it holds was said for what it asks.
* `LicensesStay`, with `CacheInv`: the lock of a process keeps its writer alone (`LocksHold`), a cut
  file has a writer or had one (`CutsAreKnown`), a call that nobody disturbed has done
  what it says so far (`AloneIsKept`), and memory is backed by files (`MemoryIsBacked`).
* `VerdictsStand`, with `ManagerInv`: what a thread has found in a list that grows stays true of it
  (`AddingFits`), and each date on which a license begins comes no sooner than a date
  the verdict waits for (`Covers`), which finds the least of a finite set by induction.
* `SignedOnesAreRead`, for keys and exponents of any size: `PowmIsExact` is proved with the laws of
  remainders, derived here from division, and by induction over the exponent.
* `ServerSideTypesHold`.

### Commands

* `LayoutsAlwaysFit`, for any instructions (`AskedAssumption`: integers, negative
  and absurd ones too, for every number), images with sides of 1 to `MaxSize`, steps of
  any boxes in any order, and crops of any units. What `BoxOf` makes is rounded, and so may be
  rounded out of what it should fit. That it is not is `InnerBoxFits`: the width of a ratio r at
  height h, rounded, is more than w only if r is wider than w by h, and then the code
  goes by the width; `SnappedFits` adds that snapping to the target ends on it, never beyond.
  `StepsKeep` goes through every step: each keeps the source within what it was and
  the image within the canvas (`Sound`). From it `LayoutInv` follows for a layout in progress, with the window
  of the manual crop within the image (`WindowIs`) and, when the nodes are there, a sequence of sizes,
  one before and one after each node, each of which the node makes of the one before it
  (`Leads`), from the image to the canvas. Flips, filters, rotations, crops, resampling and
  padding each carry a frame on (`Carries`), and aligning never gives a negative margin (`AlignedWithin`).
* `LayoutsAlwaysSucceedAsAsked`, for the same instructions and images: a layout whose target is
  in range never fails, and ends as mode and scale mean. The invariant `AskedInv` says how far a
  layout is: `Stage` has, for each of the sixteen pairs of mode and scale (`PlainStage`, `CanvasStage`,
  `CropStage`), what steps are left, whether they are skipped, and which layouts they are
  carried out on. `StagesBegin` finds that the list the code builds is the first stage,
  `PlainGoesOn`, `CanvasGoesOn` and `CropGoesOn` that each step leads to the next, and `StagesEnd` what is there
  when no step is left (`Final`). That no pad or crop on the way is impossible rests on what
  rounding can do: a box is less than one away from the exact quotient (`ProportionalIsClose`),
  hence on the same side of every whole number (`CloseIsOrdered`); so an outer box is
  around the target (`OuterBoxFits`), what is too large is never enlarged by fitting in
  (`InnerBoxIsSmaller`), what fits is never shrunk (`BoxIsLarger`), and a box for a box is
  itself (`OwnBox`).
* `NothingIsEverDistorted`, for images and targets of any sizes. A layout is rounded only once between
  the source and the image (`FinalsAreAlike`, by `BoxHasShape`). For the lists of steps the invariant is
  `ProportionInv`: what is left of the list, with what it is carried out on (`InProportion`). Steps that
  do not scale take the part of the source that has the shape of the image, or leave both as they are
  (`CalmIsAlike`). A step that scales rounds again, and is harmless only to an image that is all of its
  canvas and has the shape of its source (`BoxedIsAlike`), or that is all of its source on a canvas
  that grows (`GrownIsAlike`); the lists of the run scale once, and only then (`PlansAreInProportion`). That
  is why the lists are named: scaled down on a larger canvas an image may lose a second pixel. One of
  1000 by 58 on a canvas of 1000 by 59, which is to cover 50 by 2, becomes 50 by 1; no small
  bound finds that.
* `InstructionsAreAlwaysMeant`, for queries of any number of pairs (`QueriesAssumption`). While the
  caller's query is parsed, `FirstInv` says that what is in the map is the first with its key
  (`MapIsAsked`), that each field that is set is what a parser reads of the first pair with one of
  its keys (`Meant`), and that each pair that was taken is named by a field, by a warning or
  by its value, or is still in the map (`AllAreNamed`). `FirstComesTo` is what that means at the end
  (`Outcome`). The string for the command node has a line for each field at most, no two of a key
  (`LinesAreFinite`, `KeysAreOf`), and each is read as what it was written from by the parser of that key
  (`WrittenAgain`, from tables of what each parser accepts: `PlainIsKept`, `FlipIsRead`, `OthersAreRead`).
  So `SecondInv` can say, of the second parse, that what was written is in the pairs, in the map or in its field
  (`NoneIsLost`, `FieldsAreRead`), and that no other key is in the map when its turn comes, but for `crop`, which is
  tried for the mode before and is left alone then (`SecondParses`). The encoder's settings follow from the
  fields (`Chosen`, `EncodersAre`).
* `ColorsAreAlwaysMeant`, for texts of any length. `BytesAre` cuts a text into bytes, `DigitsAreNumbers`
  finds that digits are a number that is not too large, `LongIsAsMeant` compares the short forms
  with the long ones; `WrittenIsRead` is the way back, where also a channel that was written `+2`
  is a byte (`NumbersAreBytes`).

`Induction` states induction with a set in place of a predicate, so that a proof can cite it:
a set that has 0 and with each number the next has all numbers, up to a bound or without; the
same for finite sets, of which sums are the application.

### What is only model-checked

* Liveness: `Termination`, `DestructionReturns`, `SkippingEnds`.
* `EncodesDenote`, `JobVerdict` and `PassesWithinDepth`, which compare the engine with
  recursive definitions over the whole job.
* Proportions in lists of steps other than those of the `riapi` run: of any list they are not kept.

## 5. Divergences met while modelling

Besides the seven that have a run, these were met and looked at in the models; the constants
above and the notes in the modules say which states they concern.

* C heap. An object adopted by one that never allocates with itself as owner outlives both
  (`context_heap.c:357`). The sweep at the end of a context goes by slot number, so that scratch
  in a reused slot below its decoder's is gone when the decoder's destructor asks for it, which
  exits the process (`context_heap.c:316`, `396`).
* C io. A write to memory is refused if more room is left than it needs, and let through if
  it does not fit (`io.c:242`). When memory runs out the output buffer becomes null while it is
  said to have bytes (`io.c:115`). A skip past the end of a file answers all it was asked
  for (`io.c:351`).
* C decoders. `jpeg_start_decompress` is called before `setjmp` (`codecs_jpeg.c:515`), and `cinfo` is
  used before it is checked (`codecs_jpeg.c:440`). A palette with transparency is decoded without
  alpha (`codecs_png.c:225`). An ICC profile of a PNG has no length, so that the job panics
  (`codecs_png.c:137`, `core/codecs/mod.rs:468`).
* Errors. `ErrorCategory::last()` is not the last one (`errors.rs:527`). The length told of a truncated
  text is the suffix's, and the null goes there (`errors.rs:887`).
* Contexts. Two codecs may have one id, the second being unreachable (`context.rs:106`). A
  placeholder whose encoder could not be created has lost its io (`codecs/mod.rs:368`); with the C
  functions nothing gets there. An unknown endpoint is status 404 in the response and 400 in the
  error (`json.rs:170`). An iterator over a set ends at a hole (`collections.rs:209`).
* Colour transforms. Threads pass the limit together (`codecs/mod.rs:493`).
* GIF. When the header of the next frame is broken, the read of the good frame before it fails
  (`gif/mod.rs:148`); the screen has it all the same.
* Licenses. Memory and disk may differ for good after two puts of one key (`cache.rs:186`). Two
  licenses of one id may be in the list (`licensing/mod.rs:115`). A text that is known is parsed
  again (`licensing/mod.rs:86`).
* Server. A directory that vanishes under a write is a panic (`disk_cache.rs:144`).
* Commands. An image smaller than the box keeps its size with `mode=crop` and `scale=canvas`
  (`layout.rs:202`). Rounding in doubles makes `(8.0 / 600.0) * 525.0` more than 7, and with it some
  layouts fail or crop to more than there is (`sizing.rs:71`); the models' fractions are exact. A plus
  sign is accepted in a colour, and then unwrapped (`colors.rs:33`). The matte of a PNG is parsed
  and used nowhere.

## 6. What is not modelled

* Engine: no-op, clone, bitmap pointer and white balance nodes; pixel formats, colours, filter
  weights; performance counters and graph recording. `first_parent_of_kind` among several
  parents of one kind, which validation lets through. Errors of allocation, io and damaged
  images inside a job: each returns from `execute_many` at once. The error "neither can
  execute nor expand": every definition does one or the other. The errors of translating a
  malformed graph.
* Hazards without a property: an ancestor chain of more than 100 nodes, where the recursion
  panics; a side that `constrain` rounds to 0; two command strings below one decoder, where the
  last hint wins; a JPEG, which can be read once, next to an animation; GIF frames without an
  area; the order of the trusted keys, as a signature too large for one ends the search.
* C: encoders, JPEG metadata parsers, colour space conversion, weights of scaling and convolution;
  byte counts of the heap; writing an output buffer to a file, closing and flushing files.
  Pixel operations are functions on memory without state; what could be wrong in them is
  arithmetic of floating point.
* Contexts: what lcms2, libjpeg, libpng and the GIF reader and writer do with pixels is external.
* Commands: whitespace, case, the table of colour names, cropping by a provider that looks at
  pixels; doubles.
* Server: parsing of mounts, the static folder, the statistics page. The disk cache writes in
  order: a loss of power that reorders a rename and the data before it is not modelled, since the
  code does not sync.
* Licenses: messages for people and their redaction; `try_delete`, which has no caller; the
  network, of which an answer is modelled.
* Job clients, graph visualisation, the command line tool, bindings, build and continuous
  integration have no state of their own.

## 7. Plan

1. Engine: malformed graphs, two command strings, a JPEG with an animation, a small recursion limit.
