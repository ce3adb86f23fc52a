# A TLA+ model of zhuzhbox-cli

`zb` is a command-line client for a file-hosting service. One command runs per
process; the process is single threaded and talks HTTP through libcurl. Its
durable state is two JSON files in the user's state directory
(`sessions.json`, unfinished uploads; `shelf.json`, finished ones with the
delete tokens that the service never shows again), a config file, and the
files that a download writes. Several commands may run at once, without a
lock.

This directory holds TLA+ modules that model the program's commands and the
stores under them, TLC configurations that check them on small instances, and
theorems checked by TLAPS. Paths below are relative to the repository's `src/`
directory.

    tlasany UploadEngine.tla
    tlc -config EngineResume.cfg MCUploadEngine.tla
    tlapm UploadEngineProofs.tla

## 1. Inventory

| Component | State | Operations | Correct when | Module |
|---|---|---|---|---|
| upload engine, `api/upload.c` | queue of jobs (state, session token, bitmap of confirmed chunks, retry counters, backoff deadline), `in_flight`, the loaded sessions | add, resolve_resume, run (scan, kick-off, `job_advance` on every ended transfer), abort | every run ends; no file is uploaded twice; bitmaps are true; progress survives a crash; slot count exact | `UploadEngine` |
| chunk geometry, same file | chunk size and count, the chunk in flight and the file position | geometry check, offsets, read and seek callbacks | the chunks partition the file; the server ends up with the file | `ChunkGeometry` |
| session store, `store/sessions.c` | table token -> record, on disk and in memory | load, find by token or by (path, size, mtime), put, remove, prune_stale, save | a record is dropped only when the session is dead | `SessionStore`, `StateFiles` |
| shelf store, `store/shelf.c` | rows: url, token, delete token | load, insert, remove, save, record | a delete token once known is not lost | `StateFiles` |
| atomic writer, `store/atomic.c` | temporary file | create, write, flush, rename, undo; read | a reader sees one whole image; an error leaves the old one | `AtomicFile`, `AtomicWrite` |
| upload command, `commands/upload.c`; collection API, `api/collection.c` | open collection, stdin spool, rows | argument checks, spool, resume prompt, on_complete callback, seal | every success can be deleted; exit code 0 means the bundle is whole; the spool is gone | `Bundle` |
| download, `commands/get.c` | `.part` file | Range resume, restart on 200, rename | a finished file is one whole file; exit code 0 means all of them | `Download` |
| list, delete, shelf commands, `commands/{ls,rm,shelf}.c`, `api/meta.c` | a loaded shelf | prune after asking the server in batches, delete, import, export | no live row is lost; "deleted" is true | `StateFiles` |
| configuration, `store/config.c`, `commands/config.c` | settings and where each came from | layer defaults, file, environment, flags; set; save | the most specific source wins; an override is not saved; a saved file loads | `Config` |
| command line, `cli.c`, `main.c` | argv, compacted in place; options | take globals, choose the command, parse, flush, exit code | each word handed on once and in order | `CommandLine` |
| HTTP client, `api/client.c` | one easy handle per request | begin, perform, finish, progress callback (cancels on Ctrl+C) | every transfer ends in an answer, an error or a cancellation | in the callers |
| signals, `util/platform.c` | `zb_interrupted` | handler, second signal exits | flag only | in the callers |
| the service, known here through `tests/mock_server.py` | sessions, chunks, files, collections | upload routes, metadata, collections, delete, download | - | `UploadServer`, and in the callers |
| progress meter, time, bytes, strings, JSON, tables, paths, information commands | see section 7 | | | none |

How they interact: the upload command queues jobs in the engine and calls
`zb_upload_engine_run`. The engine calls the client for each request and is
called back (through `job_advance`) when a transfer ends. It writes
`sessions.json` through the session store after `init`, after every `/status`
answer and after every confirmed chunk, removes the record when the upload
ends, and then calls `on_complete`, with which the upload command writes the
shelf. `ls`, `rm` and `shelf import` load the shelf, may wait for the network,
and save it. All saves go through the atomic writer. A signal handler sets a
flag which the engine's loop, the download loop and the client's progress
callback poll.

What is hard about it:

* any request or answer may be lost, and a request the client gave up on may
  reach the server later; `init` and `sharex` are not idempotent, the rest is
  repeated (`api/upload.c:771-776`);
* a lost answer to `complete` makes the repetition answer 404, which is also
  what an expired session answers (`api/upload.c:866-896`);
* crash or Ctrl+C between any two file writes, then a later run that resumes;
* the file may be edited, the session may expire, the server may mislay a
  chunk in the meantime;
* several jobs share `in_flight`, released on many different paths;
* nested retry budgets (per chunk, reset on success; reconcile rounds after
  409; one capacity wait) have to bound each other;
* two commands load, change and save one file, with the network in between;
* a bundle half uploaded has no rows of its own, only its collection has;
* a `.part` file says nothing of whose head it is;
* one setting has up to six sources and its source decides whether it is saved.

`PROJECT.json` lists every hazard with its line and the properties that cover
it, and every component with its status.

## 2. Modules

| Module | Models | Checked by | Proofs |
|---|---|---|---|
| `UploadServer` | the upload routes of the service, idle expiry, chunk loss | with `UploadEngine` | |
| `SessionStore` | `store/sessions.c` as operators on the table's value | with `UploadEngine` | |
| `UploadEngine` | `api/upload.c`, the on_complete callback, the network, the two files, the user; composes the two above | `MCUploadEngine` | `UploadEngineProofs` |
| `ChunkGeometry` | which bytes go out as which chunk, in wrapping arithmetic | `MCChunkGeometry` | `ChunkGeometryProofs` |
| `AtomicFile` | what `store/atomic.h` promises (abstract) | as a property of `AtomicWrite` | |
| `AtomicWrite` | the system calls of `store/atomic.c`, between processes, crashes and power losses | `MCAtomicWrite` | `AtomicWriteProofs` |
| `StateFiles` | the two files and every command that loads, changes and saves them | `MCStateFiles` | `StateFilesProofs` |
| `Bundle` | the upload command around the engine: collection, spool, rows, exit code | `MCBundle` | `BundleProofs` |
| `Download` | `commands/get.c` | `MCDownload` | `DownloadProofs` |
| `Config` | `store/config.c`, `config set`, `--api`, colour | `MCConfig` | `ConfigProofs` |
| `CommandLine` | `cli.c`, `main.c` | `MCCommandLine` | `CommandLineProofs` |

The modules meet at operations that one models and another takes as one step:
`StateFiles` replaces a file in one step, which `AtomicWrite` is shown to do;
`UploadEngine` sends a chunk in one step, which `ChunkGeometry` takes apart;
`Bundle` has a job open, publish and succeed or fail, which `UploadEngine`
takes apart.

### UploadServer

A token is `unused`, then an `open` session or at once a `file` (single
request), an open session becomes a `file` by `complete` or `gone` by idling.
`held[t][c]` is the version of the source file whose bytes were stored as
chunk `c` of `t` (0: never stored): all the properties ask of the content is
whether it is there and which version of the file it comes from. `lost` are
acknowledged chunks the server no longer counts, the only reason the protocol
has a 409. One operator per route gives the new server state and the answer
class; `Serve` is the routing.

### UploadEngine

| Model | Code |
|---|---|
| `jobs[j]` | `zb_job`: `state`, `token`, `dtok` (has it a delete token), `stamp` (size and mtime when queued), `sent` (bitmap), `chunk`, `attempt`, `initRetries`, `reconcile`, `completes` (complete_attempts, 2 = more than one), `retry`, `resume` |
| `inFlight`, `mem`, `interrupted`, `running` | `in_flight`, `engine->sessions`, `zb_interrupted`, whether a process is in `zb_upload_engine_run` |
| `recording` | the result between `engine_drop_session` and the callback's write in `job_succeed` |
| `req[j]` | what `j`'s easy handle carries, and the server's answer on its way back |
| `late` | requests the client gave up on that the server has not seen yet |
| `disk`, `shelf`, `printed` | `sessions.json`, `shelf.json`, delete tokens printed because the shelf could not be written |
| `made`, `acked`, `known` | history: uploads the server created per job, uploads counted as succeeded, tokens whose delete token reached the client |

| Action | Code |
|---|---|
| `StartRun` | `sessions` loaded, pruned (and saved if pruning removed anything), jobs queued, resume decided |
| `KickOff` | `job_kick_off`: `/status` for a resumed job, else `sharex` or `init` |
| `WakeUp` | the scan restarting a job whose backoff is over |
| `InitReply`, `StatusReply`, `ChunkReply`, `CompleteReply`, `VerifyReply`, `SharexReply`, `CapacityRefused` | `job_advance`, one action per state of the job, with the session save or drop, the next request or the failure that the same call makes |
| `NetworkError`, `CancelTransfer` | `job_advance` on a transfer that failed or was cancelled by the progress callback |
| `RecordResult` | `on_upload_complete` / `record_result` |
| `Abort`, `Exit` | `engine_abort`; the loop's normal return |
| `Interrupt`, `Crash` | the signal handler; death of the process |
| `ServeRequest`, `ServeLate`, `ServerForgets`, `EditFile`, `TimePasses` | server, network, user, clock |

The process has one thread, so a handler is one action. The one handler cut
in two is a successful upload: it writes two files, and a crash may fall
between the writes. While `recording` holds a row only `RecordResult`, a
signal, a crash or the outside world may step.

A network error after the server answered is a lost answer; before it, the
request moves to `late` and may be served at any later time or never. That
gives loss, delay, duplication (retry plus late original) and reordering.

Abstractions, and why they are harmless:

* chunk bytes are the version of the file they were read from; the length of
  each chunk and the check of the server's geometry are `ChunkGeometry`. An
  answer whose geometry is refused is an unusable body (`bad`) and fails the
  job;
* a geometry that is refused leaves the job's token set in the code
  (`api/upload.c:688-704`), and none in the model: the job fails in both, and
  nothing looks at the token of a failed job;
* `/status` always carries its geometry, as the mock server's does, so that
  the bitmap is always replaced by the server's;
* answers are classes: ok, ok with an unusable body, 404, 409, 503 with a
  short `Retry-After`, 503 with one the client will not wait for, other 5xx,
  other 4xx. A server error is given instead of serving, as in the mock server. A
  gateway that serves the request and then answers 5xx is outside the model:
  in particular a 503 after an `init` that did work would be followed by a
  second one;
* a chunk answered 2xx is confirmed whatever its body, as in the code;
* `complete_attempts` is only compared with 1, so it is capped at 2; backoff
  delays are "later"; the record order of `sessions.json` is dropped, so a
  lookup that could match several records may return any;
* `late` is a set: of two identical late requests one is followed. Late
  `/status` and metadata requests are dropped, they change nothing;
* allocation failures are left out; `base_dir` is set (state can be saved);
* every upload is standalone; collections are `Bundle`.

### ChunkGeometry

A byte is its offset in the source file. `job` is the geometry with the bitmap,
`chunk` the chunk in flight (index, length, bytes left, file position), `body`
what has gone out of it, `session` the record in `sessions.json`, `srv` the
server's session with the bytes it stored.

| Action | Code |
|---|---|
| `Start` | a fresh job, or one that takes over a session |
| `InitReply`, `StatusReply` | `handle_init_response`, `handle_status_response` with `job_alloc_bitmap` and `job_geometry_is_sane` |
| `StartChunk` | `job_next_missing`, `job_start_chunk` with the seek |
| `Read`, `Rewind` | `chunk_read_cb`, `chunk_seek_cb` |
| `ChunkAnswered`, `Broken`, `Complete` | the answer to a chunk, a broken connection, the last request |
| `Stop`, `Rechunk` | the process ends; the server cuts the file anew |

Products and sums are taken modulo `Word`, as `uint64_t` arithmetic does; the
server names any two numbers below `Word`.

### AtomicFile and AtomicWrite

`AtomicFile` has the content of a file, the image each writer was asked to
write, how each write ended, and what a power loss may bring back.
`AtomicWrite` has names and file objects apart (`target`, `temp`, `file`),
because a rename moves a name and an open file survives it. `Start`, `Create`,
`Fill`, `Flush`, `Close`, `Rename` and `Fail` (with the cleanup `Undo`) are the
steps of `zb_atomic_write`, `OpenForRead` and `FinishRead` those of
`zb_read_file`. `Crash`, `CommitDirectory` and `PowerLoss` are the machine: a
file that was not flushed is torn by a power loss, a rename may be undone
until the directory is committed (the code flushes the file, not the
directory). A temporary name is a millisecond and an attempt number; `Create`
leaves the last attempt free, which assumes that fewer than `Attempts` (32 in
the program) names of one millisecond are taken.

The refinement maps `content` to the body of the file that the target name
stands for, `pending` to the images of the writers, `revert` to the bodies of
the files in `stable`.

### StateFiles

`shelf`, `sessions` and `backup` are files: missing, well formed or broken,
with rows; `readable` is whether they can be opened; `proc[p]` is where a
command is and what it loaded: `seen` are the rows it saw and `met` is what it
met, a file it read (or that was not there), one it could not open and took
for a missing one, or a malformed one. `known`, `printed` and `claimed` are
history.

| Action | Code |
|---|---|
| `UploadStart`, `InitAnswered`, `StatusAnswered`, `ChunkConfirmed`, `CompleteAnswered` | the engine's load and its saves of `sessions.json` |
| `RecordLoad`, `RecordSave` | `zb_shelf_record`, with the printed token when it fails |
| `LsLoad`, `LsAsk`, `LsGivesUp`, `LsSave` | `zb_cmd_ls`, `zb_meta_exists` batch by batch, `prune_shelf` |
| `RmLoad`, `RmAnswered`, `RmSave` | `zb_cmd_rm` and the server's DELETE |
| `ImportLoad`, `ImportSave`, `ExportLoad`, `ExportSave` | `shelf import`, `shelf export` |
| `Quit`, `Crash`, `Expire`, `Garble`, `Unreadable` | a command gives up or dies; a file or session ends; hand edits; files that cannot be opened for a while |

A row is the token of the upload; its order, title and dates are layout. Bytes
that cannot be parsed still hold the rows, for their owner.

### Bundle

`coll` and `up` are the service, `saved` and `row` the two files, `run` the
command, `last` how the previous one ended. The sessions saved of a path are a
set of tokens; the lookup takes the least, which is the first in the file:
records are appended, and tokens are handed out in the order of their numbers.
A `complete` request that an earlier run sent may be lost or served at any
later time, so its session may still be open when `--resume` asks for it.

`temp` is the copy of stdin: there, gone, removed twice, left by a process that
was killed. It has three owners in turn: `spool_stdin` until the copy is whole,
the command (`run.spooled` without `run.owns`, the code's `spooled_path` and
`spooled_engine_owns_file`), and the job that takes it (`deletes`, the code's
`delete_source`). Every end of a command goes through `EndWith`: the jobs are
freed (`EngineRemoves`), then the command removes what it still owns
(`CommandRemoves`). Nobody looks at the result of a removal, so a second one
is silent; the model counts it.

| Action | Code |
|---|---|
| `Start`, `OpenCollection`, `OpenFails`, `RecordOpen` | `run_upload` up to the queue: `zb_collection_init` and its row |
| `Spool`, `SpoolDone`, `SpoolFails`, `SpoolInterrupted`, `Add`, `AddFails` | `spool_stdin`, `zb_upload_engine_add`, which may free its job before it fails |
| `ResolveResume` | `zb_upload_engine_resolve_resume` and the prompt |
| `KickOff`, `InitServed`, `StatusServed`, `AskComplete`, `Publish`, `JobDone`, `JobFails`, `LoopFails`, `Interrupted` | the engine, one job in few steps; `on_upload_complete` |
| `EndSeparate`, `EndEmpty`, `EndBundle`, `Seal`, `SealFails`, `RecordSealed` | the end of `run_upload` and its cleanup |
| `Crash`, `SessionExpires`, `CollectionExpires` | death of the process; the server's clock |

### Download

Byte `i` of link `l` is the pair `<<l, i>>`; a file is an inode, so that a
file another command has open survives a rename. `Start`, `NextMember`,
`StopCollection`, `Exit` are `zb_cmd_get` and `download_collection`;
`OpenResume`, `OpenFresh`, `OpenFails`, `Answer`, `Receive`, `Finish`,
`Break`, `Restart`, `Rename` are `download_to_path` and `write_cb`;
`Interrupt` and `Crash` are signals. A server that ignores Range answers 200
and the download starts over without it. `OpenFresh` is the `fopen "wb"` of
both places: there is nothing to resume, or the `.part` file could not be
opened for appending and is emptied instead. `OpenFails` is when no open
succeeds. A member that the collection lists without a token, which the code
passes over in silence (`get.c:407`), is left out: there is nothing to ask
for, and the exit code says nothing of it.

### Config

A key is one of each kind of value. `file` has a top level, whose settings may
be null, and the historic `defaults` object, which such a setting hides
(`Historic`); `proc[p]` has what the environment, the alias and the flag
give it and the settings with their sources. `Resolve` finds the file, or
nothing when the file is there and cannot be opened (`Found`); the command then
works blind (`blind`). `Start`, `Resolve`
(`zb_options_resolve`), `Use`, `Set` (`set_from_text`), `Save`
(`zb_config_save`), `Crash`, `HandEdit`.

### CommandLine

A word is its form, its name or letters and its value. `Keep`, `TakeFlag`,
`TakeHost`, `AllTaken` are the loop of `zb_options_take_globals`, `Dispatch`
and `Cleanup` are `main`, `ParsePlain`, `ParseDashDash`, `ParseLong`,
`ParseShort`, `Parsed` the loop of `zb_parse_args`, `PutOut`, `Overflow`,
`CommandEnds` a command that prints. Slots of `argv` hold numbers of words, so
that a slot behind the write index that still points to a word handed on is
seen.

## 3. Properties

Each property of a passing run, what it says, and a bug in the mapped code that
violates it (the mutated definition stands beside the original, marked as such,
and is named in `PROJECT.json`).

| Property | Says | Violated by |
|---|---|---|
| **UploadEngine** `TypeOK` | types, and every counter within its budget | a retry budget off by one |
| `InFlightExact` | `in_flight` is the number of handles out, at most `Concurrency`, on every path | starting one more than allowed |
| `ConfirmedHeld` | a chunk believed sent, in memory or on disk, was stored under that token | marking at sending instead of at confirmation |
| `ResumeUnmixed` | a session a new run would resume holds bytes of the present version only | saving a session with the file's present size and mtime instead of those of the queueing |
| `ProgressSaved` | with a writable file, `sessions.json` lists exactly the confirmed chunks of every active job | saving before marking |
| `OpenSessionKept` (action) | within a run a record is dropped only when the server will take no more chunks for it | dropping on every refusal |
| `NoDoubleUpload` | a job costs at most one server upload per run | repeating `init` after a network error |
| `SuccessRecorded` | a counted upload has its delete token on the shelf, printed, or about to be | recording metadata without filling in the token from `init` |
| `DeleteTokenKept` | a published file's delete token, once received, is still somewhere | not counting `complete` attempts |
| `Terminates` (liveness) | every run ends | a fresh retry budget at every wake-up |
| **ChunkGeometry** `Partition` | whatever two numbers a server names: the chunks are disjoint, inside the file, and cover it | accepting an empty last chunk |
| `WholeFile` | a completed upload is the file, byte by byte | reading a chunk from where the last one ended |
| **AtomicWrite** `TypeOK` | types; a reader has a file open | not looking at `fopen`'s result |
| `NeverTorn` | the target is a whole image, also after a power loss | no flush before the rename |
| `ReadsWhole` | a reader gets one whole image whatever is renamed meanwhile | a temporary file opened without `O_EXCL` |
| `Implements` (refinement) | every step is a step of `AtomicFile`: success means replaced, an error means untouched | a failed write that is not reported |
| **StateFiles** `TypeOK` | types; every row has a token | loading an entry without a token |
| `ClaimedGone` | what `rm` reports as gone, on the service's own answer, is gone | dropping the row on a refused delete token |
| `MalformedShelfKept` (action) | only a command that could not open a malformed shelf replaces it | a parse error that counts as an empty file |
| `RowLossHasCause` (action) | a live row leaves the shelf only in a save of a process that read the shelf before the row was in it, that could not open the shelf, or that was misled by a false answer; the last two need no second process | using the answers of the batches before the one that failed |
| `SessionLossHasCause` (action) | an open session leaves `sessions.json` only in a save of an upload that read the file before the session was in it, or that could not open or could not parse the file and went on with an empty table; again the last two need no second process | saving a table with this upload alone |
| **Bundle** `TypeOK` | types; a job's session belongs to its own source | a session lookup that does not compare the source |
| `MembersClaimable` | a published member's collection can be deleted, even if the run died | recording the collection only when it is sealed |
| `WholeBundle` (action) | exit code 0: sealed, and every file landed there, or was resumed where it was started | counting a file that has a session as uploaded |
| `SeparateClaimable` (action) | exit code 0: the upload that this run made or resumed for each file is published and its delete token recorded or printed | recording single uploads as bundles are |
| `TempGone` (action) | when a command ends, unless it is killed, whoever owns the copy of stdin removes it, and no two owners do, except where `zb_upload_engine_add` frees its job and then refuses the copy | the engine is not told that the file is temporary |
| **Download** `TypeOK` | types; a transfer has a file open | repeating the request without opening the file again |
| `TargetWhole` | a file under its final name is a whole download | taking whatever the server sends for the rest of the file |
| `SuccessIsWhole` | exit code 0: every file asked for is there and whole | forgetting that a member failed |
| `NoForceNoLoss` (action) | a finished file is replaced only with `--force` | looking for the existing file only with `--force` |
| `PartKept` (action) | the bytes of a `.part` file stay or become the finished file, but for three reasons: the server did not honour Range, the file could not be opened for appending, or it was complete already, its command having died before the rename | opening afresh in every run |
| **Config** `TypeOK` | types; what is saved is marked as just set | `set` changing the value and not its source |
| `MostSpecificWins` | flag, environment, alias, file, `defaults`, built-in, in this order, a variable set to nothing being none | laying the file over the environment |
| `SavedLoads` | a file that `config set` wrote is accepted by the next command | not checking the number against its limits |
| `BrokenKept` (action) | only a command that could not open a malformed file replaces it | a parse error that counts as a missing file |
| `OverrideNotSaved` (action) | what is saved is what was just set or what the file had | saving every setting |
| `OthersKept` (action) | `config set` changes another setting only if it was overridden, the file could not be opened (no race needed), or two commands raced | saving the new setting alone |
| **CommandLine** `TypeOK` | types; the write index stays behind the read index | an index off by one |
| `WordsKept` | the command gets each word that is not a global option or its value, once, in order, and no other | not reducing `argc` |
| `PositionalsExact` | the command's files are its plain words and what follows `--`, in order | dropping every `--` |

## 4. Runs

| Run | Instance | What it shows |
|---|---|---|
| `resume` (`EngineResume.cfg`) | 1 file, 2 chunks, 2 versions, 2 runs, crash, Ctrl+C, edit, expiry, age, lossy network, errors | `ConfirmedHeld`, `ResumeUnmixed`, `ProgressSaved`, `OpenSessionKept` across a run and its resumption |
| `pair` (`EnginePair.cfg`) | a chunked and a single-request file compete for 1 slot; failed starts, unwritable files, 503, unusable bodies, lossy network, Ctrl+C | `TypeOK`, `InFlightExact`, `NoDoubleUpload`, `SuccessRecorded` |
| `tokens` (`EngineTokens.cfg`) | 2 files, 2 slots, one run, lossy network, Ctrl+C, expiry | `DeleteTokenKept` |
| `terminates` (`EngineTerminates.cfg`) | 1 file, 2 chunks, retry and reconcile budgets of 2, a server that errs, forgets chunks and expires sessions without bound | `Terminates` |
| `geometry` (`Geometry.cfg`) | words of 4 bits, 6 file sizes, every pair of numbers, reads of 1 or 3 bytes, rewinds anywhere | `Partition`, `WholeFile` |
| `atomic_write` (`AtomicWrite.cfg`) | 2 writers in one millisecond, 2 images, 3 temporary files, a reader, I/O errors, crashes, power losses | the refinement, `NeverTorn`, `ReadsWhole` |
| `files` (`Files.cfg`) | 2 processes, 2 uploads, every command, batches of 1, every fault | the five of `StateFiles` |
| `bundle` (`Bundle.cfg`) | 2 runs, two files, stdin, or stdin twice, bundled or not, 2 collections, 3 uploads, every fault | the five of `Bundle` |
| `get` (`GetResume.cfg`) | 1 process at a time, any number of runs, a link of 3 bytes and an empty one, alone or as a collection, with and without `--force`, every fault | the five of `Download` |
| `config` (`Config.cfg`) | 2 processes, a host and a number, every layer, hand edits, failures, a file that cannot be opened | the six of `Config` |
| `command_line` (`CommandLine.cfg`) | every line of up to 4 words out of 15, `upload` with up to 5 more out of 6 | the three of `CommandLine` |
| `find_crash_window` (`FindCrashWindow.cfg`) | one file, one crash | the finding of section 5 |

Why the bounds are enough.

* `UploadEngine`: two chunks tell a first, a last and a missing chunk apart. A
  retry budget of 1 distinguishes "may retry" from "exhausted", 2 a budget
  that is spent from one that is reset. Two runs are a run and its resumption;
  only the files, the server and requests still under way outlive a run, so a
  third one starts from states of the same form. Two jobs on one slot exercise
  the waiting, two on two slots the sharing. `Token` has one value for each
  upload an instance can create. The bounds that are not the program's are
  `MaxRuns`, `MaxVersion`, `NumChunks` and the sizes of `Token` and `Job`;
  `MaxRetries` and `MaxReconcile` are the program's constants made small.
* `ChunkGeometry`: `Word`, `MaxChunk` and `MaxCount` are 16, 4 and 4, which
  keeps the program's relation 2^64 = 2^32 * 2^32: a product of the largest
  accepted numbers is the first to wrap. The sizes are empty, smaller than a
  chunk, a chunk and a part, whole chunks, and one that only wraps would
  cover.
* `AtomicWrite`: two writers and a reader meet on one name and on one target;
  the third temporary file is for a writer that comes back after its first.
  `MaxWrites` bounds the files ever created.
* `StateFiles`: a lost update needs two processes and one row; two rows tell a
  row that was loaded from one that was not, and a batch of one of two rows
  that fails from one that succeeds. The state space is finite without a
  bound.
* `Bundle`: the second run resumes what the first left; three uploads are two
  files and one that is started over; `MaxRuns`, `Coll` and `Tok` are bounds.
* `Download`: three bytes tell the first, a middle and the last piece apart;
  five inodes are what two targets, two `.part` files and a new one need
  (`OpenFresh` needs a free one only where it creates a file). The number of
  runs is not bounded.
* `Config`: one setting is set, the other overridden or left alone, in each of
  two processes. The host has every layer, the number a limit and a value
  beyond it. The two other kinds of value differ in how a text is read only;
  the theorems hold for every set of keys. `CommandLine`: four words are
  enough for a global option with a value before, between and after a
  command's own; five after `upload` for an option with a value on both sides
  of `--`.

What a passing run leaves out on purpose:

* `resume` has no unwritable files: a pruned record whose removal could not be
  saved is removed by a later save of the same run, when the server may still
  hold the session open. `ProgressSaved` is only claimed for a writable file;
* `pair` has unusable bodies for `init` and `/status` only. A 2xx answer to
  `complete` or `sharex` whose body cannot be parsed counts as a success in
  the code and leaves nothing to record, so `SuccessRecorded` does not hold
  there (listed as a hazard);
* `tokens` has one run, no crash and no server errors: with those
  `DeleteTokenKept` fails in the ways of section 5;
* `bundle` asks before it resumes (`"ask"` covers both answers, so the other
  modes add no behaviour). `MembersClaimable` is about uploads that belong to a
  collection: one that `--resume` continues outside of any, in a run with
  `--bundle`, gets no row (section 5, `FindBundleResume`);
* `get` has one process at a time and different names: two at once, or two
  members of one name, break `TargetWhole` and `SuccessIsWhole` (section 5);
* `get` has no members without a token: the code passes over them, so
  `SuccessIsWhole` is about the members that can be asked for;
* `config` has no host that is only slashes (section 5).

`EngineShared.cfg` is a further instance of `MCUploadEngine` without a run of
its own: one path queued twice, so that two jobs may resume one session;
`ConfirmedHeld` and `OpenSessionKept` hold.

Symmetry is on tokens, processes, writers and images, which the modules only
compare, and never in the liveness run. Deadlock is not checked where the
system stops for good: the runs, the writes or the words are used up.

### Fairness

`FairSpec` asks weak fairness of the loop's own steps (`KickOff`, `WakeUp`,
`Advance`, `RecordResult`, `Exit`, and `Abort` once the flag is up) and that
every transfer ends, answered or failed. The first is the loop of
`zb_upload_engine_run`, which polls with a timeout bounded by the nearest
backoff deadline; the second is what `api/client.c:287-322` sets: connections are
given up after 15 s, transfers below the low-speed limit after 60 s. No fault,
signal or new run is ever forced. A transfer that trickles just above the
low-speed limit for ever is outside the assumption. The other modules have no
loop that waits: their liveness would only restate that a command returns.

## 5. Where code and documentation differ

One run, `find_crash_window`, is listed: `api/upload.h:30-32` has the callback
run at once because "a crash a second later must not lose the delete token".
`job_succeed` drops the session (`api/upload.c:663`) before the callback writes
the shelf (665). A crash in between leaves the delete token in neither file.

The others have a configuration in which TLC violates a property that states
the sentence, to be run in the same way; where one is named twice, both its
properties fail, and TLC stops at the first. They are the reason for the limits of
the passing runs and are noted under "hazards" in `PROJECT.json`.

| Configuration, module | Property | The sentence | The code |
|---|---|---|---|
| `FindVerifyError`, `MCUploadEngine` | `ExpiredMeansUnpublished` | `api/upload.c:559-561` verifies "before declaring the session expired" | the metadata answer's status is not looked at: a 5xx counts as "not published" |
| `FindCtrlC`, `MCUploadEngine` | `InterruptKeepsProgress` | `README.md:138-139`: Ctrl+C "costs you the current chunk and nothing more" | a `complete` that is served although it was cancelled: `--resume` gets 404, drops the session and starts over |
| `FindPrune`, `MCUploadEngine` | `PrunedMeansGone` | `store/sessions.h:60-61`: pruned tokens "are already gone server-side" | after the same Ctrl+C the record belongs to a published file and has the only copy of its delete token |
| `FindPruneRace`, `MCStateFiles` | `PruneDropsOnlyDead` | `commands/ls.c:22-25`: "anything that has expired or been deleted is dropped" | `ls` writes back the shelf it loaded before the request: a row recorded meanwhile is lost |
| `FindExistsBody`, `MCStateFiles` | `PruneDropsOnlyDead` | `commands/ls.c:25-27`: "a failed network call is not evidence that anything expired" | a 2xx answer without the list counts as an empty list (`api/meta.c:121`) |
| `FindUnreadable`, `MCStateFiles` | `RecordAdds` | `store/shelf.h:70`: "Load, upsert, save" | any failure of `fopen` counts as a missing file (`store/atomic.c:96`): the new shelf has one row |
| `FindMalformedSessions`, `MCStateFiles` | `MalformedSessionsKept` | `store/sessions.h:42-43`: "reported rather than overwritten" | the load failure is ignored (`api/upload.c:1031`) and the first save overwrites the file |
| `FindSplice`, `MCDownload` | `TargetWhole` | `commands/get.c:33-35`: restarts "rather than splicing two different prefixes together" | a `.part` file of another link under the same name is continued |
| `FindTwoGets`, `MCDownload` | `TargetWhole` | `commands/get.c:30-32`: "renamed into place only once they are complete" | two commands write one `.part` file |
| `FindOverwrite`, `MCDownload` | `SuccessIsWhole` | `commands/get.c:27`: "download every member of a collection" | with `--force` a member overwrites another of the same name, with exit code 0 |
| `FindGetStops`, `MCDownload` | `InterruptedExit` | `api/client.c:352-353`: a cancellation "maps to exit code 130, not 1" | an interrupted last member of a collection ends it with 1 |
| `FindGetStops`, `MCDownload` | `LaterRunResumes` | `commands/get.c:244`: "Keep the .part file: a later run resumes from it" | a complete `.part` file, left by a command that died before the rename, is emptied |
| `FindUnreadableConfig`, `MCConfig` | `OwnedKept` | `store/config.h:61-63`: saved are "the settings that came from the config file or were just set" | a file that cannot be opened counts as missing (`store/atomic.c:96`, `store/config.c:381`): a lone `config set` drops every other setting |
| `FindUnreadableConfig`, `MCConfig` | `BrokenUntouched` | `store/config.c:393-396`: "it was left untouched" | in the same way it replaces a malformed file |
| `FindEnvDrop`, `MCConfig` | `OwnedKept` | `store/config.h:61`: "the settings that came from the config file or were just set" | a setting of the file that the environment overrides is dropped from it |
| `FindSettings`, `MCConfig` | `SavedLoads` | `store/config.c:194`: "%s cannot be empty" | `config set apiHost /` passes the check, loses its slash and is saved empty; the next load rejects it |
| `FindSettings`, `MCConfig` | `NoColorOff` | `format/color.c:41`: "NO_COLOR: any value, even empty, means off" | an empty variable counts as unset |
| `FindBundleResume`, `MCBundle` | `OneLink` | `commands/upload.c:23`: "With --bundle they all end up behind one collection link" | `--resume` continues a session of an earlier collection, or of none |
| `FindSpoolInterrupt`, `MCBundle` | `InterruptedExit` | `README.md:91-92`: `130` interrupted | a read of stdin that Ctrl+C interrupts at once is "cannot read stdin", exit code 1 |
| `FindValueTaken`, `MCCommandLine` | `ValueKept` | `cli.h:104`: "Supports \"--name value\"" | `--title --json`: the first pass takes the value for a global option |
| `FindLostOutput`, `MCCommandLine` | `LostOutputReported` | `main.c:212-213`: "should not be reported as a successful run that silently lost its output" | only the last flush is looked at: output lost in an earlier one leaves exit code 0 |

## 6. Proofs

All theorems hold for every value of the constants that the modules' named
assumptions allow (finite `Job`, positive concurrency, natural budgets, "no
value" distinct from values, and the like); TLC evaluates the assumptions in
every run.

| Module | Theorem | States |
|---|---|---|
| `UploadEngineProofs` | `TypeCorrect`, `SlotsExact`, `ConfirmedChunksHeld` | `TypeOK`, `InFlightExact`, `ConfirmedHeld` |
| | `UploadedOnce`, `ResumesUnmixed` | `NoDoubleUpload`, `ResumeUnmixed` |
| | `OpenSessionsKept` | `OpenSessionKept`, if `PruneSaved` |
| | `SuccessesRecorded` | `SuccessRecorded`, if `Lived` |
| | `ProgressIsSaved` | `ProgressSaved`, if `PathsApart` |
| | `DeleteTokensKept` | `DeleteTokenKept`, if `Undisturbed` |
| `ChunkGeometryProofs` | `ChunksPartitionFile`, `UploadIsTheFile` | `Partition`, `WholeFile` |
| `AtomicWriteProofs` | `TypeCorrect`, `TargetWhole`, `ReadersSeeWhole`, `Refinement` | `TypeOK`, `NeverTorn`, `ReadsWhole`, `Implements` |
| `StateFilesProofs` | `StateFilesTyped`, `DeletedIsGone`, `LossHasCause`, `SessionLossExplained`, `MalformedShelfSafe` | `TypeOK`, `ClaimedGone`, `RowLossHasCause`, `SessionLossHasCause`, `MalformedShelfKept` |
| | `LiveRowsSafe` | `LiveRowsKept`, for one process at a time, readable files and usable answers |
| `BundleProofs` | `BundleTyped`, `BundlesCanBeDeleted`, `SpoolRemovedOnce`, `SeparatesCanBeDeleted`, `BundlesAreWhole` | `TypeOK`, `MembersClaimable`, `TempGone`, `SeparateClaimable`, `WholeBundle` |
| `DownloadProofs` | `DownloadTyped` | `TypeOK`, for any number of processes |
| | `NothingLostUnforced` | `NoForceNoLoss`, if `Alone` |
| | `FinishedIsWhole`, `SuccessHasAll`, `BytesKept` | `TargetWhole`, `SuccessIsWhole`, `PartKept`, if `Alone` and `NamesApart` |
| `CommandLineProofs` | `CommandLineTyped`, `WordsHandedOn`, `FilesExact` | `TypeOK`, `WordsKept`, `PositionalsExact` |
| `ConfigProofs` | `ConfigTyped`, `SpecificSourceWins`, `BrokenFilesKept`, `OverridesNotSaved`, `OtherSettingsKept` | `TypeOK`, `MostSpecificWins`, `BrokenKept`, `OverrideNotSaved`, `OthersKept` |
| | `SavedFilesLoad` | `SavedLoads`, if `NoBareSlash` |

Eight hypotheses are more than assumptions on the constants. Each is a limit of
the code, not of the proof: without it the property is false.

| Hypothesis | Says | Without it |
|---|---|---|
| `PruneSaved` | the two files can be written, or no record is three hours old | a run prunes an old record, cannot save that, and a later save of the run drops a session the server may hold open |
| `Lived` | no process dies, and the answers that publish a file can be read | `FindCrashWindow`; a 2xx `complete` whose body cannot be parsed leaves nothing to record |
| `PathsApart` | no path is queued twice | two jobs resume one session and write each other's record |
| `Undisturbed` | one run, no crash, no failed write, no error answers, no mislaid chunk, readable answers to `complete` and metadata | a crash or a failed write leaves the token in memory only; a later run resumes, or a 409 asks the status of, an upload published meanwhile; `FindVerifyError`. TLC finds a token lost without any one part |
| `Alone` | one `get` at a time, in any number of runs | `FindTwoGets`; two commands race from looking for the target to the rename |
| `NamesApart` | no two links have one name | `FindSplice`, `FindOverwrite` |
| `NoBareSlash` | no host that is only a slash is given | `FindSettings`, `SavedLoads` |
| one process, readable files, usable answers (`LiveRowsSafe`) | | `FindPruneRace`, `FindUnreadable`, `FindExistsBody` |

**UploadEngine.** `TypeOK` is not inductive on its own: `engine_abort`
subtracts the handles it releases, so `in_flight` stays a natural number only
because it counts the handles out. `LoopInv` therefore joins `TypeOK` and
`InFlightExact` with three facts: an answer that names a token names a real
one (`ReplyNamed`), a job with a handle out is in the state of that request
(`BusyKind`: this is why releasing only *active* jobs in `engine_abort`
releases every handle), and no handle outlives the process (`IdleQuiet`). Two
lemmas on `Settle` and `Start`, the two ways a handler leaves its job, carry
the counting; each action then has its own lemma. `ConfirmedHeld` speaks of
bitmaps, which are filled from `sessions.json` and from answers; `HeldInv`
adds that the in-memory table is true (`TableHeld`), that a chunk or status
request in flight concerns its job's own session and chunk (`RequestBound`)
and that its answer is true (`AnswerTrue`). The last part is stable because a
stored chunk is never unwritten, whatever arrives late: expiry and loss only
change `srv` and `lost`.

`NoDoubleUpload` counts uploads the server made, but the danger is in those
still to come. `OnceInv` adds them: for each job, the uploads made, the init
and sharex requests nobody waits for any more (`LateOf`), and one more if the
job still waits to ask (`Waiting`) or has asked and was not served
(`Unserved`), are together at most the runs. A refusal leads from `Unserved`
back to `Waiting`, a network error from `Unserved` to `LateOf`, an answer, in
time or late, to an upload made: the sum never grows, except at a start, when
the runs grow too. The theorem rests on `LoopInv`: that the job of an init or
sharex in flight is not itself waiting to send another is `BusyKind`.

The remaining results on sessions have one step lemma in common. `Effect(j)`
sums up what a handler of the loop can do: a job continues with the session it
has, takes one from an answer or from the table, gives one up, or succeeds, and
what each does to the two tables. Every handler is shown to be one of these
once; each invariant is then shown for `Effect`, the environment and the life
of a process only.

* `ResumeUnmixed` compares a record with what the server stored, but bytes of
  another version may still be under way, from a request that was given up.
  `SessionInv`: a token is *owned*, with a source and a stamp, by a record in
  memory or on disk or by a job; as long as the file still has that stamp, the
  server's bytes and every request under way, late ones included, are of that
  version (`OwnedClean`). It stays so because a file's version never comes
  back, because all owners of a token have one source (`OneSource`), and
  because a token is nobody's until it is handed out and then one job's
  (`FreshInv`).
* `OpenSessionKept`: a 404, or the answer to a completed upload, is about the
  token its job holds, and closes it for good (`Denials`, `Verified`); a save
  writes the whole loaded table, so what this lacks must be closed as well
  (`Shared`), which is where `PruneSaved` is needed.
* `SuccessRecorded`: whoever knows a token knows its delete token - a job, a
  record of either table, the row about to be written (`KeyInv`).
* `ProgressSaved`: the record of a live job in the loaded table is its own and
  has its bitmap (`Written`), and the file is that table (`Synced`). That no
  other job writes it is `OneSource` again.
* `DeleteTokenKept`: a session is given up, and the token with it, when the
  server denies it (404), and the danger is that it does so because the upload
  is published. `TokenInv`: a job asks for completion with all chunks sent, and
  its counter tells how often it asked (`Stage`, so that a 409 cannot happen);
  as long as the first `complete` of a job is not given up, none is under way
  that nobody waits for and the upload is not published but by that request
  (`Unpublished`); no two jobs have one token (`Apart`). So a 404 to a first
  `complete` or to a chunk is about an upload that is gone. After a second one
  the job asks for the metadata, and a 404 to that says gone for good
  (`MetadataGone`). What a step makes of the job's record is summed up in
  `Steps`, as `Effect` does for the tables.

**ChunkGeometry.** `Checked`: whatever the client works with, and whatever it
has on disk, has passed `job_geometry_is_sane`. The check excludes wrapping, so
that arithmetic modulo `Word` is arithmetic, and division by the chunk size
names the one chunk of a byte. `WholeInv` adds that client and server agree on
the layout while the client works (`Agreed`), that what has gone out of a
chunk are the bytes from its offset on (`ChunkInFlight`), that what the server
counts as received is true (`StoredTrue`), and that "complete" means all of it
(`AllStored`). `LeastElement`, that a non-empty set of natural numbers has a
least one, is what makes `job_next_missing` a chunk; it comes from the library
theorem that the order is well founded.

**AtomicWrite.** The invariant says that a process between opening and
renaming has its temporary file to itself (`OwnTemp`, `NamesApart`,
`TempsApart`), that no such file is what the target or the reader has
(`TempsHidden`), that it holds what has been written so far (`Written`), that
what the target may be after a power loss is whole and flushed
(`StableWhole`), and that the reader's file is whole (`ReaderWhole`).
`Refinement` then needs one step per action: only the rename is `Replace`, the
cleanup is `Refuse`, the directory's commit is `Commit`, and the rest leaves
`AtomicFile` unchanged.

**StateFiles.** The invariant says that a command past its start has an upload
(`HasUpload`), that rows are of uploads that were published (`RowsPublished`),
that a loaded copy differs from what was seen only by the command's own change
(`CopyFaithful`) and `ClaimedGone`. `MetFaithful` adds what a command met when
it loaded: none goes on to save a shelf that it could not parse, a shelf that
it read is still well formed, and an upload never drops a session it has read.
`LossHasCause` and `MalformedShelfSafe` follow by cases over the actions that
write the shelf, `SessionLossExplained` over those that write the sessions. A
command that could not open the file is a cause of its own, named in the
properties, because it needs no other process. `LiveRowsSafe` adds, for one
process, that what the command saw is what is on disk.

**Bundle.** The delete token of a collection is on record before the first
request that names the collection, and is never given up; so whatever an
upload belongs to is on record, published or not (`OnRecordInv`). What a
command promises when it ends is about its jobs: `BundleInv` says of each that
it works on an upload of its own source, in the run's collection unless it was
resumed, and that a job that is done has it published and, outside a bundle, on
record (`Good`). A resumed session is of that source because the file keeps it
under that source (`SavedInv`); that every argument has a job, and every job an
end, when the exit code is chosen, is `StageInv`. For `TempGone`, `TempInv`
says that while the copy of stdin is there somebody is going to remove it,
`spool_stdin`, the command or a job, and that the command's flags tell the last
two apart; every way to end is then shown to remove it, once.

**Download.** `TypeOK` has one fact behind it, that a command in a transfer has
a file open and a link to work on. For `NoForceNoLoss`, the name of a command
at work without `--force` is free from the check to the rename
(`AllUnforced`): the step that could break this is another command's rename.
For the rest, what is left of a command's list is the end of it, and unless a
member failed all before it is on disk (`Progress`); a `.part` file is the head
of the one download of its name and no other name's file (`DiskWhole`); a
command that has it open has counted as many bytes as it holds, and renames it
at the full size only (`AtWork`). `BytesKept` goes through the steps that touch a
`.part` file: an open for writing loses bytes only when appending was refused
or the file was complete, a restart only after a server that did not honour
Range.

**CommandLine.** `CLInv` says that what lies before the write index are the
words kept so far, in order, and that what has not been read is where it was
(`Compaction`), for lines of any length. For the second pass, `Exact(n)` says
of the slots behind the parser that a positional is one of them, in their
order; that a plain word there was taken as a positional or as a value; and
that behind a `--` that is neither there are only positionals. The loop has
four kinds of step (`ParseEffect`): a positional, the terminator, an option,
and an option with the next word.

**Config.** `ConfigInv`: a command past `zb_options_resolve` accepted the file
it saw, or nothing where it could not open it, its settings are what that
file, the environment and the alias make (`Loaded`), and one that saves has
changed the one setting it was given; the file may be another by now, but a
malformed one only under a command that could not open it, for the owner edits
only while no command runs. `LoadedLayers` says which layer a setting comes
from, and the source it is marked with says the same (`LayerOf`): that is why
saving by source writes the settings of the file and no override
(`SavedSetting`). For `SavedLoads`, a value that was accepted is accepted
again when it is read back (`AcceptedValue`), unless it was a slash. Keys are
one of each kind, and the texts whose trailing slash is cut off are those that
`HostOf` lists; the number of commands, what they are given and the texts are
arbitrary.

**Model-checked only.**

* `Terminates`: liveness under fairness is out of the prover's reach.
* The findings of section 5: a counterexample is a behaviour, and TLC shows it.

## 7. Not modelled

* Allocation failures: every one is an early return with `ZB_ERR_NOMEM`.
* Progress meter (`format/progress.c`): a rate over a ring buffer, for display.
* Time, byte, table and colour formatting, MIME types, JSON text, message
  wording: pure functions or layout, without state, under unit tests. Whether
  colour is on is in `Config`.
* Tokens, names and strings (`util/token.c`, `util/str.c`): pure functions over
  text. Of name sanitizing `Download` has what matters to it, that two names
  may become one.
* Information commands (health, quota, stats, status, report, rules): one
  request and its rendering; they change nothing.
* Paths (`store/paths.c`): names of files.
* Downloads to stdout: no file, no resumption.
* Transport set-up, TLS, proxies and debug output (`api/client.c`): calls into
  libcurl; the modules take from it that a transfer ends in an answer, an
  error or a cancellation.
* Windows variants of `util/platform.c`: the modules follow the POSIX code. In
  particular a file that is open can be replaced.
* The edges of the retry clock (`api/upload.c:811`, a `Retry-After` of exactly
  the limit): delays are "later", and an answer is one that the client waits
  for or one that it does not.
