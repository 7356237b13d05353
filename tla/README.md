# Verification of fastsacct

fastsacct is a command that asks a Slurm accounting daemon for jobs through
libslurmdb and prints them as JSON.  It is one process with one thread, and it
is short.  What makes it hard to get right is around it: a C library whose
lists, iterators, connection and errno have to be handled in the right order on
every path; a library file that a package upgrade can replace between two opens;
struct layouts that move between releases; a stdout and a stderr whose readers
may leave; and an exit status that scripts believe.

Paths below are those of the repository; `slurmdb.rs` is `src/slurmdb.rs`, and
so on.

## 1. Inventory

| Component | State it keeps | Operations | Talks to | Hard because | Correct when |
|---|---|---|---|---|---|
| `main()` (`src/main.rs`) | none outside its locals | one run: parse, choose the ABI, query, write, report | everything below | every print can panic, every step can leave | the exit status is true; what was acquired is released |
| `Slurmdb` (`src/slurmdb.rs`) | `conn`, the TRES and QOS maps | `new`, `jobs_get`, `stream_jobs`, `collect_jobs`, `close`, `Drop` | libslurmdb, stderr | C ownership rules, errno, early breaks | connection closed once, lists destroyed once, iterators first, errors named truly |
| loader and ABI choice (`detect_abi`, `probe_api_major`, `dlopen`) | handles that are never closed | probe, look up, open for good | the file system | the file can change between two opens | the ABI belongs to the image in use |
| standard output (`write_line`, `write_blob`, std's `LineWriter`) | a buffer | header, one line per job, or one blob | a pipe and its reader | partial writes, errors, flush at exit | what arrives is a prefix; a truncated stream is recognisable |
| ABI tables (`src/abi/*.rs`) and `job_to_value` | static tables | walk a table over a record | bytes laid out by another release's C compiler | kind and offset are only tied by hand | every row reads its field; no key twice |
| TRES expansion, decoding (`src/decode.rs`) | none | pure functions | `job_to_value` | 64-bit sign, key collisions, sentinels | agrees with sacct |
| time (`src/timeparse.rs`) | none | `parse_time`, civil dates, UTC guard | clock, timezone | era boundaries, sentinel arithmetic | agrees with the calendar |
| query condition (`jobs_get`) | a `JobCond` | accounts, window, flags | daemon | 0 is not a wildcard in `db_flags`; no accounts means all | selects the jobs sacct would |
| `cluster_diff.py`, `cluster-check.sh` | index by job id, mismatches | run both tools, compare the dumps | fastsacct, sacct | tolerances, records of one id, jobs that run on | fails on every wrong value and on nothing else |
| mock library, tests, scripts | – | – | – | – | read for what they assert |

### How they interact

`main()` calls the others in turn; nothing runs concurrently inside the
process.  Everything concurrent is outside: whoever upgrades the library,
whoever reads stdout and stderr, whoever kills the process.  The C library is a
peer in that it owns memory the process must hand back by its rules.

### What is hard to test

The list, with the line where each hazard bites and the properties that would
notice it going wrong, is `hazards` in `PROJECT.json`.  In short: a panic between
the connection and its close; the file replaced between probe and open; errno
overwritten before it is reported; a write that fails inside the walk of a list;
a write that takes half a line; a reader that cannot tell the end from a
truncation; a daemon connection held while that reader is slow; a table row whose
kind does not fit the field at its offset; two TRES counts with one key; dates at
the edges of eras; a clock read twice; a timezone known by one instant of it.

## 2. Modules

| Module | What it is | Code |
|---|---|---|
| `SlurmLib` | the C side: loader, errno, connection, list, iterator, each with the contract the Rust code relies on (external) | `slurmdb.rs` 334-352 and the calls it makes |
| `Session` | one run of the process in program order | `main.rs`, `slurmdb.rs` 365-740, 916-922 |
| `SessionInv` | the inductive invariant of `Session` | – |
| `Session_proofs` | theorems about `Session` | – |
| `QueryRun` | abstract: what one run promises to the daemon and to its caller | – |
| `MCSession` | library files for TLC | – |
| `RowStream` | stdout piece by piece: LineWriter, pipe, reader | `main.rs` 216-270 |
| `RowStreamInv` | the inductive invariant of `RowStream` | – |
| `RowStream_proofs` | its proof, and the safety properties that follow | – |
| `RowStreamLines_proofs` | that `RowStream` implements `LineOutput`, and `TruncationNoticed` | – |
| `LineOutput` | abstract: lines written whole or not at all | – |
| `Fastsacct` | `Session` and `RowStream` as one process | `main.rs` 128-270 |
| `FastsacctInv`, `Fastsacct_proofs` | the invariant that joins the two, and the theorems about the process | – |
| `MCFastsacct` | command lines and the library for TLC | – |
| `JobLayout` | the headers' records, the mirrors of them, offsets, field tables (operators only) | `mock/include/*/slurm/slurmdb.h`, `src/abi/*.rs`, `slurmdb.rs` 119-140 |
| `JobRecord` | the walk of a table over a record | `slurmdb.rs` 756-875 |
| `JobRecordInv`, `JobRecord_proofs` | its inductive invariant, and theorems about it and about the layouts | – |
| `MCJobRecord` | the offsets asserted by the unit tests, as an assumption TLC evaluates | tests in `src/abi/*.rs` |
| `JobValue` | the values a record decodes to (operators only) | `decode.rs`, `slurmdb.rs` 756-913 |
| `ClusterCheck` | both tools' answers and their comparison | `cluster_diff.py`, `cluster-check.sh`; sacct is external |
| `ClusterCheckInv`, `ClusterCheck_proofs` | its inductive invariant, and theorems about it | – |
| `MCClusterCheck` | records, TRES and QOS tables for TLC | – |
| `TimeParse` | grammar, civil dates, offset (operators only) | `timeparse.rs` |
| `Query` | from `-S`, `-E`, `-A` to the jobs selected | `main.rs` 128-182, `timeparse.rs` 110-132, `slurmdb.rs` 653-678; slurmdbd is external |
| `QueryInv` | the inductive invariant of `Query` | – |
| `TimeParse_proofs` | lemmas on civil dates, for every year, and on the grammar, for texts of every length | – |
| `Query_proofs` | theorems about `Query` | – |
| `MCQuery` | command lines, zones and jobs for TLC | – |

No module EXTENDS another component's, save `Session` its library and the proof
and MC modules theirs; `Fastsacct` instantiates `Session` and `RowStream` together
with what is proved of them (`S == INSTANCE Session_proofs`, `R == INSTANCE
RowStreamLines_proofs`), so that its own proofs can cite it.

### Session and SlurmLib

`pc` names the next statement of `main()`, flattened over the calls it makes; an
action covers the code up to the next point where the outside can interfere or
the code can leave.

- `args` holds what `main()` branches on: how the command line fails, whether the
  timezone is UTC, `--abi`, `--jsonl`, `--debug`, whether `-A` leaves an account.
- `disk`, `image`, `global` are the library file, the image mapped by `dlopen` and
  its scope.  `probe_api_major` never closes its handle, so a second `dlopen` of
  the same path returns the mapped image whatever the file has become.  A file has
  a release and may lack the version symbol or one of the symbols of `Lib`.
- `opened`, `closed`, `conn` are the connections got and closed and the field of
  `Slurmdb` that is to mirror them (`unbuilt` before there is a `Slurmdb`).
- `list`, `itr`, `left` are the four C lists, the iterator and what remains of the
  walk; `list_foreach_try` is one set of actions shared by its three callers
  through `walk`.
- `errno` names the call that set it last; a print and a successful call may leave
  anything behind.  `sampled` is the value of the `errno_now()` beside a failing
  call.
- `fault` is raised by any call the C contract forbids: a walk over a freed list,
  a list destroyed under its iterator, an RPC or a close on a closed connection.
- A print to stderr after its reader has gone panics; the panic unwinds `main()`
  through `Drop for Slurmdb` and ends with status 101 (`Panic`, `DropSlurmdb`).
  clap's own exits ignore that error; `cli_error` does not.
- `UpgradeLibrary`, `StderrBreaks` and `Kill` may happen between any two actions.

`QueryRun` sees only session, answer, jobs delivered and exit status.  The
mapping is at the end of `Session`: the session is `opened` and `closed`, a job is
delivered when its line is on stdout (in the default mode all of them with the
blob).

### RowStream

A JSON text reaches the LineWriter in `Pieces` pieces and a newline; the buffer
holds `BufCap` of them, the pipe `SinkCap`.  `WriteSome` is one `write(2)` and takes
any part that fits.  An error leaves the rest in the buffer, `?` carries it out of
the walk, `main()` reports it, and std writes the rest once more while the process
exits, ignoring errors (`pc = "cleanup"`).  The reader reads any amount, stops for
good, or is absent from the start.  `LineOutput` is what `Session` takes for
granted about a line: it is written or it fails, the failed one is the last, and
at most that line can still turn up during the exit.

### Fastsacct

In `Session` a line is written or it fails, by choice; in `RowStream` lines are
written whether or not there is a connection.  `Fastsacct` puts them together:
they share `outcome`, `count` (`HeaderCount`) and `args.jsonl`, and `RowStream`'s
`pc` is called `out`.  A call of `write_line` or `write_blob` begins when `Session`
stands at one (`BeginLine`), goes on with `Session` standing still (`InLine`), and
ends in a joint step (`EndLine`, `FailLine`) in which the stream decides which of
`Session`'s two outcomes it is.  What std does with a buffer that is not empty
happens at `pc = "exit"` (`AtExit`, `Exit`, `FailExit`): after the connection is
closed and the status chosen.  `UpgradeLibrary` is left to `session`.

### JobLayout and JobRecord

There are two sides.  What the library has is transcribed from the headers the
repository carries (`mock/include/<release>/slurm/slurmdb.h`, "real headers vendored
from that release's own" tag, `README.md:167-168`):
`slurmdb_job_rec_t(r)` and `slurmdb_tres_rec_t(r)`, whose `char modifier` has been
there since 25.11.  What fastsacct takes it for is transcribed from the mirrors:
`JobRec(r)`, and `TresRecOf(r)`, the mirror that `tres_rec_has_modifier` picks, with
`modifier` in 26.05 only.  A record is a sequence of typed fields; the neighbours of
25.05 are given by what they have and lack against it.  Offsets follow from the C
layout rule on LP64 and are compared with every number asserted by the unit tests
(`OffsetsAsTested`).  `lib` is the release whose header laid out the record, `abi`
the release whose mirror and table read it.  `misread` collects the rows whose bytes
are not one whole field of the right name and type.
Rows are taken kind by kind; their order decides only the order of the output.

### JobValue and ClusterCheck

A record in `JobValue` is its values; a JSON value carries its type; a TRES string
is a sequence of pairs of numerals, a name a sequence of words and separators, a
key the text it begins with and the words after it.  `job_to_value` inserts in the
order of the code (table, allocated, requested, exit code); `Inserted` is what
`Map::insert` comes to, map after map: the last one that has a key gives its value.
Of the field table there is one row of each kind that is decoded, and those
`cluster_diff.py` treats by a rule of their own.  `U32` and `U64` are the numbers of
values of a `uint32_t` and of a `uint64_t`.

`ClusterCheck` is the repository's own validation: `RunFastsacct`, then `RunSacct`
(external: the same records as Slurm's data_parser prints them, with the C
library's wait macros, each running job `Aged` by a second or not), then `CompareJob` for each job and `Report`.  `Spoil` replaces one value by one another record would
have there; what `cluster_diff.py` makes of that tells what the validation is worth.

### TimeParse and Query

A text is the classes of its bytes (digit, the punctuation the code asks for, the
first and later bytes of a character outside ASCII) and the numbers its digits
spell.  An instant is a day and a second of the day.  `parse_time` keeps the order
of the checks where it shows: `SlicePanics` is the condition under which
`&value[10..]` would cut a character.  `PartEnd` is `it.next()` on `split(':')`: the
next colon or the end of the text; the hour, the minute and the second are the
parts that end at `HourEnd`, `MinuteEnd` and `SecondEnd`.  `Argument` says what a
Rust `String` grants (a later byte of a character never stands alone), `Zone` that
an offset has 32 bits and is not the smallest number.  A list of accounts is a set
of entries, an entry the words left of it by `trim`: order and repetition decide
nothing at slurmdbd.  `Query` runs `main()` up to the condition,
with a clock that moves between the readings of `now`, the second parse that builds
the error message, and the guard, whose sentinel panics in a debug build and wraps
in a release build; then slurmdbd selects (external).

## 3. What is checked

| Run | Instance | Shows | Distinct states |
|---|---|---|---|
| `session` | two implemented releases and one unknown, libraries that lack symbols, lookup lists of up to 1, up to 3 jobs | `TypeOK`, `LibraryMatchesAbi`, `ClosedExactlyOnce`, `NoContractBreach`, `ListsReleased`, `ReportNamesFailingCall`, `NothingAfterFailedWrite`, `Termination`, and that `Session` implements `QueryRun` | 927 000 |
| `stream` | up to 3 jobs, 4 pieces a line, buffer 2, pipe 3 | `StreamIntact`, `LinesOutBeforeDecode`, `SuccessIsComplete`, `TruncationNoticed`, `Termination`, `LineArrives`, and that `RowStream` implements `LineOutput` | 3 600 |
| `whole` | one library, up to 2 jobs, 3 pieces a line, buffer 2, pipe 2, `--debug` and not | `LinesAreOut`, `StatusZeroIsWhole`, `NoLateOutput`, `ConnectionReleased` | 159 000 |
| `records` | all 16 pairs of releases | `EveryRowReadRight`, `NoKeyTwice`, `WrongAbiMisreads`, `LookupsReadRight` | 1 160 |
| `check` | every record at a branch of a decoder, alone and beside a second one, one value spoilt or none | `AgreesWithSacct`, `CorruptionCaught` | 91 000 |
| `query` | 1 500 texts around the grammar, 2 600 dates, 9 zones, 9 account lists, a clock of three seconds | `AcceptsTheGrammar`, `NoTimePanics`, `EpochIsCalendar`, `LogShowsTheDate`, `NowNowRuns`, `OnlyUtcQueries`, `AnswerIsWhatWasAsked` | 48 000 |
| `growth` | violation: `OnlyAppended` | finding 1 | – |
| `modifier` | violation: `TresRecMirrored` | finding 6 | – |
| `leak` | violation: `JobListAlwaysDestroyed` | finding 2 | – |
| `lost` | violation: `EveryCountShown` | finding 3 | – |
| `requeued` | violation: `SameAnswerAccepted` | finding 4 | – |
| `zone` | violation: `RefusesNonUtc` | finding 5 | – |

Bounds.  In `session` one release has a file for each way a library can disappoint,
the other two a good one: which of them lacks a symbol makes no difference.  The
walk of a list treats every record alike, so a list of three has a first, a middle
and a last; the theorems below remove the bound.  In `RowStream` a line is longer
than the buffer and than the pipe, which is when writes are cut inside a line and
several are needed for one; three jobs make lines before, at and after the failing
one.  `whole` has two jobs, hence a header, a line in the middle and a last one, and
lines still longer than buffer and pipe.  In `JobRecord` nothing is bounded: those
are the real headers, mirrors and tables.  In `ClusterCheck` a `uint32_t` has 2^20
values and a `uint64_t` 2^24, wide enough for a wait status, the state bits used and
the two sentinels (`WidthAssumption`), and the theorems below hold for every width;
a count of -2 and the memory-per-CPU bit are at the top of 24 bits as they are at
the top of 64.  TRES strings have up to three entries of a table with a model, two
models, a separator inside a name and an id the table lacks.  In `Query` the texts
are all those one slip away from a good one (and, for the bare date, two):
`parse_time` has no state besides the position in the text, so a wrong branch shows
at one slip.  The years are the neighbours of every leap rule and of every era from
0 to 9999, the range four digits can spell; the eras in between repeat.  No state
constraint is used.  Every system stops by itself; its last state has an explicit
`Terminated` step, so deadlock is checked everywhere.

Fairness.  `Session` assumes weak fairness of the process's own steps only: it is
one thread, and every C call is taken to return.  Nothing is assumed of the
environment, in particular not that stderr breaks or the file changes.
`RowStream` assumes it of the writer (but never of an error) and of a reader who
has not gone away; without the latter a full pipe blocks the writer for ever, as
it does the real one.  `Fastsacct` assumes the same of both, and
`ConnectionReleased` holds only on that account: the connection to slurmdbd is
held while the jobs are written, so a reader who neither reads nor leaves keeps it.
`ClusterCheck` and `Query` state no liveness: they are straight lines.

### Findings

1. `OnlyAppended` (`growth`).  `src/abi/mod.rs:23-24` says that the job record "has
   only ever grown by appending fields at the end".  By the headers, and by the
   mirrors beside it, 25.05 removed `lft` from the middle of the 24.11 record and inserted `resv_req`
   and `segment_size`, and 26.05 inserted `exclusive`, `oversubscribe` and `sluid`.
   The tables are right; the advice is not.  `WrongAbiMisreads` is the consequence:
   a wrong `--abi` always misreads some row, and nothing in fastsacct notices.
2. `JobListAlwaysDestroyed` (`leak`).  `slurmdb.rs:638-639` says the caller decodes
   the list "via `stream_jobs`, which also destroys it".  Under `--jsonl` that call
   is chained behind the header line; if the header cannot be written the list is
   never destroyed.  `ListsReleased` is the property that does hold: this is the
   only list a normal exit can leave.
3. `EveryCountShown` (`lost`).  `README.md:95-97` says the TRES strings are
   expanded into one field per type and name; `README.md:102-105` keeps the model of
   a GRES out of the key.  A cluster that accounts for `gres/gpu` and for
   `gres/gpu:a100`, or for two models, has jobs with several counts for the one key
   `allocated_gres_gpu`; the last in the order of ids wins, and the `_type` field
   may name a model whose count is not the one shown.  The expansion in
   `cluster_diff.py` follows the same rule, so the comparison cannot notice.
4. `SameAnswerAccepted` (`requeued`).  `cluster_diff.py:270-275` keeps one sacct
   record per job id; under `-D`, which is always given, a requeued job has several.
   The earlier one is held against the later one and `cluster-check.sh` ends with
   status 1 although both tools printed the same.  `AgreesWithSacct` and
   `CorruptionCaught` are therefore stated for answers with one record per id.
5. `RefusesNonUtc` (`zone`).  `timeparse.rs:110-114` refuses a local timezone that
   "isn't UTC"; the code compares the offset of the current instant, in whole
   minutes, with 0.  A zone with summer time passes in winter, and so does one that
   is less than a minute off.  What holds is `OnlyUtcQueries`.
6. `TresRecMirrored` (`modifier`).  The record structs of `slurmdb.rs` "MUST mirror
   the real headers field-for-field in order" (lines 49-50), the TRES record in two
   variants of which the ABI module picks one.  That of 25.11 picks the one without
   `modifier`, "unchanged vs. 25.05" (`v25_11.rs:30-32`), but the header of 25.11
   declares `char modifier` (`mock/include/25.11/slurm/slurmdb.h:312`).  `mod.rs:84-85`,
   `slurmdb.rs:54-55`, `v26_05.rs:22-26` and `ARCHITECTURE.md:163-164` all say it came
   with 26.05.  No name is misread for it: the byte lies in the padding behind `id`,
   which is what `LookupsReadRight` shows, for a wrong `--abi` too.

Also met, and outside any run: `cluster_diff.py` prints OK and ends with 0 when
sacct has jobs that fastsacct lacks (it only prints a note of the two numbers);
a job whose memory per CPU is nothing (in the model of sacct, or a sentinel) is
rejected by `cluster_diff.py:343-358` although both tools read the same record (the bit is on
in `req_mem`, sacct prints no memory, and the script then wants 0 or a sentinel):
the proof of `AgreesWithSacct` did not go through without `NoMemoryPerCpu`;
the comment on `process_exit_code` (`decode.rs:105-106`) counts a core dump among
the cases without a signal, while `0x80 | signal`, the wait status of one, yields
the signal, as sacct does; `ARCHITECTURE.md` still lists a `sacct --version`
fallback in `detect_abi`, which the code no longer has; `QosRec`, "declared in full"
(`slurmdb.rs:154`), lacks the `usage_het` of 26.05 (`mock/include/26.05/slurm/slurmdb.h:1206`),
which lies behind the two fields that are read.

## 4. What is proved

Every safety property, action property and refinement of `Session`, `RowStream`,
`Fastsacct`, `Query`, `ClusterCheck` and `JobRecord` that a passing run checks is a
theorem: for every set of files and releases, every number of lookups and jobs,
every size of line, buffer and pipe, every command line, zone, clock and set of
jobs, every job record and every TRES and QOS table.  `JobRecord` has no constants:
its theorems are about the four releases there are, and `FieldsApart` about any
record whatever.

### Assumptions

| Assumption | Says |
|---|---|
| `FilesAssumption`, `ImplementedAssumption` (`SlurmLib`, `Session`) | library files are records of the three things that are looked at; `None` is neither a file nor a release |
| `SizeAssumption` | the numbers of lookups and jobs are naturals |
| `StreamAssumption` (`RowStream`) | so is the number of jobs; a line has a piece, the buffer and the pipe hold at least one |
| `StartsAssumption`, `PartsAssumption` (`Fastsacct`) | the above for the two parts |
| `InputAssumption` (`Query`) | arguments are `String`s (`Argument`), offsets have 32 bits (`Zone`), an entry of `-A` has one word at most |
| `ClockAssumption` (`Query`) | the clock stays within one day |
| `WidthAssumption` (`JobValue`) | a wait status of two bytes lies below the sentinels of a `uint32_t`, the sentinels below the top bit of a `uint64_t`, whose values are even in number |
| `RecordAssumption` (`ClusterCheck`) | the daemon's answers are sequences of `JobRecord`s, the numbers of each within its C type, a TRES string NULL or pairs of unsigned numbers |

`ClockAssumption` is a bound of the model: the day of a reading never matters
beyond its order.  TLC evaluates all of them on every run of the module.

### Session

None of the safety properties is inductive.  `ClosedExactlyOnce` says nothing of
`conn`, which decides at `drop` whether the connection is closed; `NoContractBreach`
needs to know at each statement which lists are live; `LibraryMatchesAbi` must
remember that the image was mapped by the probe; the promise that status 0 means
everything was delivered needs `decoded + left = count` all through the walk.
`IInv` (in `SessionInv`) says these, in six named parts: `ConnInv`, `LoadInv`,
`ListInv`, `CountInv`, `OutInv`, `EndInv`.  The proof has one lemma per group of
actions (`ParseStep`, `NewStep`, `WalkStep`, `QueryStep`, `FinishStep`,
`EnvironmentStep`), one step per action in it, and under it one per part the action
can disturb.

| Theorem of `Session_proofs` | Statement |
|---|---|
| `Inductive` | `Spec => []IInv` |
| `TypeCorrect` | `Spec => []TypeOK` |
| `ConnectionClosed` | `Spec => []ClosedExactlyOnce` |
| `ContractKept` | `Spec => []NoContractBreach` |
| `ListsFreed` | `Spec => []ListsReleased` |
| `ProbedImageUsed` | `Spec => []LibraryMatchesAbi` |
| `ReportTruthful` | `Spec => []ReportNamesFailingCall` |
| `OutputStops` | `Spec => NothingAfterFailedWrite` |
| `Refinement` | `Spec => KeepsPromise`: every step maps to a step of `QueryRun` or to a stutter, shown group by group (`ParseRefines` ... `EnvironmentRefines`) |

### RowStream

`StreamIntact` speaks of what has left the process; it is kept by a `write(2)` only
because the buffer holds just the pieces that come next.  The invariant
(`BytesInv`) is therefore about one sequence: what the `LineWriter` was given, cut
into `got`, `sink` and `buf`.  `line` and `piece` give its length (`Put`), and
`PieceAt` each of its members, so that no history is needed.  Every action moves a
cut (`Rejoin`, `CutInTwo`) or adds one piece.  `CallInv` says where a call of
`write_line` may stand, with the buffer never holding more than the line being
written and the one just ended; `JobsInv` how far the walk is and what a result of
`ok` is worth.

For the refinement a count of lines is wanted, not pieces: `Newlines` shows that
the newlines among the first n pieces number `n \div NL`, and with it each action
becomes a step of `LineOutput` or a stutter (`QuietLines`, `TakeLines`,
`FailLines`, `KillLines`).  `TruncationNoticed` compares what a reader who knows
only `job_count` can see with what was sent; `GoodAre` says what such a reader
takes for whole lines.

| Theorem | Statement |
|---|---|
| `RowStream_proofs!Inductive` | `Spec => []IInv` |
| `RowStream_proofs!TypeCorrect` | `Spec => []TypeOK` |
| `RowStream_proofs!Intact` | `Spec => []StreamIntact` |
| `RowStream_proofs!OutBeforeDecode` | `Spec => []LinesOutBeforeDecode` |
| `RowStream_proofs!SuccessComplete` | `Spec => []SuccessIsComplete` |
| `RowStreamLines_proofs!ImplementsLineOutput` | `Spec => WritesLines` |
| `RowStreamLines_proofs!Noticed` | `Spec => []TruncationNoticed` |

### Fastsacct

`ImplementsSession` comes first: hiding the stream, every step of the process is a
step of `Session`, so everything proved of `Session` holds of the process.  The
invariants of the two parts are kept for that reason, and because the number of
jobs does not occur in `BytesInv` and `CallInv`.  What is new is how they fit:
`StepInv` relates the two program counters, `LineInv` the two counts of lines
(equal, or the stream is one ahead behind the last piece of a line whose call has
not returned, or never will).

| Theorem of `Fastsacct_proofs` | Statement |
|---|---|
| `ImplementsSession` | `Spec => S!Spec` |
| `Inductive` | `Spec => []IInv` |
| `CountIsTrue` | `Spec => []LinesAreOut` |
| `ZeroIsWhole` | `Spec => []StatusZeroIsWhole` |
| `LateIsFailure` | `Spec => NoLateOutput` |

### Query

The proof has three layers.

*Calendar.*  `days_from_civil` counts years and months from March, the calendar of
the properties from January.  `YearsFromJanuary`, `YearsFromMarch` and
`MonthsFromMarch` relate the two; `CivilIsMarch` shows that splitting off eras
loses nothing, before year 0 either; `EpochDays` puts them together.
`civil_from_days` goes back: `YearFound` shows that its correction terms give the
year of the era for every day of an era (the last days of a leap year, of a century
and of the era are the cases), `MonthFound` the same for the month, `DayFound` that
the date comes back.  `DaysBeforeMonth` is recursive; over twelve months a table
solves its equation (`MonthStarts`).

*Grammar.*  `PartEnds` shows that a part ends somewhere (the least place, by
well-foundedness), `PartEndIs` that it ends at one place only; `ClockAccepted` and
`ClockRecognised` that the chain of splits lets through `HH:MM` and `HH:MM:SS` and
nothing else, and `ShapeBytes` that the rest of the tests make these the documented
shapes.

*The run.*  `IInv` (in `QueryInv`) says at each statement of `main()` what each time
was taken for (`Taken`: a reading of the clock, the calendar's instant for a text of
a known shape, or an error), that readings are in order unless the clock was set
back, which tests were passed, and what the condition was built from.  The
properties alone are not inductive: none of them remembers why `start` is what it
is, and `NoTimePanics` needs it to show that the second parse of a refused text is
refused again, when the clock has moved.  One lemma per action keeps it.

| Theorem of `Query_proofs` | Statement |
|---|---|
| `Inductive` | `Spec => []IInv` |
| `TypeCorrect` | `Spec => []TypeOK` |
| `Grammar` | `Spec => []AcceptsTheGrammar` |
| `NoPanic` | `Spec => []NoTimePanics` |
| `Epoch` | `Spec => []EpochIsCalendar` |
| `LogDate` | `Spec => []LogShowsTheDate` |
| `NowNow` | `Spec => []NowNowRuns` |
| `UtcOnly` | `Spec => []OnlyUtcQueries` |
| `AnswerAsAsked` | `Spec => []AnswerIsWhatWasAsked` |

### ClusterCheck

The proof has three layers here too.

*The object.*  `InsertedFour` and `ObjectValues`: of the four groups of keys
`job_to_value` inserts none overlaps another, so that every value is where its row,
its expansion or the exit code puts it; `FlatKeys` is why an expansion never
replaces a row of the table.  Within one expansion keys may collide (finding 3):
the proof does not say otherwise, it shows that the script's expansion has the same
collisions (`SameExpansion`).

*The comparison.*  One lemma per rule of `cluster_diff.py` says which values it lets
pass against what sacct prints of a record: `SentinelField`, `RawField`,
`NullableField`, `LimitField`, `ExitPair` (the wait macros and `process_exit_code`
for every status, the comparison accepts the decoder's pair and no other),
`Memory`, and `TresField`, which rests on `SignedCount` (a count survives the
unsigned wire and the signed answer) and `Entries`.  `Comparison` puts them
together: `Compare` is empty exactly when the object is `Accepted` for the record,
whether the job has aged or not (`Ageing`).

*The run.*  `IInv` (in `ClusterCheckInv`) says what the two dumps are in terms of the
records (`FastsacctInv`, `SacctInv`) and that `mismatches` holds the differences of
the jobs behind the loop (`LoopInv`).  `AgreesWithSacct` follows from
`RightAccepted`, `CorruptionCaught` from `SpoiltValue`, one case per kind of field;
a spoilt job id is the case in which the record held against the object is
missing or another's.

| Theorem of `ClusterCheck_proofs` | Statement |
|---|---|
| `Inductive` | `Spec => []IInv` |
| `TypeCorrect` | `Spec => []TypeOK` |
| `Agrees` | `Spec => []AgreesWithSacct` |
| `Caught` | `Spec => []CorruptionCaught` |

### JobRecord

*Layout.*  `Offsets` is recursive over a record; `OffsetsExist` shows that its
equation has a solution (the set of lengths without one has no least member),
`OffsetsUnfold` that `Offsets` solves it.  From `AlignUp` follows `FieldsApart`, for
every record there could be.  `FieldAdded` and `FieldRemoved` say what a field more
or less does to a record, `Rec24_11Struct` and `Rec26_05Struct` what the mirrors are
therefore, and `SamePrefix` that records have the same offsets up to where they
first differ.  `Mirrored` compares the job record mirrors with the headers, release
by release; there is no such lemma for the TRES record, of which it is false
(finding 6).

*Tables.*  `TableRead` shows that every field a table names is in the record of its
release once, with the type its kind reads; `TableKeys` that no two rows of a table
have a key in common, nor one with the exit code.  `TellTales` names, for each table
and each release of another layout, a field the record lacks; 25.05 over 26.05 has
none, but reads `exitcode` at the low half of the pointer `exclusive`
(`ExitCodeMoved`).  `TresOffsets` computes where the three fields that are read are
in a TRES record with `modifier` and in one without, `TresHeaders` says which of the
two each header declares.

*The run.*  `EveryRowReadRight` and `WrongAbiMisreads` say nothing halfway through the
walk of which rows were looked at, so neither is inductive.  `IInv` (in
`JobRecordInv`) fixes both variables: `KeysInv` that `keys` are those of the rows
behind `next`, `MisreadInv` that `misread` is the set of all rows behind it that are
misread.  `OwnRowRead` and `Absent` then leave the properties to the tables.

| Theorem of `JobRecord_proofs` | Statement |
|---|---|
| `FieldsApart` | offsets are multiples of the size, and fields do not overlap, in every record |
| `Inductive` | `Spec => []IInv` |
| `TypeCorrect` | `Spec => []TypeOK` |
| `ReadRight` | `Spec => []EveryRowReadRight` |
| `NoKeyTwiceHolds` | `Spec => []NoKeyTwice` |
| `LookupsAgree` | `Spec => []LookupsReadRight`: each of the four headers against each of the mirrors |
| `WrongAbiAlwaysMisreads` | `Spec => []WrongAbiMisreads` |

### Only model-checked

- `Termination` (of `Session` and of `RowStream`), `LineArrives` and
  `ConnectionReleased`: liveness under fairness is beyond the prover.
- `OffsetsAsTested`, the numbers the unit tests assert: TLC evaluates them as an
  assumption of `MCJobRecord`; the proofs need no number but those of the TRES
  records and of `exitcode`.
- The violations, by their nature.

## 5. What is not modelled

- The text of messages and the formatting of JSON; `RowStream` uses of it only that
  a newline ends a text and occurs nowhere inside it.
- `--help`, which clap answers with status 0 before `main()` has done anything.
- A library file overwritten in place under a live mapping, and out-of-memory
  conditions, which end the process inside libc.
- The layouts of the QOS record and of the three condition records.  The mirrors of
  the conditions are the structs of all four headers, which do not differ, and that
  of the QOS record is up to `name`, the last field that is read: there is nothing
  two releases could disagree on.
- Layouts beyond the headers in `mock/include`, those of Slurm 24.11, 25.05, 25.11 and
  26.05 as the repository has them.
- Whether slurmdbd and sacct do what is said of them: `Selects`, `SacctJob` and the
  operators they use are what the code and its comments rely on.
- `state_reason_prev` in `cluster_diff.py`, whose table is parsed out of Slurm's own
  sources, its informational messages, and the directly compared fields that follow
  a rule another field already stands for.
- Lower-casing and trimming beyond words and blanks (Unicode), and account names
  with blanks inside.
- A clock before 1970, which `now` answers with a panic of its own.
- `group_name`, a call into the name service, and the test code.

## 6. Upkeep

What was planned is modelled, checked and, where the prover reaches, proved.  What a
change of the code asks for here:

- A new release: the records of its header, its mirror and its table in `JobLayout`,
  the release in `Releases`; a struct lemma beside `Rec26_05Struct`, and its cases in
  `Mirrored`, `TresHeaders`, `Tables`, `TableRead`, `TableKeys` and `TellTales`.  If its TRES record moves `id`, `name` or `tres_type`,
  `LookupsReadRight` fails in `records`: a warning about `--abi`, not about the model.
- A new kind of field: `KindType` and `Size`, a row in `JobValue`, and the rule of
  `cluster_diff.py` for it with its lemma in `ClusterCheck_proofs`.
- A new call into libslurmdb: an action in `Session`, its place in one of the groups
  of `SessionInv`, and a step in the lemma of that group; if it can write, in
  `Fastsacct` too.
- A second thread or a non-blocking stdout would invalidate the fairness and the
  atomicity of `Session` and `RowStream`, and with them most of section 4.

## 7. Running it

    tlc -workers 2 -config MCSession_session.cfg MCSession
    tlc -workers 2 -config RowStream.cfg RowStream
    tlc -workers 2 -config MCFastsacct.cfg MCFastsacct
    tlc -workers 2 -config MCJobRecord.cfg MCJobRecord
    tlc -workers 2 -config MCClusterCheck_check.cfg MCClusterCheck
    tlc -workers 2 -config MCQuery_query.cfg MCQuery
    tlapm Session_proofs.tla
    tlapm RowStream_proofs.tla
    tlapm RowStreamLines_proofs.tla
    tlapm Fastsacct_proofs.tla
    tlapm TimeParse_proofs.tla
    tlapm Query_proofs.tla
    tlapm ClusterCheck_proofs.tla
    tlapm JobRecord_proofs.tla

The `runs` of `PROJECT.json` list every module with its configuration; `mutants`
lists, for each property, a plausible bug (a definition marked `Mutant` in the
module) that makes it fail.
