# C-log in TLA+

C-log is a logging library in C: log files that rotate into numbered backups,
optionally encrypted or compressed, log lines on stdout or stderr, a pool of
timers, and a stack trace when the process gets a fatal signal.  Its handles are
shared by threads without any further protection by the caller, so most of what
can go wrong is a matter of order: what a thread finds after it has waited, what
is on disk when the process dies, what a signal handler meets.

This directory models the library in TLA+, checks the models with TLC on small
instances and proves the main theorems with TLAPS for every instance.

| module | models | proved in |
|---|---|---|
| `LogFile` | a file handle: `log/log_file.c` | `LogFileProofs` |
| `RotatingLog` | what a file handle promises about its data | `LogFileProofs` |
| `LogFileRotation` | `LogFile` implements `RotatingLog`; what is retained | `LogFileProofs` |
| `Lz4File` | `lz4/lz4_file.c`: cutting a file into compressed blocks and back | `Lz4FileProofs` |
| `Timekeeper` | the timer pool: `util/timer.c` | `UtilProofs` |
| `Trace` | the registry of handles and the signal handler: `util/trace.c`, on `util/list.c` | `TraceProofs` |
| `Logger` | the front end: `log.c`, `log.h`, `log/log_stream.c` | `LoggerProofs` |
| `LinkedList` | `util/list.c`, with nodes and pointers | `LinkedListProofs` |
| `ListSeq` | what `util/list.c` promises: sequences | `LinkedListProofs` |
| `EncryptedLog` | an encrypted log from the record to the restored text: `log/log_file.c`, `log.c` | `EncryptedLogProofs` |
| `Md5`, `Aes`, on `Bytes` | `util/md5.c` and `util/aes.c`, on bytes | `UtilProofs` |
| `Password` | the key of a password: `_pwd_init`, on `Md5` and `Aes` | `UtilProofs` |
| `KeyRace` | threads that expand keys at once: `Rcon` of `util/aes.c` | |
| `MCLogFile`, `MCLogger`, `MCLinkedList`, `MCPassword` | values of the constants for TLC | |
| `SequenceLemmas` | facts about sequences that the proofs share, and induction | |

`PROJECT.json` maps each definition to the lines it models, and lists the runs,
the mutants, the hazards and the findings.


## The system

### Components, their state and their operations

**Front end** (`log.c`, `log.h`).  A log is a list of handles, the last one
added first.  `add_to_handle_list` adds one; `log_debug` ... `log_error` are
macros that compile to `_log_write` or to nothing, by `LOG_FILE_LEVEL` and
`LOG_STREAM_LEVEL`, and compute a mode, the set of kinds of handle that get the
record; `_log_write` formats the record and visits the list; `log_flush` and
`log_destory` visit it too.  No lock of its own.
*Correct when* each record reaches each handle of its mode once, a flush flushes
and a destruction destroys every handle.

**File handle** (`log/log_file.c`).  State: the stream `f_log` and its buffer,
`cur_file_size`, `cur_bak_num`, the mutex, the key.  `write_file` opens the
stream when it is closed, writes, counts, and rotates when the size exceeds
`max_file_size`: close, back up by `rename` or by `lz4_file_compress` and
`remove`, count.  `file_handle_flush` closes the stream; `file_handle_destory`
closes, backs up, frees.
*Correct when* the counted size is the size of the file, files stay bounded (not
by `max_file_size` itself, as the header has it), rotation drops the oldest generation only and loses nothing else, and the mutex
is released.

**Stream handle** (`log/log_stream.c`).  A choice of stdout or stderr per level,
by flags.

**LZ4 files** (`lz4/lz4_file.c`).  `_find_available_mem` finds a block size by
trial allocations; `lz4_file_compress` writes blocks with a header (sizes and
MD5); `lz4_file_uncompress` reads them back.
*Correct when* buffers are large enough, the search ends, no block is skipped,
and what is restored is the source or an error is returned.  The last is not so
when the last write of a file fails, a finding.

**Timer pool** (`util/timer.c`).  `TIMEKEEPER_NUM` slots, a mutex, and a lazy
initialisation that every call runs before it takes the mutex, by an atomic
counter and a flag.
*Correct when* no timer is shared or cleared while it runs, and every call
returns.

**Registry and signal handler** (`util/trace.c`).  A list of the file handles
under `g_mutex`, created with the first handle and destroyed with the last, and
`signal_hadle_fun`, which locks `g_mutex`, flushes each handle of the list,
prints the stack and exits.
*Correct when* the list is exact, the handler touches no freed handle and ends
the process with its buffers written.

**List** (`util/list.c`).  Nodes with a data pointer and a successor; no state
but the heap, and the pointer to the first node, which the caller keeps.
*Correct when* it does to the sequences what its callers think, every node that
is not freed is on one list, and a walk is not disturbed by an insertion in
front of it.

**Encryption** (in `log/log_file.c`).  A record is padded with zeros to whole
blocks, each block is encrypted by itself, and `log_file_decipher` cuts each
block at its first zero.
*Correct when* the text comes back, whatever its length, or an error does.  A
text with a zero of its own does not come back whole, nor one whose last write
fails: both are findings.

**MD5** (`util/md5.c`).  A context: the chaining value, a count of bits in two
words, a buffer of 64 bytes.  Used for passwords, for LZ4 blocks and for
`log_file_md5`.
*Correct when* the digest does not depend on how the input was cut into calls.

**AES** (`util/aes.c`).  `key_expansion` fills a schedule that belongs to the
handle; `cipher` and `inv_cipher` use it.  Global state: `Nk`, `Nr` and the
array `R` of `Rcon`.
*Correct when* `inv_cipher` undoes `cipher`, and both are AES.

The **LZ4 codec** (`lz4/lz4.c`, third party), **error macros** (`util/error.h`),
and the **sample** program.

### How they interact

    program threads --- _log_write, log_flush, log_destory ---> front end
       |                                                          |  list
       | timekeeper_*                                  write_file |  write_stream
       v                                                          v
    timer pool                          file handle (mutex) , stream handle
                                          |            |
              lz4_file_compress, rename <-+            +-> trace_add_handle,
              remove, fopen, fwrite                        trace_remove_handle
                                                           |
    fatal signal ---> signal_hadle_fun ---- g_mutex ---- registry
                             +--> log_flush (of each registered handle)

### What is hard

- threads inside one handle, and the four lines of code at which a call returns
  (`log_file.c:290-306`);
- a rotation of several steps, any of which may fail or be the last one before
  the process dies, and a new handle that inherits what is on disk;
- state that is kept twice: `cur_file_size` and the file, `cur_bak_num` and the
  backups, `_is_initialized` and the list or the slots;
- a signal handler that takes a mutex of the thread it interrupts, reads what
  the thread is freeing, calls `malloc` and stdio inside which it may have been
  interrupted, and can be interrupted by itself;
- a last write that happens in `fclose`, whose result nobody looks at;
- global data that only looks local: the round constants of a key expansion;
- a file of encrypted records that is cut inside a block when the process dies;
- boundaries: a text of whole blocks or of the size of the buffer, a message of
  55, 56 or 64 bytes, 0 or 1 backups, a level equal to the configured one, the last
  timer, the last handle, a block size that gets to 0.

`PROJECT.json` lists them under `hazards`, each with its line and the
properties that would show it going wrong.


## The modules

Every module says in its comments what its variables stand for; names are those
of the source where TLA+ allows (including `destory`).  Mutants, which plant a
plausible bug in one definition, stand before the definition they change.

### LogFile

One action per step between which another thread, a failure or the death of the
process can be told apart.

| action | code |
|---|---|
| `CallWrite`, `CallFlush`, `CallDestroy` | a thread enters `write_file`, `file_handle_flush`, `file_handle_destory` |
| `Lock`, `Unlock` | `_log_lock`, `_log_unlock` |
| `Open`, `OpenFails` | `_file_handle_request`; on failure `write_file` returns without unlocking |
| `Write`, `WriteFails` | `fwrite`, the count and the test of the size; the same for a short `fwrite` |
| `Close`, `CloseFails`, `CloseNull` | `fclose`, a lost last write, `fclose(NULL)` |
| `Rename`, `CompressOpen`, `Compress`, `RemoveFile` and their failures | `_backup_file`; `remove` without backups |
| `BackupDivides` | `% max_bak_num` with 0 backups, in `file_handle_destory` |
| `Count`, `Free` | the reset of the counters; the end of the destruction |
| `Crash`, `Create` | the process dies at any step; a new handle on the same path |

Data is a sequence of units that carry the number of their record, so that
order, loss and duplication are visible.  The stdio buffer keeps at most
`io_cap` units back and passes the others on, at any split.

A compression whose source cannot be opened still opens the backup with `w+` and
then uses the NULL stream: `CompressOpenFails` is the death of the process with a
backup that is emptied or not, by the call that failed.

Assumptions on the caller, which the sample keeps and the header does not spell
out: nobody uses a handle that is being destroyed, or destroys one that is in
use.

`RotatingLog` is the abstract specification: a log cut into generations, of
which the newest `keep` are kept, that loses at most a tail of the current one
in a crash.  It has no threads, no mutex, no buffer, no file names.
`LogFileRotation` maps the backups, which `cur_bak_num % max_bak_num` numbers, to
the queue of generations, and the file with its buffer to the current one.  The
map has to know of a file that is renamed but not counted (`Moved`), and of a
backup that is opened but not yet written (`Kept`).

### Lz4File

`Measure`, `Probe` and `Keep` are `_find_available_mem`, one trial allocation a
step; `CompressBlock`, `CompressShort`, `CompressCut` and `CompressEnds` are one
turn of the loop of `lz4_file_compress` each; `Open`, `ReadBlock`,
`ReadPastBuffer`, `Reject`, `RejectPastBuffer`, `ReadFails` and `ReadEnds` are
`lz4_file_uncompress`.  A failed `malloc` or `fopen` of either is only reported and
the NULL is used: `CompressOpenFails`, `OpenFails`.  Both files are written out by
an `fclose` whose result is not looked at: after `CompressCloseFails` up to a
buffer is missing at the end of the compressed file (blocks are gone or cut,
`CutAt`), after `ReadCloseFails` at the end of the restored one (`unwritten`).
The source is the sequence 1..size, the codec gives any size below
`LZ4_compressBound`, and a block whose data is incomplete fails its test.
`ReadPastBuffer` is the read past the end of `src_buf`, whose size is the
compressed size of the first block: a nondeterministic choice between no harm
and the death of the process.  A block that was cut short is read before its hash
is looked at, so it too may be read past the end (`RejectPastBuffer`).

`LogFile` has `lz4_file_compress` in two steps, the opening of the backup and
its completion: there the question is what is on disk when the process dies.

### Timekeeper

Each access to the shared state is a step: the flag is read (`ReadFlag`), the
counter incremented (`Increment`), the slots cleared (`Clear`), the flag set
(`Mark`), or the thread spins (`Spin`), all before the mutex.  `GetNext` releases
the mutex between two slots of the search of `timekeeper_start_auto`.  A stored
time is abstracted to the thread that stored it.  `timekeeper_pause` changes
nothing; what it reads without the mutex is what `TimersOwned` is about.

### Trace

Threads create handles, write and destroy them; signals interrupt them at any
step and push a handler on their stack.  `Deliver` is a signal sent by others,
`HandlerFault` one the handler raises itself.  A signal is blocked while
its own handler runs on the thread, as `signal` of the C library does.  The
handler hands a `handle_file_t` to `log_flush`, which expects a list of handles:
`HandlerSkip` and `HandlerFault` are what the first word of the structure, the
key, leads to.

The handler calls what no handler may: `fprintf`, `fflush`, `malloc` (in
`backtrace_symbols`), `exit`.  A signal that meets a thread inside the C library
(`CallsLibrary` says before which steps it may be there) either finds it without
a lock or leaves it the owner of one for good (`libc`), and every later step of
a handler that needs the library waits: `HandlerStart`, the visits, `HandlerPrint`
and `HandlerExit`.  One lock stands for those of the allocator and of the streams:
the outcome, a handler that waits for ever, is the same.  `backtrace` may store
1024 addresses in an array of 100: on a deep stack `HandlerOverrun` faults, or
`HandlerPrint` goes on unharmed.  The history `doomed` collects the reasons for
which a signal may fail to end the process, at the step at which each is met.

### Logger

The loops over the list are modelled handle by handle (`VisitFile`,
`VisitStream`, `VisitOther`, `FlushFile`, `DestroyHandle`), so that threads that
log, flush and extend the list interleave at each handle.  The functions of a
file handle are one step: they run under its mutex (`LockDiscipline`, proved).
Records are numbers, and history variables keep which list a record was logged
to.  `StreamOf` computes stdout or stderr as `_stream_handle_create` does, with
`streams & (i + 1)`.

### LinkedList

The heap is a function from addresses to nodes, `malloc` takes any free one, so
that an address that was freed is met again, and it may fail.  One action per
function of `list.c`; `list_destroy` is a turn of its loop per step (`Destroy`,
`DestroyHead`).  A walker follows the pointers as `_log_write` does, while
`InsertBeginning` goes on; removal from a list that is walked is excluded, as no
caller may do it (`Mine`).  `InsertBeginningFails` is the caller of
`trace_add_handle`, which stores the NULL it gets.

`ListSeq` is the abstract specification: sequences, of which one changes by one
element at a time.  It does not know which function was called, hence allows the
element at any place: the refinement shows that a step neither loses nor
reorders the others nor touches another list, and not that the place is right.
The refinement mapping follows the pointers (`Content`).

### EncryptedLog

Creation is one allocation per step (`InitFile`, `InitBuffer`, `InitKey` and
their failures, each with the parts the code frees); `Log(n, zeros)` is a record
of `n` characters, of which those at the places `zeros` are 0 (`%c` with 0 in the
caller's format: `vsnprintf` counts them), through `_log_write` (what `vsnprintf`
cuts, the test of the length), `AES_EX` and `_buf_encrypt`; `Decipher`,
`DecipherBlock`, `DecipherFails`, `DecipherEnds` and `DecipherCloseFails` are
`log_file_decipher`, the last with an `fclose` that fails to write up to `BUFSIZ`
characters and result 0.  A byte of the file is a place in a block
under a key; `inv_cipher` gives back the block if all its bytes are there, in
their places and under the key, and otherwise bytes of no meaning, among which
may be zeros.  `Crash`, `FlushFails` and `DestroyFails` lose what may still be in
the stream buffer, from any byte of it on: the process dies, or an `fclose` fails
that nobody looks at.  A later session appends, with the same password or another.

### Md5, Aes, Password

The algorithms on bytes, as the code computes them: `Md5` keeps words of 32 bits
in halves, for TLC has no larger integers than 31 bits; the context keeps the
blocks it has transformed in place of the chaining value, which is a function of
them (`Chain`).  `FileRead` takes any number of bytes that `read` may return.
`Aes` steps by words of the key schedule and by rounds and keeps the states of
`cipher` as a history (`trail`), with which `inv_cipher` is compared round by
round.  `Bytes` has the operators of C on bytes as tables.  `Password` puts them
together: the digest of a password is the key.

### KeyRace

`Rcon` with each access to `R[0]` a step, for threads that run `key_expansion`
at the same time.  The access is a data race, so its outcome depends on the
build: `inRegister` is a build that goes on with the value the thread has itself
computed (gcc 12 with `-O2`, as `make` has it, was seen to do so), otherwise
the memory is read again (`-O0`, `make ver=debug`).  A value is the exponent of
its power of x.

### Composition

`LogFile`, `Trace` and `Logger` share the file handle at three levels of detail.
`Logger` uses it as atomic sinks, which is sound because of `LockDiscipline`;
`Trace` uses its life (created, registered, key freed, unregistered, freed) step
by step; `LogFile` has all steps on its data.  `Lz4File` is the detail of
the steps `Compress` and `CompressFails` of `LogFile`, which take a backup that is
cut short for an empty one; no refinement between the two is checked.  `EncryptedLog` takes the cipher
for a bijection of blocks that its key inverts, which is what `CipherUndone`
proves of `Aes`, and a password for its key, which is `Password`; `Lz4File` takes
the test of a block's MD5 for a comparison of its data, which `StreamExact`,
`PaddingExact` and `StandardsExact` support.  `Trace` and `Logger` have the lists
of `list.c` as sequences, with the operations read off `list.c`; that its pointers
always make up sequences is what `LinkedList` shows.


## What is checked

| run | module | result | distinct states |
|---|---|---|---|
| `LogFile_rotation` | `MCLogFile` | holds | 220,000 |
| `LogFile_faults` | `MCLogFile` | holds | 1,035,000 |
| `Lz4File_blocks` | `Lz4File` | holds | 472,000 |
| `Timekeeper_pool` | `Timekeeper` | holds | 153,000 |
| `Timekeeper_destroy` | `Timekeeper` | violated: a finding | |
| `Trace_registry` | `Trace` | holds | 765,000 |
| `Trace_stack` | `Trace` | violated: a finding | |
| `Logger_delivery` | `MCLogger` | holds | 260,000 |
| `LinkedList_ops` | `MCLinkedList` | holds | 9,700 |
| `Password_key` | `MCPassword` | holds | 10,800 |
| `EncryptedLog_restore` | `EncryptedLog` | holds | 4,728,000 |
| `KeyRace_schedules` | `KeyRace` | violated: a finding | |

Run one with `tlc -config LogFile_rotation.cfg MCLogFile`.

**LogFile_rotation** (no library call fails).  `SizeAccounting`: the size that
decides on rotation is the size of file and buffer.  `RetainedIsSuffix`: what is
kept is the newest part of what was accepted, complete and in order.
`RetentionFloor`: something is dropped only when `max_bak_num` full generations
are kept.  `ImplementsRotatingLog`: the refinement, with crashes and new
handles.  `LockReleased`: with threads that run on, a locked mutex is unlocked.

**LogFile_faults** (up to two library calls fail).  `LockDiscipline`: who is
past `_log_lock`.  `SizeBound`: how far beyond `max_file_size` a file gets, by the
record that triggers the rotation and by more for each death or failed call; that
it gets beyond at all contradicts `log.h` and is a finding.  `StoredOnce`: a record
is in one file, but for one more copy per crash or failure in a compressing
rotation.  `RotationKeepsFile`: what leaves the log file is complete in a
backup.  `LeakIsFinal`: after an error return of `write_file`, which keeps the
mutex, the handle does nothing any more.

**Lz4File_blocks**.  `BuffersFit`: the buffers fit the memory the trial found.
`Restored`: whichever call failed, what is restored is what the blocks hold up to
some place, none skipped, and all of it when 0 is returned but for an unwritten
end; without a failed call it is the whole source.  `Restorable`: a file of one block of at most
half of `MAX_MEM` is restored, however badly it compresses.  `Terminates`.

**Timekeeper_pool**.  `SlotExclusive`, `TimersOwned`: a running timer belongs to
one thread and keeps its time.  `AutoSucceeds`: the search, which never looks at
all slots at once, finds a free one when there are as many as threads.
`WaitersProceed`: nobody spins forever before the first destruction.

**Trace_registry**.  `RegistryExact`: the list is that of the handles that are
complete and not yet removed.  `VisitsAllocated`: the handler visits no freed
handle.  `SignalEndsProcess`: a signal ends the process with all buffers
written, except in the cases in which the code cannot: it met a thread that owns
`g_mutex`, or a lock of the C library; the handler reaches a handle it cannot
read; or the stack is deeper than its buffer.  There is no other way to hang.

**Logger_delivery**.  `Delivered`: each record in each handle of its mode once.
`SavedOnReturn`: a flush saves what the handles before the first stream handle
had been given, a destruction what all file handles hold.

**LinkedList_ops**.  `HeapExact`: every allocated node is on one list, once, or
was lost with a whole list; no pointer leads to freed memory.  `WalkComplete`: a
walk meets what was on the list when it began, each element once, in order.
`ImplementsListSeq`: the refinement.

**Password_key**.  `StreamExact`: however a message is cut into calls, blocks
and buffer hold what was given, and the two words count its bits.
`PaddingExact`: the padding, a digest exactly when no call failed, and its text.
`RoundsUndo`: each round of `inv_cipher` undoes one of `cipher`.
`StandardsExact`: the digests are those RFC 1321 prints (`DigestExact`); the
tables and the arithmetic agree with their definitions in FIPS 197, and the
results with its examples and, for the password of the sample, with OpenSSL
(`CipherExact`).

**EncryptedLog_restore**.  `AllOrNothing`: a handle has all its parts or none.
`Restored`: the text of all records comes back, character for character, but for
what stands behind a zero in its block (`Kept`) and for an end that the unchecked
`fclose` of the restored file did not write (`unwritten`, 0 unless a call failed).
After one loss of a stream buffer, by a death or a failed `fclose`, what was
written comes back, or the file is refused.  After two it need not: two cuts can
add up to a whole block, and the file is then deciphered to bytes of no meaning
with result 0, which the run covers and the property leaves out.

**KeyRace_schedules**.  `SchedulesRight`: the constants of each key expansion are
those of AES.  Violated by the build that rereads the memory.

Each property has a mutant, a plausible bug in one definition, under which the
run finds it violated.

### Bounds, and why they are enough

- *LogFile*: two threads, since only the mutex relates them and a third one
  would wait like the second; records of 1 and 2 units with `max_file_size` 1, so
  that a record does or does not fill a file, and a file may be exceeded by more
  than one unit; 0, 1 and 2 backups; three records, hence up to three rotations
  of records and one by the destruction, two more than there are backups; a
  buffer of 0 and 2 units; one crash and two handles on the path; two failures in
  the run with failures, so that one can follow another.
- *Lz4File*: the step of 64 MB is 4 units, `MAX_MEM` 18 units (960 MB + 32 MB is
  15 steps and a half; here it is 4 and a half), a header one unit; sizes 0, 1,
  around one step and around two; memories that allow nothing but a fraction of a
  step, one step, two, and everything.  A stream keeps back 3 units, so that a
  failed `fclose` can cut a block of two units with its header and part of the
  one before.  One failure.
- *Timekeeper*: two threads and two slots, so that there is a thread to be late
  and a slot to be taken; two destructions.
- *Trace*: two threads, two handles (the last handle removed destroys the list,
  so one must be able to follow another) and two signals, one of which can
  interrupt the handler of the other.
- *Logger*: two threads, two files and a stream handle, in any order on the
  list; two records at any level; three settings, among them a closed level and
  levels that differ.
- *LinkedList*: four addresses for two lists, so that a list can have three
  nodes (a first, a middle and a last one) beside another list, and a freed
  address is given out again; one datum besides NULL, which gives equal and
  unequal data.
- *Password*: messages of 0 to 200 bytes, among them 55, 56, 64, 119 and 120, at
  which padding changes; `read` returns 1 to 140 bytes, two blocks and a part;
  a word of the count has `Word` = 1024 values instead of 2^32, so that the carry
  happens at 128 bytes.  Keys of 16, 24 and 32 bytes; blocks in which every byte
  value occurs once.
- *EncryptedLog*: a block of 3 characters and a buffer of two blocks, so that a
  text is shorter than, equal to and longer than one block and the buffer; at most
  one zero in a text, at any place of a block; two records; a stream buffer of 4
  bytes, so that a cut can be in the middle of a block and in front of it, and one
  of 2 characters for the restored file; two losses and one failing call.
- *KeyRace*: two threads, ten rounds as in AES-128.

The proofs below have none of these bounds.  Symmetry is used in
`LogFile_faults` and `Logger_delivery`, on threads and, in `Logger`, on files,
and in `LinkedList_ops` on addresses: that code only compares them for equality.
None of them checks liveness; `ImplementsListSeq` is a safety property whose
mapping contains no address.

`CHECK_DEADLOCK` is off in all runs: the bounds stop the model, and so do a
finished file in `Lz4File`, the death of the process in `Trace`, a handle that is
freed, a digest, a block or a file that is finished, and a full heap.

### Fairness

- `LogFile!FairSpec`: weak fairness of the steps under the mutex, thread by
  thread: a thread that is not blocked runs on.  None for `Lock` (the mutex
  promises no order) and none for the calls.
- `Timekeeper!FairSpec`: weak fairness of the steps of a call, so that a thread
  that initialises gets on; none for the calls.
- `Trace!FairSpec`: weak fairness of each thread's steps and of its handlers;
  none for the calls and for the signals sent by others.  A handler waits for a
  lock of the library as it does for `g_mutex`: its step is not enabled as long as
  an interrupted thread owns it, so nothing is assumed to end that wait.
- `Lz4File!FairSpec`: weak fairness of the only thread.


## What is proved

All theorems are for any set of threads and any values of the constants that the
modules' `ASSUME`s allow (`LogFileAssumption`, `Lz4FileAssumption`,
`TimekeeperAssumption`, `TraceAssumption`, `LoggerAssumption`,
`LinkedListAssumption`, `EncryptedLogAssumption`, `Md5Assumption`,
`AesAssumption`), which leave the bounds of the runs any numbers and ask for a
finite set only of the threads of the pool and of the nodes.  Each proof is one
of an inductive invariant: it holds initially, and each action keeps it, one
lemma per action or per group of actions that changes the same variables.

**LogFileProofs**

| theorem | property |
|---|---|
| `TypeCorrect` | `TypeOK` |
| `MutualExclusion` | `LockDiscipline` |
| `LeakTheorem` | `LeakIsFinal` |
| `SizeAccounted` | `SizeAccounting` |
| `NothingLost` | `RotationKeepsFile` |
| `FilesBounded` | `SizeBound` |
| `HandleIsRotatingLog` | `ImplementsRotatingLog` |
| `NewestRetained` | `RetainedIsSuffix` |
| `FloorKept` | `RetentionFloor` |
| `NothingDuplicated` | `StoredOnce` |

The invariants build on each other.  `MutexInv` adds to `LockDiscipline` that a
freed or dead handle has no owner; from it `CriticalOwns` says that a step under
the mutex is one of the owner, and that no other thread is inside.  `StreamInv`
says when the stream is open and that a closed one buffers nothing: without it
an `fclose` could bring back units that were rotated away, and `SizeAccounting`
is not inductive.  `SizeInv` adds that the file is empty between a backup and its
count.  `CopyInv` says that a file about to be removed equals its backup, unless a
call failed.  `BoundInv` relates the size to `cur_file_size` with a slack of one
full file per failure and one record per crash, and has a smaller bound while no
thread rotates: this is what lets a new handle start from an oversized file.

The last four are about the rotation.  `RotationInv` is what the first six prove
of the data and of copies, and that the step a thread is at fits its call
(`DoneInv`).  Under it each action of `LogFile` is shown to be an action of
`RotatingLog` or a stutter, under the mapping of `LogFileRotation`.  The heart
is the queue: with `n` backups the files are numbered modulo `n`, the mapping
lists them oldest first, and a rotation either appends to the list (fewer than
`n` files so far) or drops its head and appends, since the file it overwrites is
the oldest.  `HandleIsRotatingLog` has the hypothesis `[](faults = 0)`, as a
failed `rename` loses what the abstract log keeps; the run has no failures
either.  Deaths and new handles are in it.

`SuffixInv` gives the part that was dropped a name: what was accepted is that
part followed by what is retained.  It needs the concatenation of a sequence of
sequences to be additive (`FlattenAppend`, `FlattenTail`).  `FloorInv` says that
every closed generation is full, except one that the destruction closes, and that
nothing is dropped before `max_bak_num` backups exist; `CallsInv` is why: only a
record that exceeded `max_file_size` rotates, and nobody uses a handle that is
destroyed.  Full generations times their number bounds the length of what is
retained, by induction on the number of generations.  `OnceInv` counts the files
that hold a record, without the log file once its compressed copy is complete
(`Copies`): otherwise the step that completes the copy would break the count
before `remove` repairs it.

**Lz4FileProofs**

| theorem | property |
|---|---|
| `Lz4FileTypeCorrect` | `TypeOK` |
| `BuffersAlwaysFit` | `BuffersFit` |
| `AlwaysRestored` | `Restored` |
| `OneBlockRestorable` | `Restorable` |

`SearchInv` says that a size that is tried is a whole or half number of steps, or
a power of two below a step (`Tried`, `SmallerTried`), so that halving never cuts
a remainder, and that it is the first one or the previous one did not fit.  It
follows that the size that is kept leaves room for the header and is not 0.
`BlocksInv` places each block in the source and in the compressed file behind the
one before, also when a failed `fclose` has cut them (`CutKeeps`); `ReadInv` says
that the reader is at the beginning of a block and has restored nothing that lies
behind it.  `FileInv` is their conjunction.  `StoredInv` adds what `Restored` says
of blocks that were cut short or are missing: the reader has restored the
concatenation of the blocks in front of it, which begins that of all blocks
(`StoredNext`, `StoredRest`), and a failed `fclose` leaves a beginning of it
(`StoredCut`).

`OneBlockInv` is for `OneBlockRestorable`: while the file is written nothing or
one block that takes all of the source is in it, and the buffer of the reader is
allocated for that block, so that no read goes past it.

**UtilProofs**

| theorem | property |
|---|---|
| `TypeCorrect` | `TypeOK` |
| `TimersKept` | `TimersOwned` |
| `Exclusive` | `SlotExclusive` |
| `AutoNeverFails` | `AutoSucceeds` |
| `PasswordTypes` | `PasswordTypeOK` |
| `DigestStream` | `StreamExact` |
| `DigestPadding` | `PaddingExact` |
| `CipherUndone` | `RoundsUndo` |

The first four are about the timer pool (`Timekeeper`), the others about MD5, AES
and the key of a password (`Password`).

`PoolInv` says that before a destruction only one thread gets past the counter,
and that no timer runs until it has set the flag.  `AutoNeverFails` needs an
argument of its own: give each thread the slot it holds or looks at as a rank;
then at most `n - k` of the `n` threads have a rank above or equal to `k` unless
none has (`Spread`).  A thread that leaves slot `k` found it taken, hence another
thread stays at rank `k` or below, and the last slot can never be found taken.

`PasswordInv` is `Md5Inv` and `AesInv`, which share no variable: the digest is
copied into the key.  TLC has checked it on the states of `Password_key`.

*The digest.*  `StreamExact` speaks of the state between two reads and says
nothing of single bytes; `Md5Inv` says that the context holds (`Held`) the first
`fed` bytes of the message: byte by byte in the blocks and in the buffer, with
the count a function of `fed` (`BitsOf`).  Two lemmas carry it over `MD5Update`:
`CountExact`, that adding `l` bytes to the count of `n` gives the count of
`n + l`, the test `low < bits[0]` finding the carry and nothing else; and
`UpdateHeld`, over the three parts of a call: the bytes that complete the
buffered block, the whole blocks, the rest.  `MD5Final` pads in one block or two,
as 55 or fewer bytes or more are in the buffer; in both cases the blocks, one
after the other, are the message, a mark, the least number of zeros that ends the
block, and the count.  This holds for any message, any reads, and any `Word`
that is a multiple of 512 (a block has 512 bits) up to 2^32, which is what the
source has.

*The cipher.*  `AesInv` keeps the history of `cipher`, one state per round, tied
to the block and to the schedule by the steps of a round (`History`), and says of
`inv_cipher` at round `r` that undoing the substitution and the rows gives the
state `cipher` began round `r + 1` with.  What a step needs: `add_round_key`
undoes itself (`XorZero`, `XorAssociates`); the second table inverts the first
(`TablesInverse`, from the 256 entries); the rows turn back; and `inv_mix_columns`
inverts `mix_columns` (`MixUndone`).  The last is arithmetic in the field of
`gmult`: `gmult` by a constant is a sum of doubles (`MulValues`), doubling is
linear (`DoubleLinear`), and of the products of the two matrices all but the
diagonal cancel.  It holds for every key of at least 16 bytes, the least that
`key_expansion` reads; the schedule is only asked to be words, so nothing is
assumed of how it is computed (a schedule that `KeyRace` spoils still gives the
text back to the handle that has it, though not to another one).

**TraceProofs**

| theorem | property |
|---|---|
| `TypeCorrect` | `TypeOK` |
| `RegistryStaysExact` | `RegistryExact` |
| `VisitsStayAllocated` | `VisitsAllocated` |

`RegistryExact` speaks of the moments at which `g_mutex` is free and is not
inductive.  `ListInv` says what the list is at every step, with `Listed` for the
handles that have a node while a call is between locking and unlocking.  It rests
on `CallInv`, that a handle belongs to one call at a time and its state says how
far that call is, and on `MutexInv`, that the owner of `g_mutex` is inside one
call or visits the list in one of its stacked handlers, never both.  `VisitInv`
says that what a handler has still to visit is on the list: nobody can remove
and then free it, as the handler owns the mutex.

**LoggerProofs**

| theorem | property |
|---|---|
| `TypeCorrect` | `TypeOK` |
| `DeliveredOnce` | `Delivered` |
| `SavedBeforeReturn` | `SavedOnReturn` |

`DeliveryInv` follows the loop of `_log_write`: while a thread logs a record each
sink has it as often as there are handles that give to it among those the thread
has passed, and no other thread logs that record.  A handle on the list occurs
once (`TypeInv`), so a visit adds exactly one.  `SaveInv` follows the loops of
`log_flush` and `log_destory`: what is left of the list is its end, and the files
that were passed are on disk as far as they had been given when the call began.
`SavedOnReturn` is a property of steps, and is proved from it for the step that
returns.

**LinkedListProofs**

| theorem | property |
|---|---|
| `TypeCorrect` | `TypeOK` |
| `HeapStaysExact` | `HeapExact` |
| `WalkStaysComplete` | `WalkComplete` |
| `ListsAreSequences` | `ImplementsListSeq` |

The invariant names the chains the pointers stand for: there is a sequence of
nodes for each list that the pointers follow to a `NULL` (`Path`), no node is on
two of them or twice on one, and allocated nodes that are on none were lost
together with all that follows them (`Shape`).  A walker that has read a pointer
has behind it the rest of the chain at that time (`WalkOn`), which an insertion
in front of it leaves alone.  The two facts about pointers are `PathInsert` and
`PathRemove`: one assignment to one `next` changes one chain by one element and
no other, because the chains are disjoint.  A chain is determined by its first
node, hence the chain of the invariant is the one the refinement mapping computes
(`Chain`), and each action is an action of `ListSeq` or a stutter.

**EncryptedLogProofs**

| theorem | property |
|---|---|
| `TypeCorrect` | `TypeOK` |
| `CreatedWhole` | `AllOrNothing` |
| `TextRestored` | `Restored` |

They hold for any size of a block (`B`), of the buffer of a record and of the
stream buffer, which need not be related, and for any passwords.  `PartsInv`
says which parts of a handle are allocated at each step of its creation.  For
`Restored` the file must be known while nobody reads it.  `FileInv`: it is whole
blocks, and each is the block of the plain text at its place under one key, with
the padding behind it; or the one loss of a stream buffer left a piece of a block,
and then the length is never whole again, as all records are whole (`WholeSum`).
`TextInv`: what is kept of the plain text, each block up to its first zero, is what
is kept of the texts in their order, which is additive over whole blocks
(`KeptConcat`) and true of one padded record (`MessagePadded`).  `ReadInv`: the
reader is between two blocks and has restored what is kept of those in front of
it; when it has closed its file, but for what was not written.  `RealLength` is the scan for the end of the text in a
block, `EncipheredAfter` and `EncipheredCut` say that a record at the end and a
cut at a whole length leave the blocks as they are.  That `inv_cipher` undoes
`cipher` is in the model, and is `CipherUndone` of `UtilProofs`.

**How.**  The provers cannot instantiate an operator parameter, which the
library's induction theorems have.  `SequenceLemmas` therefore states induction
for a *set* of naturals (`SetInduction`, from the well-foundedness of `<`): a
set that contains 0 and the successor of each of its members is `Nat`.  The
facts about `FlattenSeq`, `RemoveFirst` and reversal that the proofs need follow
from it, and so does the existence of a function a recursive definition
describes (`RecursionExists`): `gmult`, the round constants, the steps of
`MD5Transform` and its chain over the blocks are recursive functions on an
interval, and each is first shown to satisfy its own equation.

**Not proved, only model-checked**: liveness (`LockReleased`, `WaitersProceed`,
`SignalEndsProcess`, `Terminates`), which the provers cannot reach;
`StandardsExact`, which compares results with the examples of the standards: a
computation with given bytes, which TLC does and a proof would only repeat;
`KeyRace`, whose property the code violates.

## What is not modelled

- `lz4/lz4.c`: third-party; assumed lossless.  Of `lz4.h` only
  `LZ4_COMPRESSBOUND` is used.
- The characters of a text, its prefix with date and thread, and colours
  (`set_stream_param`): a record is a number, or a length in `EncryptedLog`.
- The `memset` at the end of `MD5Final`, which clears the size of a pointer
  instead of the context; nobody reads it again.
- `Nk` and `Nr`, which `aes_init` sets for the whole process: all handles have
  keys of 16 bytes, so that every thread stores the same values.
- `trace_print`: one step; whether the stack is deeper than its buffer is a
  nondeterministic choice.
- The sample program: its threads and calls are the environment of the models.
- A destruction of a handle that is still in use, which the sample never does and
  the header neither allows nor forbids.
- `exit` inside `exit_throw` of `util/error.h` is the death of the process.


## Where code and documentation differ

Shown by a run: `timekeeper_destory` leaves the counter of the initialisation set
(`Timekeeper_destroy`); a signal with an unencrypted handle registered prints no
stack (`Trace_stack`); threads that create encrypted handles at once use each
other's round constants, in a build that keeps them in memory
(`KeyRace_schedules`).

Modelled as the code has it, and described under `findings`: a log file, and the
backup made of it, is larger than `max_file_size`, which `log.h` calls the "max
size of every log file", by the record that triggers the rotation, and by more
after failures and deaths (`SizeBound` is the limit that the code keeps);
`log_flush` of a
closed handle calls `fclose(NULL)`; `log_flush` stops at the first stream handle;
a record of exactly `LOG_FILE_LEVEL` is in no file; the mutex that `write_file`
keeps on error; the division by zero of a handle without backups; the path that
`file_handle_destory` does not free; the registry that is lost when `malloc`
fails; the digest `log_file_md5` formats after a failure; the last character of a
record of the full size; the return values of `add_to_handle_list`,
`file_handle_create` and `timekeeper_start_auto`; the flags of the streams; the
macro `write_log` without debug message; the read past the buffer in
`lz4_file_uncompress`; the result of `fclose`, which nobody looks at, when a log, a
compressed, a restored or a deciphered file is written out; the zeros in an
encrypted record, behind which its block is dropped; the handler that waits for a
lock of the C library its own thread owns, and the deep stack it stores past its
buffer; `_exit_throw` of `lz4_file.c`, which only prints, so that a NULL stream is
used.


## Plan

Done, in this order: the file handle with its abstract specification and its
proofs, the timer pool with its proofs, the registry and the signal handler, the
front end, the LZ4 files with their proofs, the list with its abstract
specification, MD5 and AES on bytes, the encrypted log, the race of the key
expansions.

The runs that only showed `fclose(NULL)`, the early end of `log_flush` and the
level comparison made room for these: each of the three is plain from one line of
the code and stays among the findings.

Then the proofs of `LinkedList`, `Trace` and `Logger`, of the rotation with its
abstract specification, of the encrypted log, and of MD5 and AES.

Every safety property that a passing run checks is now a theorem, but for
`StandardsExact`, which is about examples.
