# Formal models of the system programming homeworks

The repository holds seven independent C programs (`src/task1` … `src/task7`),
each an exercise in one way of letting processes or threads work together:
shared memory and semaphores, FIFOs, message queues, pipes, signals, threads,
`epoll`. This directory holds TLA+ models of them, written from the C code,
checked with TLC and, where it is within reach, proved with TLAPS.

Run a check with `tlc -config <X>.cfg <module>` and a proof with
`tlapm <module>.tla`. `PROJECT.json` lists the components, the runs, the
mutants (one plausible bug per property, which that property must catch), the
lines of C each definition stands for, the findings, the hazards and the
theorems.

## 1. Inventory

### Shared memory transfer — `task3/shr-mem-SYSV` (modelled)

* **State.** The segment with the words `status`, `s_ind`, `r_ind` and a ring of
  `BUF_SZ` = 40 bytes; three System V semaphores `empty`, `mutex`, `full`; the
  two files.
* **Operations.** `main` sets the segment and the semaphores up and forks; the
  parent runs `send` (a byte per turn from the file to the ring) and waits for the child,
  the child runs `receive` (a byte per turn from the ring to the copy).
* **Hard.** The end of file travels over `status`, a word of its own which is
  tested outside the critical section and combined with the value of `full`
  inside it; both processes write it.
* **Correct when** the copy is always a prefix of the source, both exclude each other,
  the copy is complete when the receiver ends, and both end.

### Thread pool — `task7/multiplex-io/server/src/thpool.c` (modelled)

* **State.** The job queue and its `rwmutex`; the binary semaphore `has_jobs` (flag,
  mutex, condition); `num_threads_alive`, `num_threads_working` under `thcount_lock`; the globals
  `threads_keepalive` and `threads_on_hold`.
* **Operations.** `thpool_init`, `thpool_add_work`, the loop `thread_do`, which is all the server
  uses; `thpool_wait`, `thpool_pause`, `thpool_resume`, `thpool_destroy`.
* **Hard.** A binary semaphore counts one token for any number of jobs: the token
  has to be passed on by the workers. Pausing is a signal that stops a worker wherever it is,
  with the locks it has there. Destroying frees what the workers still use to leave.
* **Correct when** no wakeup is lost, every job runs exactly once, jobs are taken in
  order, the count of working threads never says idle too early; waiting means that all jobs are
  done, calls return, a destroyed pool leaves no job half run and nobody at work in it.

### Monte Carlo integral — `task4/integral-mk` (modelled)

* **State.** The segment `shm[0]` (threads that have reported) and `shm[1]` (their points),
  used in all rounds; a mutex per child process.
* **Operations.** In each round `main` clears the segment and forks; the child's threads
  run `GeneratePoints`; the parent polls in `Receive`.
* **Hard.** The reader takes no lock; the counter is incremented before the sum; threads of
  a round can outlive it.
* **Correct when** each result is the sum over all threads of its round.

### Transfer by signals — `task5/sig-transf` (modelled)

* **State.** `counter` and `out_char` in the parent, the bit mask and the byte in the child,
  the pending signals of both, the alarm.
* **Operations.** The child sends SIGUSR1 for a one and SIGUSR2 for a zero and waits in
  `sigsuspend`; the parent's handler answers with SIGUSR1; `SIGCHLD` ends the parent,
  `SIGALRM` the child.
* **Hard.** Pending signals are a set, not a queue; the answer leaves before the byte is
  stored; the alarm of one second is armed once per byte.
* **Correct when** no two signals meet, the copy is a prefix, complete when nothing timed
  out, and both processes end.

### FIFO transfer — `task3/FIFO` (modelled)

* **State.** The FIFO of the server, the FIFO of the client, `msg.sm_data` of the client, the two files.
* **Operations.** The client sends its pid and the path; the server answers `Ready`, then sends
  messages of one length byte and up to 127 bytes. A message with a length other than 127 is
  the last one.
* **Hard.** A file whose size is a multiple of 127 has no last message; the client
  holds a write end of its own FIFO and never sees its end of file; reads know nothing of
  messages; the opens of both sides wait for each other.
* **Correct when** the client stays in step with the messages and ends with a complete copy.

### Message queue transfer — `task3/msg-queue-SYSV` (modelled)

* **State.** One kernel queue, found by a key made from the path of the program, so that it outlives a
  run; in each run the two files, `buf`, `s_msg.mtext` and `read_sz`.
* **Operations.** The child runs `send` (a message per block of 128 bytes, copied with `strcpy`, and
  an empty one of type 255 at the end), the parent `receive`, which removes the queue after that one.
* **Hard.** A full queue blocks; a sender that fails to open leaves the receiver waiting, a receiver that
  fails leaves a sender and its messages behind; the string copy stops at a NUL byte and writes past a block without one.
* **Correct when** the copy is what the queue held before and then the file, and only the user keeps a
  run from ending.

### Duplex pipe — `task2/duplex-pipe` (modelled)

* **State.** Two pipes, each a ring of pages; the buffer and the packet number of either process;
  who holds which end of which pipe; the two files.
* **Operations.** `p_snd`, `p_rcv`; the parent sends `src`, the child writes it to `dst` and sends that
  back into `src`.
* **Hard.** A packet of up to 65,027 bytes is read with one `read`; a write that does not fit sleeps
  in the middle; lengths are sent in two characters that wrap; each process inherits all four ends.
* **Correct when** the echoed file equals the source and both processes end.

### System service — `task6/sys-service` (modelled)

* **State.** The current and the next sample of `/proc/PID/maps` with their numbers of lines, the open file,
  the log descriptor; outside, the mappings of the tracked process.
* **Operations.** A sample every ten seconds: `open_maps_file`, `parse_maps`, `PML_diff`, `PML_swap`.
* **Hard.** The process goes on, or ends, while its mappings are read line by line; lines are compared
  by their index, up to the shorter sample, and in fields that both lines have.
* **Correct when** a sample shows what was there, changes are logged, nothing is logged of a quiet process, and the
  service ends with the process.

### Multiplexing server and client — `task7/multiplex-io` (modelled)

* **State.** The table `Clients` with `client_max`; the registration and response FIFOs
  shared by all clients; `epoll_fd` and its set; the jobs of the pool; two FIFOs per client.
* **Operations.** The main thread registers clients, the epoll thread turns events
  into jobs of the pool, the jobs read a request and answer it. The client registers,
  waits for the answer, opens its FIFOs, sends a request and ends after ten seconds.
* **Hard.** Three kinds of threads share descriptors set at different times; one response
  FIFO serves every client; level-triggered events repeat until somebody reads. What the set
  watches is descriptor 0, the server's own input (s_main.c:183), and the event handed to a job is one
  nobody has filled, so the requests in the FIFOs of the clients are never read.
* **Correct when** an answer stands for FIFOs that exist, each client that waits has a request or an answer
  under way, a waiting client is released. The bound `MAX_CLIENT` of the table is out of reach: the second
  client ends the server, and so may a call that fails on the first.

### Shell wrapper — `task1/shell-wrapper` (modelled)

* **State.** The script with its offset, which all processes share, and the part buffered by `fgets`;
  the pipes; which process has which end open.
* **Operations.** The loop of `main`, `scan_cmds`, `run_cmd`: a pipe and a child per command, then as many `wait`s.
* **Hard.** Which process keeps which end of a pipe open, and so who is told when a
  neighbour ends; descriptors that nobody closes; what `exit` of a child does with its copies of the buffers of stdio: it
  puts out the prompt that the shell has buffered, into the pipe behind it, and moves the offset of the shared script back.
* **Correct when** a pipeline passes everything on, the shell comes back for the next line, lines run
  once and in order, nothing is left open.

The programs share no code and never talk to each other, apart from the server of
task 7, which hands its events to the thread pool. What they share is a
promise: most of them copy a file. `FileTransfer` states it once.

## 2. Modules

| module | models | state and actions |
| --- | --- | --- |
| `FileTransfer` | what a transfer promises | `dst` grows as a prefix of `src`; `Close` when at most `MaxLost` bytes are missing |
| `ShmTransfer` | `sm_main.c`, `sm_sem.c` | one program counter per process naming its next system call; `sem` the three semaphores; one action per call |
| `ShmTransferProofs` | — | proofs about `ShmTransfer` |
| `JobPool` | what the server expects of the pool | jobs taken in order by `Size` threads, each one run |
| `ThreadPool` | `thpool.c` as used | `mpc`, `wpc` program counters; `queue`, `v`, `rwmutex`, the two counters; one action per critical section |
| `ThreadPoolProofs` | — | proofs about `ThreadPool` and `ThreadPoolLife` |
| `ThreadPoolLife` | the rest of `thpool.c` | EXTENDS `ThreadPool`; the calls of the user's thread as further values of `mpc`; `paused` the workers in `thread_hold`, `locked` what they hold there |
| `MonteCarlo` | `mk_main.c` | threads of every round, `shm0`, `shm1`; a load and a store are separate steps, as in the `-O0` build the CMake file asks for |
| `SignalTransfer` | `st_main.c` | pending signals per process as a set; a handler and the return of `sigsuspend` are one step |
| `SignalTransferProofs` | — | proofs about `SignalTransfer` |
| `FifoTransfer` | `fifo_server.c`, `fifo_client.c` | `spc`, `cpc` naming the next call; `pipe` the bytes in the client's FIFO; one action per call |
| `FifoTransferProofs` | — | proofs about `FifoTransfer` |
| `MessageQueueTransfer` | `mq_main.c` | `queue` the kernel's, with the run that made it; per run `spc`, `rpc`, the buffers of the sender and what the run found in the queue. Its formulas are `QueueInit`, `QueueNext`, `QueueSpec`, `QueueTypeOK`, as its proofs stand beside those of the server |
| `MultiplexServer` | `s_main.c`, `cn_main.c`, over `JobPool` (`Pool == INSTANCE JobPool`) | `mpc` the main thread, `cpc` the clients, the FIFOs, the `epoll` set; `pending`, `running`, `finished` are the pool's |
| `MessageProofs` | — | proofs about `MultiplexServer` and `MessageQueueTransfer`, which share no name |
| `DuplexPipe` | `dp_pipe.c`, `dp_main.c` | `pc` of both processes, generic in the process; `pipe[p]` what `p` has written, each byte with its page; `fd` all open ends. Its formulas are `EchoInit`, `EchoNext`, `EchoSpec`, `EchoTypeOK` |
| `Task2And4Proofs` | — | proofs about `MonteCarlo` and `DuplexPipe`, which share no name |
| `MapsService` | `ss_start.c`, `ss_config.c`, `ss_log.c` | `pc` of the service, one action per line read; `mapped` what the process has at each address; `log` the pairs the last comparison logged |
| `MapsServiceProofs` | — | proofs about `MapsService` |
| `ShellWrapper` | `sw_main.c`, `sw_run.c`, what `sw_parse.c` hands on | `ppc` the shell, `cpc` its children; `held`, `cheld` the open ends; `chan` the pipes; `ran` the lines run so far, `wrote` what each program has written |
| `ShellWrapperProofs` | — | proofs about `ShellWrapper` |
| `MC*` | — | bounds for TLC |

`ShmTransfer` implements `FileTransfer` with `MaxLost` = 1 (`TransferSpec`) and `FifoTransfer` with
`MaxLost` = 0, both checked and proved; `ThreadPool` implements `JobPool`
with its fairness (`PoolSpec`, checked; without the fairness proved), `ThreadPoolLife` takes its worker steps over, and `MultiplexServer` runs its jobs on `JobPool`.
Definitions named "Mutant" in a comment are wrong on purpose: each is what a
definition of the code would be with one plausible bug, kept to show that a
property catches it. They take part in no specification.

### Abstractions

* Contents of files are short sequences over a small set; `read` and `write` of
  regular files succeed. Opening fails or succeeds where the code opens a file.
* A `semop` is one atomic step. A step of `ShmTransfer` inside the critical section
  covers the lines between two semaphore calls, which only the other process's
  test of `status` could tell apart, and that test is a step of its own.
* `ShmTransfer` keeps the three words and the ring apart. In the code `s_ind` lies at
  byte 64 and `r_ind` at byte 128 of the segment, because the pointers are advanced by
  `sizeof` times their own size; the ring covers the bytes 24 … `SHM_SZ` − 1. They are
  apart exactly when `SHM_SZ` is at most 64, its value in the source.
* `MySemRemove` (sm_sem.c:68) reaches `IPC_RMID` only when there is no semaphore, so the last calls of
  either process leave the other one's semaphores alone and are not steps.
* In `ThreadPool` a critical section of `bsem->mutex` and `thcount_lock` is one step. `rwmutex`
  has a holder, for the semaphore is posted while it is held.
  `pthread_cond_wait` may return without a signal.
* In `ThreadPoolLife` one thread makes all the calls, as in the examples of `thpool.h`. Every section of `bsem->mutex`
  and `thcount_lock` is still one step; a worker that SIGUSR1 meets at such a step may be caught with the lock (`locked`).
  The handler may be met at any step and any time after `pthread_kill`.
* In `MessageQueueTransfer` a run starts when the parent of the one before has ended, whatever its child still does.
  `strcpy` of a block without a NUL stops at the zero byte that the heap has behind `buf` and writes it behind
  `mtext`. In the build of the CMake file (gcc, no optimisation) the low byte of `read_sz` lies there; with -O2 it does not, so
  `behind` may be either.
* In `ShellWrapper` the programs are the environment: one that writes once, one that never stops, one that copies, one that copies
  once, one that does not exist, and a command without words. A child between `fork` and `exec` disturbs nobody and is one step. The
  standard input is a script, and the script fits into one buffer of stdio, as the prompts do. The script is a text whose units are a
  command and the "|" or the end of line behind it, so that the shared offset may lie inside a line, at such a unit; a place inside a word counts as
  one of the two next to it. The prompts that the `exit` of a child flushes are one unit of its output, whatever their number.
* In `SignalTransfer` handlers block all signals, so a `sigsuspend` delivers one signal.
  Which of several pending signals comes first is left open. Whether SIGALRM is
  blocked outside `sigsuspend` depends on a set the code does not initialise (st_main.c:66); the
  model lets it come at any moment, which includes both.
* A FIFO (`FifoTransfer`) is the bytes in it. `open` of one end waits for the other one; a process about to call
  it counts as being in the call. A write of at most `PIPE_BUF` bytes waits until it fits as a whole.
* A pipe (`DuplexPipe`) is the ring of pages of Linux, for its packets are longer than `PIPE_BUF` and POSIX
  would let every one of them fall apart: a write first puts its part that is no
  whole page behind the bytes of the last page, if it fits, then takes fresh pages, and sleeps when there is none. A read of a
  garbled header can take more than the buffer holds; the bytes beyond are arbitrary.
* In `MultiplexServer` each `exit` of the main thread and of the epoll thread's start is a step (`Fails`): making and opening the FIFOs of
  a client, the write of the answer, `epoll_create1`, `epoll_ctl`. A read of 1024 bytes takes all that lies in a FIFO (17 requests would be more).
  `pmutex` is held for one step of either thread and left out. The lines at the
  server's terminal are of three kinds: a GET, other words, and one without a second word.
* A line of `/proc/PID/maps` (`MapsService`) is an address and a kind: the path, which may be missing, and the other fields as one
  value. Each line is read at a moment of its own, which is finer than the buffers of `getline`. The kernel
  goes on above the last address it gave out.
* `Counts` stands for what a thread of `MonteCarlo` counted, the content of its uninitialised
  counter included: any integers, negative ones too, whose sums stay within an `int`.

## 3. Runs

| run | bounds | shows |
| --- | --- | --- |
| `shm_transfer` | ring of 3, files of 0 … 5 distinct bytes, failing opens | mutual exclusion, at most the last byte lost, the inductive invariant with types and prefix, the receiver ends, the sender that waits for it ends, `FileTransfer` implemented |
| `shm_last_byte` | same | **violation**: the receiver may stop before the last byte |
| `thread_pool` | 3 workers, 3 jobs | wakeups, exactly once, idle means done, the inductive invariant, `JobPool` implemented |
| `thread_pool_life` | 2 workers, 2 jobs, any number of pauses, any order of calls | what a destroyed pool leaves, waiting means done, which calls return |
| `monte_carlo` | 3 threads, 2 rounds, counts −1 and 2 | `shm[0]` is exact while polled, at most one thread late, the first result misses at most one thread, all rounds end |
| `signal_transfer` | 8 bits, six files of up to 2 bytes | one signal in flight, a prefix and complete unless timed out, both end |
| `fifo_transfer` | 2 bytes per message, a FIFO of 7 bytes, files of 0 … 5 distinct bytes | in step with the messages, `FileTransfer` implemented without loss, the client ends when the last message is short, the server ends |
| `message_queue` | blocks of 2, a queue of 3 bytes, two runs, NUL bytes at every place of a block, failing opens, Ctrl-C | what the copy holds, only the user keeps a run from ending |
| `multiplex_server` | 3 clients, 2 pool threads, 1 line typed, 2 jobs | an answer stands for FIFOs that exist, requests and answers under way are one for each waiting client, waiting clients are released unless requests or answers run together |
| `duplex_pipe` | characters of 4 values (8 bytes per packet), 3 pages of 4 bytes, files of 0 … 18 bytes | full packets are read as a whole, the echo is exact unless the last packet falls apart, both end |
| `maps_service` | 3 addresses, 3 kinds of lines, 2 changes, any number of samples | samples show what was there, changes are logged as far as the comparison can see them, nothing of a quiet process, the service ends with it |
| `shell_wrapper` | scripts of up to six lines, up to 3 commands a line, pipes of one unit, 9 descriptors | descriptors are accounted for, output is whole, lines run in order, the shell comes back |

Why the bounds are enough: a ring of three slots with five bytes makes both indices wrap
and both `empty` and `full` reach zero and `BUF_SZ`, and leaves room for two unread bytes beside the end of
file, so that losing only one of them is not owed to the size; distinct bytes make every byte out of
place visible. Three workers let one hold a stale token while another has
emptied the queue and a third sleeps. Two rounds show everything one round
hands to the next, as only the segment survives it; three threads give a
first, a middle and a last report, and the counts −1 and 2 sums that are below and above what was there. The signal transfer keeps the real eight bits; two bytes show what one leaves
behind for the next. The FIFO of 7 bytes fills up in the middle of a
third message. A queue of three bytes with blocks of two fills up with one block, so every sender waits for room, and two runs give one
that meets what the other has left, its messages and its orphan. Two workers and two jobs let one worker be paused or leave while the other works, with a job
queued behind a job held; more pauses than jobs can hit either in each place. Three commands give a pipeline a first, a middle and
a last one, and the scripts with two first commands that do not exist give lines that run again, from a place inside a line too, and the
places given back that add up; the descriptors (9, of which three are the terminal's) end in the fifth line run. The third client finds a server that has ended, or two answers at once; one line and two jobs give a
job that reads it and one that waits in vain. Two changes let a mapping come or go while a
sample is read and another one before the next. The duplex pipe keeps the proportions of the code and of Linux: the
length takes two characters whose values wrap, packet numbers have half the values of a
character, a full packet uses every page and leaves room in the last one for fewer odd bytes than another full packet has
(65,027 = 15 · 4096 + 3587 in the code, 11 = 2 · 4 + 3 in the run). `CHECK_DEADLOCK FALSE` is set since every one of these programs stops,
or has a process that may wait for ever, which the liveness properties are about.

### Fairness

Weak fairness of each process or thread as a whole: the operating system schedules
every runnable one again and again. Nothing is assumed of `semop`,
`sigsuspend` or a mutex beyond this: a wait is enabled only while it can return, so
a process may be starved at a semaphore in the model as it may be in System V.
The alarm (`ChildAlarm`) is weakly fair: a second passes. Fairness is not assumed of
`PushLink` (nobody has to send the server a request) nor of spurious wakeups. In `ThreadPoolLife` a call that has begun and
every worker that is not paused are fair, the calls themselves and the delivery of SIGUSR1 are not. In `MessageQueueTransfer`
`Start` and `Interrupt` are the user's and not fair. In `ShellWrapper` the shell and every child are fair: programs are
scheduled, and "yes" never ends by itself. In
`MapsService` the service is fair and the process is not. In
`MultiplexServer` the main thread, the epoll thread, the pool and every client that has opened the FIFOs are fair; nobody has to
type (`Type`) or to start a client (`CliOpenServer`). The pool as a whole is fair, which `ThreadPool` implements.

### Findings

`shm_last_byte`. `send` sets `status` to 0 inside the critical section and posts `full`
after it. If `receive` has the token of the last byte and enters in between, it sees `status` = 0 and
`GETVAL(full)` = 0 and stops: the last byte stays in the ring. It is never more than one
byte (`LosesAtMostLastByte`, proved).

The other weaknesses met while modelling have no run of their own, because a property that holds says what is left:

* Shared memory: after the end of file `send` tests `status` once more. If `receive` has already
  finished and set it to 1, `send` goes round again, sets it to 0, and spins on it with
  nobody left to change it. A sender that spins before the receiver has finished ends (`SenderFinishes`).
* FIFO: for the end of file the server sends nothing; a client that has read only full messages waits for
  another one, and its own write end (fifo_client.c:58) keeps `read` from returning 0. Every size that is a multiple of
  127 is concerned, an empty file too; all others end (`BothFinish`).
* Duplex pipe: a last packet of more than a page behind a full one starts in the 509 bytes that one leaves free in the last
  page, when its odd bytes fit there, and sleeps. `read` then returns these bytes as a packet. With the program
  itself a file of 65,024 + 12,485 bytes comes back changed in most trials, one of 65,024 + 13,485 bytes never.
  Every other file comes back whole (`EchoIntact`).
* Message queue: a block of 128 bytes without a NUL makes the plain gcc build take it for the end of file: with the
  program itself a text file of 1000 bytes arrives empty, with -O2 it arrives whole. Bytes behind a NUL are those of an
  earlier block. A queue left by Ctrl-C or a failing open hands its messages to the next run, and its last message
  ends that run at once. `CopyExact`, the second part of `Inv`, says exactly what a copy holds then.
* Shell: `exit` of a first command that cannot be executed moves the offset of the script back by what its copy of the buffer has left, so lines the
  shell has buffered run twice. The move is relative: behind two such commands the places add up, and the shell goes on
  earlier than behind either, at the start or in the middle of a line even (`InputOrder`). The same `exit` flushes the prompt, which
  `bad | cat` prints through `cat` (`OutputWhole`). One descriptor stays open per line, so that with `ulimit -n 12` the shell fails after
  seven lines (`FdsAccounted`); a command without words crashes its child in `execvp`; `wait(NULL)` drops
  the exit codes that the task asks for.
* Pool: thpool.h says "While the thread is being paused, new work can be added"; a worker that the signal meets with `rwmutex` or the
  lock of the semaphore keeps `thpool_add_work` waiting. A signal delivered after `thpool_resume` holds its
  worker all the same; a pool destroyed while paused never returns. `CallsReturn` lists the exceptions. `thpool_destroy` may free
  the pool while the last worker has still to release `thcount_lock` (`DestroyedClean`).
* `s_register` adds descriptor 0 instead of the client's FIFO to the `epoll` set; the second
  registration gets `EEXIST` and the server exits, where src/README.md asks for up to 64 clients. Clients
  that wait then are told by its end (`WaitersReleased`).
* `shm[0]` of the Monte Carlo program is incremented before `shm[1]` and read without the mutex
  (`FirstResultMissesOne`).
* Both processes of the signal transfer exit with `EXIT_SUCCESS` after a timeout (`CompleteUnlessTimeout`).
* The service does not log a mapping that comes or goes behind the last line of the other sample, nor one that gets or
  loses its path (`ChangesLogged`).

## 4. Proofs

The eight modules `*Proofs` hold for every value of the constants
that satisfies the named assumptions: any ring size of at least 1 and any set of sequences as
sources; any finite non-empty set of workers and any number of jobs; any finite set of threads, any
number of rounds and any integers as counts; bytes of up to eight bits; any finite set of clients;
messages of any size and a FIFO that holds at least the answer; any set of kinds of lines (records of the permissions and
the path, `KindsAssumption`) and any number of addresses and changes; any scripts whose last line is ended and whose lines are no longer than `MaxSize` (`ScriptsAssumption`), any capacity of
the pipes and any number of descriptors from 3 on; blocks of any size, a queue that holds at least one of them, any number of runs; any file, any even base of the characters from 4 on, any size and number of pages
that a full packet fills but for the end of the last one (`LayoutAssumption`).

**Shared memory.** None of the properties is inductive. `IInv` adds where the tokens are:
`EmptyTokens` (each slot's token is in `empty`, in `full` or held by a process between its wait and
its post), `MutexToken`, `FullTokens` (the tokens of `full`, those on their way and the one in the
receiver's hand are the unread bytes plus one for the end of file), `EndOfFile` (what `status` = 0
and the stop of the receiver say about the sender), and `Ring` (the unread bytes lie in order from
`r_ind` to `s_ind`, modulo the size). `FullTokens` is what makes the receiver's test good for all but the
last byte: if `full` is 0 and `status` is 0 when it holds a token, at most one byte
is unread. From it follow `TypesHold`, `PrefixHolds`, `MutualExclusionHolds`, `LossBounded`, and `Refinement`
(every step is a step of `FileTransfer` with `MaxLost` = 1 or a stutter).

**Thread pool.** `IInv` joins the types with: the workers in their working part are counted; the holder of
`rwmutex` is the thread between lock and unlock; a worker holds a job exactly in those places;
`JobsAccounted`; a set flag is seen by an awake worker; `NoLostWakeup`.
From it follow `TypesHold`, `WakeupsKept`, `JobsRunOnceInOrder`, `IdlePoolIsDone`. `ImplementsJobPool` is the safety part of
`PoolSpec`: the jobs that have left the queue are those held and those done (`HeldAndDone`, from `JobsAccounted`), so that an
append, a pull and the end of a job are steps of `JobPool`, and all other steps leave its three variables alone.

`LifeInv` is the invariant of `ThreadPoolLife`. It keeps the parts of `IInv` that pausing does not break, and adds: `num_threads_alive`
counts the workers that have begun and have not left (`AliveCounted`; the one that holds `thcount_lock` at `unlock` has left the count
already), a worker leaves only a pool that is being destroyed (`LeaveDestroyed`), and the jobs are accounted for until the queue is
freed (`JobsKept`). The flag `v` and `NoLostWakeup` are not in it, for a paused worker may sit on the token. `thpool_destroy` frees at
`alive` = 0, where nobody is left to hold a job, so that jobs taken are jobs done: `DestroyIsClean`. `thpool_wait` sees the queue empty
and nobody at work in one section: `WaitSeesAllDone`, an action property. General lemmas on posts, pushes and pulls
serve both halves of the module.

**Monte Carlo.** `StatusExact` and `AtMostOneLate` need to know who can be between a load and a store.
`MutexHeld`: the holder of `pmutex` is the one thread in the section. `NotForked`: threads of later rounds have not begun.
`StatusCounts`: `shm[0]` counts the threads of the present round behind `store0`, and a thread between `load0` and `store0` has loaded that
very number. `Passed`, `PassedReported`: once Receive has left a round all its threads have reported, so that the late ones only touch
`shm[1]`; this is why clearing the segment for the next round is safe for `shm[0]`. Two late threads would both be in the section, hence
`AtMostOneLate`. `FirstSum` adds to `IInv` that in the first round `shm[1]` is the number of points of the threads that have added theirs, and
that a thread between `load1` and `store1` has loaded that very number. The counts of a set of threads are added up as the
elements of two sets (`Points` for those that are positive, `Owed` for the others), so that the sum is a difference of cardinalities and needs no recursion. What `Receive` reads then misses one thread at most: `FirstResult`.

**Duplex pipe.** What a `read` gets depends on the pages, and that on every write before. `EchoInv` joins the types with five parts.
`FdsKept`: which ends are open at each place of each process. `TurnsKept`: where the two can be together; with `FdsKept`, an end of file is read only when the other
process has sent everything or has crashed. `LayoutKept`: at the start of a write the pipe is empty or holds one full packet whose pages follow
each other (`Tidy`), and a write that sleeps has put nothing there, or the odd bytes of a last packet behind a full one. `PosKept`: how far a
sender is in its file, in full packets until the last one. `InFlight`: the pipe and the rest of a sleeping write are together no packet, one, or a full one
and another, and their data carry on where the receiver's copy ends, with the numbers it waits for.

`LayoutAssumption` is what the argument needs of the sizes: a full packet uses all pages and more than half of the last one. With the
sizes of the code and of Linux it holds: 65,027 = 15 · 4096 + 3587, and twice 3587 is more than 4096. So nothing of a second full packet
fits behind a first one, and what sleeps is taken into an empty pipe as a whole: `FullPacketsRead`. The receiver then takes
one packet with each read unless the last one is split, and that is what `Splits` computes from the length of the file (`WaitsWhole`). The length
in the header comes back as it was sent (`HeaderIs`: the second character may wrap to 0 and the subtraction wraps it back). `EchoComesBack` follows:
at the end of file nothing is under way, so that the copy is as long as what was sent (`AllArrived`), and the child begins to send only then.

**Signal transfer.** `SignalsKept` (the pending signals together with the places of the two processes) says that a bit
under way excludes an answer under way and the other bit: the child sends only after it has been woken, the parent
answers only what it has taken. `OneSignalInFlight` is one case of it.

That the copy is complete needs the content as well. `Needs(o, b)` says that bit b of byte o is the next one the parent needs, where a byte
that is complete may still have to be written. The child is always at the bit needed (`ChildPlace`), a bit under way is that bit and has its
right value (`BitRight`), an answer says that the parent is at the next one (`AckRight`), and `out_char` is the byte as far as
its bits have come (`HalfByte`: the byte without its remainder by the bit; `Above`). `SIGCHLD` is taken only inside `sigsuspend` and so finds no byte half
stored. `EndOfFile`: a child that has exited without a timeout has left nothing under way. From these follows `CopyComplete`.

**FIFO transfer.** `InStep` speaks of the bytes in the FIFO and needs to know how they came there. `IInv` joins
`Meeting` (how far client and server can be apart: no message is under way before the answer has been read), `CopyOK` (the copy is a prefix of the
source, and whole when the client has left its loop) and `PipeOK`: behind the answer lie whole messages, each with its length in front, whose
data carry on where the copy ends, all of them full except the last one of a server that is done. A message that ends the
client's loop is therefore the last one, from which `StaysInStep` and `Refinement` follow.

**Registration.** `IInv` of `MultiplexServer`: every number given out is a pair of FIFOs made once (`FifosOnce`), the answers in
the response FIFO, those read and the one being written are at most as many as FIFOs (`AnswersBacked`), from which `WelcomesBacked` follows.
`AnswersAccounted` counts on both sides: what is under way, in the two FIFOs and in the hand of the main thread, and the clients that
wait. They go up and down together but for two steps, a read of several requests and a read of several answers, and those
leave a mark, `dropped` or a refused client; on either side of them nothing is under way that nobody waits for.

**Message queue.** `Inv` says what a copy holds, and a copy is made of messages that several processes have put into the queue in several
runs. `QueueInv` adds three things. `RunsInTurn`: at most one run has a receiver at work, it works on the queue that has the key, and of a run that began
alone no other sender sends to that queue. `SenderKept`: how far a sender has come in its file, in whole blocks until the last one, and that it
ends only at the end of the file or at a block without NUL (`CutAt`). `StreamKept`: the messages of such a run are one stream, those it found, then its
blocks, then its last message (`InStream`); how many of them it has received follows from what has been sent and what is in the
queue (`Received`), the received ones are in the copy, block for block at their place in the file, and the others in the
queue in this order. None of the received ones is a last message, so the one that ends the receiver is either an old one, and nothing of the file has
been copied, or its own, and everything that was sent has been.

Two things stand in the way of a prover. The bytes in the queue are a cardinality: they are counted as the set of their places (`Bytes`), so that
the limit of the queue is a statement about finite sets. And `Joined`, the messages one behind the other, is the
`FlattenSeq` of the community modules, defined by recursion: that there is such a function (`FlatteningExists`), and that it grows by one
message at the end (`JoinedStep`), is shown by the least number for which it would fail. From these: `CopiesExact`, for every interleaving of the runs.

**System service.** A sample ascends in its addresses (`Ascends`). While it is read, the lines that have been there all the time (`whole`) are
among those held, and it has all of them up to its own last line (`Covers`, `ReadSoFar`): each line read is the lowest one above
the last, so no line of `whole` is passed over. At the end of the file nothing lies above: `SamplesAreHonest`. If nobody has touched the
mappings since the older sample was begun, both samples are initial parts of the same lines (`QuietSamples`), and two of those agree at
each place they share, for a least place where they differ cannot be: `QuietIsNotLogged`. `DiffLogged` says that the log is what the comparison by place
makes of the two samples; with `ReadSoFar` it gives `ChangesAreLogged`.

**Shell.** `HeldThere` says which pipe ends the shell has open at each place of `run_cmd`, `ChildrenMade` that it has made a child
for each of the commands so far, `LinesRun` that what it has lost of its descriptors is one per pipeline run to its end, and `Offsets` where the file offset
that it shares with its children can be: at the end, or at a place that first commands which could not be executed, among the lines run since the shell
filled its buffer, have given back (`FailedNow`, `GoesBack`): behind the line of one that was alone, not behind any of them if there were more.
`DescriptorsAccounted` counts the sets of `HeldThere`. `InputOrder` is a part of `IInv` itself, for the lines run are what `Offsets` speaks of:
the shell goes back only when its buffer is used up and the offset is not at the end, and then to such a place (`LinesInOrder`).

`OutputIsWhole` needs to know where the units of a line are. `LineInv` says it, as an invariant on top of `IInv`: a child that has not ended
still holds its ends of the pipes (`EndsKept`), the shell waits for as many children as it has made (`ChildrenAwaited`), what a program has in hand and
has written goes with its kind (`ProgramsKept`), what is written is in the pipe or in the hands of the next program (`UnitsKept`), and a program is killed only
when the next one has ended, or meets the end of file only when the one before has ended in its own time (`EndsInOrder`). The two parts of
`EndsInOrder` meet when all have ended: behind a program that was killed all are killed or have taken their one unit, and before one that met the end
of file all have written what they made. What a line makes, `Output`, is a function defined by recursion over its commands;
`FlowExists` shows that there is such a function, `OutputFlows` that each step of it is `Through`, both by the
least number for which it would fail (`LeastNumber`), and so that what each program wrote is what flows (`EachWhole`).

Model-checked only is all liveness (`ReceiverFinishes`, `SenderFinishes`, `AllRoundsEnd`, `BothEnd`, `BothFinish`, `CallsReturn`, `RunsEnd`, `EndsWithProcess`, `ShellReturns`,
`WaitersReleased`, the fairness part of `PoolSpec`), which is beyond the prover.

## 5. Plan

What is left, in this order:

1. Two runs of the shared memory transfer over the same IPC objects.
2. The byte layout of the segment of task 3: for which `SHM_SZ` the words and the ring are apart.

## 6. Not modelled

* Several pools in one process, which share `threads_keepalive` and `threads_on_hold`, and calls of the pool from several threads.
* Two receivers on one message queue; with one, the `len < 0` of `receive` (mq_main.c:81) cannot be reached.
* The options and the fork of the service of task 6; the tokens of the shell's parser.
* Thread and process creation failing; `write` to a full disk; two runs of
  the shared memory transfer sharing IPC objects keyed by the same file names.
* Wording and layout of logs and messages, timing measurements, the arithmetic of the integral.
* `src/task*/examples`: snippets of the course that belong to no program.
