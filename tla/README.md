# TLA+ specifications for ELTEX_LABS

ELTEX_LABS is a collection of C programs, one directory per task under
`LABS/LAB_N/task_*`. Each is small, but the later labs (threads, pipes, message
queues, shared memory with semaphores, sockets) are concurrent programs whose
correctness depends on interleavings no test run chooses. This directory models
those programs in TLA+, checks them with TLC on small instances and proves the
central properties with TLAPS for every instance.

## Inventory

| Part | State it keeps | Operations | What is hard |
|------|----------------|------------|--------------|
| LAB_16 `task_posix_semaphores_2` (consumer_supplier) | segment with one demand per consumer, one stock per supplier and the counter `jobs`; a named semaphore per supplier and one for `jobs`; the parent's `pid_list` | `consume`, `supply`, the parent's fork / kill / waitpid / unlink | unsynchronised words of memory between processes, failing calls while a semaphore is held, order of leaving, order of deallocation |
| LAB_16 `task_system_v_semaphores_2` (consumer_supplier) | the same over two System V semaphore sets, `SEM_UNDO` on every operation | the same | interrupted `semop`, SIGKILL inside a critical section, undo |
| LAB_13 `task_cond_wait` (gas station, five programs) | `fuel`, the tanks, one mutex, one or two conditions | `refill`, `purchase` | lost wake-ups, spurious wake-ups, a decision taken before a wait and used after it |
| LAB_13 `task_customer` (stores, three programs) | demands, goods per store, a mutex and up to two conditions per store, `stores_open` | `purchase_start`, `supply_start`, `main` | main writes goods without the mutex, everybody asleep, the closing broadcast |
| LAB_15 message queues (POSIX and System V, three tasks each) | the kernel queue and its name | send a file, receive, remove the queue | a queue removed with a message in it, receivers that counted the same messages |
| LAB_16 `task_*_semaphores_1` (increment programs) | a counter and its cap | `incr_subroutine`, launch, release | overlapping launches that share the names of the objects |
| LAB_16 `task_*_shmem_1`, `_2` | one segment | reader/writer, client/server | polling without synchronisation, removal while a client is attached |
| LAB_16 `task_shmem_chatroom` | a segment with a request and a response slot, two semaphores, the list of users | `server_control_room`, `refresh_chat_room`, client | slots overwritten, stale tokens, users removed by position |
| LAB_17 sockets, `task_udp_pull_inet` worker pool | descriptors, a table of worker sockets | accept / receive / respond | unsynchronised claiming of table slots, loss of datagrams |
| LAB_14 pipelines, LAB_12 `mini_bash` | descriptor tables, child processes | pipe, fork, dup2, close, exec, wait | end of file needs every write end closed |
| LAB_13 `task_mutex_no_mutex`, `task_pthread_once`, `task_matrix`, `task_thread_opts` | a counter, thread-specific data, result rows | increments, once-initialisation | lost updates |
| LAB_4, LAB_6 ledgers; LAB_7 to LAB_9 calculators | contact table; operand stack | menu operations; push, pop | capacity limits (sequential code) |
| LAB_0 to LAB_3, LAB_5, LAB_10, LAB_11 | none worth a model | | sequential exercises and terminal screens |

Parent and children of one program interact through shared memory, semaphores
and exit statuses; threads through a mutex and conditions; separate programs
through named kernel objects. Labs do not call each other.

What makes the parts correct: the shared trade or counter behaves as if each
transaction were atomic; nobody leaves while somebody still depends on it; no
wake-up, message or unit of goods gets lost; the objects are removed after their
last user; and every program ends.

## Modules

| Module | Models |
|--------|--------|
| `Market` | abstract: consumers with demands, suppliers with stocks, atomic trades, suppliers that leave when everybody is served |
| `PosixConsumerSupplier` | LAB_16 POSIX consumer_supplier; implements `Market` |
| `PosixConsumerSupplierProofs` | its theorems |
| `SysvConsumerSupplier` | LAB_16 System V consumer_supplier; implements `Market` |
| `SysvConsumerSupplierProofs` | its theorems |
| `GasStation` | LAB_13 cond_wait_signal_1 .. 5 |
| `GasStationProofs` | its theorems |
| `CustomerStore` | LAB_13 customer_store, _2 and _3 |
| `CustomerStoreProofs` | its theorems |
| `PosixQueue` | LAB_15 posix_queues_1, _2 and _3 |
| `PosixQueueProofs` | its theorems |
| `SysvQueue` | LAB_15 sys_v_queues_1, _2 and _3 |
| `SysvQueueProofs` | its theorems |
| `Pipeline` | LAB_14 pipe2 .. pipe6 and `exec_cmd_list` of task_pipe7: one pipeline from its first fork to its last wait |
| `MiniBash` | the shells of LAB_12 and LAB_14 around `Pipeline`; also starts the stand-alone programs |
| `MiniBashProofs` | theorems about both |
| `IncrProg` | LAB_16 incr_prog_posix and incr_prog, over several launches |
| `SharedSegment` | LAB_16 shared memory pairs: posix_shmem_1, _2, system_v_shmem_1, _2 |
| `SharedMemory` | extends `IncrProg` and `SharedSegment`: what a session with the shared memory programs runs |
| `SharedMemoryProofs` | theorems about all three |

### PosixConsumerSupplier

`dem`, `stock` and `jobs` are the words of the segment, `smphr` and `jobs_smphr`
the semaphore values, `pc` the place of every child, `seen` the value a process has
read and not yet written back. Reads and writes of shared words are separate
steps, so the semaphores are what makes a trade atomic, not the model. Any
semaphore call may fail (`SemFails`, the `goto end` of the code) and fork may
fail; the parent then kills, reaps and unlinks (`KillChild`, `ReapChild`,
`Release`). The sleeps appear only in the fairness.

### SysvConsumerSupplier

The same program with `semop`. `semval` is the value of each semaphore and
`semadj[p]` what the kernel will give back when `p` dies. A process holds at most
one semaphore, so its adjustment is a semaphore or `None`. A `semop` that sleeps
can be interrupted (`EINTR`); the code treats that as a failure and leaves. Here too
`seen` is what a process has read and not yet written back: `ReadStock`, `TakeDemand` and
`StoreStock` are a purchase, `ReadJobs` and `WriteJobs` the `(*jobs)--`, `ReadOwnStock`
and `Restock` a delivery. `SemopLockNoWait`, which does not wait for the semaphore, loses
updates and breaks `ImplementsMarket`. `MarketStock` maps the stock to the one of `Market`.

### GasStation

The five programs differ in a handful of traits: the number of conditions, whether
the station starts full, when the refiller asks whether it is needed, signal or
broadcast, a farewell signal. `program` holds the traits of the program that runs
and never changes; a run covers several programs at once. Signals wake any one
waiter or are dropped; `pthread_cond_wait` may return by itself.

### CustomerStore

Traits again: customers that sleep at an empty store (2 and 3), suppliers that
sleep at a stocked store (3), suppliers that fill before they look at the flag
(1). main's initialisation of `goods` runs without the mutex against the threads
already started; it may overwrite a thread's update or be overwritten by it
(`InitStore`), which is why goods can become negative in the second and third
program, by one purchase at most.

### PosixQueue

Senders and receivers are separate programs that meet at a queue name. `name` is the
queue the name refers to, `queue` the messages of every queue, `qfd` the queue a
process has open: an unlinked queue lives on for those who have it open, and the next
`mq_open` creates another. A receiver counts (`Look`), receives as many messages as it
has counted (`Receive`, which may block), counts again in task 3 (`Relook`), and
unlinks the name (`Unlink`). `AfterReceive` is what the three receivers differ in, the
`Plans` what the three senders send.

### SysvQueue

The same meeting at a System V queue, with the differences that matter: `IPC_RMID`
destroys the queue and its messages at once and every later call on its identifier
fails (`SendFails`, `ReceiveFails`); receivers never block; task 3 sizes its memory by
an earlier `IPC_STAT` (`Stat`, `Fits`) and looks again before it removes (`Restat`).
Identifiers count from 0, because `qid` is 0 in a receiver that fails before
`msgget` (`StartFails`). A sender of task 1 or 2 without anything to send ends before it
asks for the queue. `ret` is the exit status of the receivers; nothing depends on that of a
sender.

### Pipeline and MiniBash

A descriptor is an end `<<pipe, "r" or "w">>`; `pipe_list` is what the parent has open,
`fds[c]` what child `c` inherited and has not closed, `wired[c]` its stdin and stdout.
The parent forks command after command (`Fork`, with the `pipe` before it), closes what
it no longer needs (`ParentCloses`, `ClosedByParent`), and waits in order (`Reap`), killing
first if `ret` says so (`Kill`). A child redirects, closes and runs (`Exec`); a running
command writes, reads, ends, or is killed by SIGPIPE. End of file and SIGPIPE are
derived from who has an end open, never assumed. The programs differ in their traits
(`redirs`: how many redirections a command may have and how the index advances; `undo`:
what a failing call takes back). A pipe that a failing `fork` leaves open stays open in the
shell for the rest of its life; the next command line does not use it, and its ends count
with negative pipe numbers from then on (`Leaked`; `Own` is the test for the others).
`redir_idx` is the parent's index and `idx[c]` the copy
each child got at its fork, because the code advances both.

`MiniBash` adds the loop over the tokens of a line. `rest` is the hidden variable of
`strtok`: LAB_14 splits the command in the shell itself and so loses the rest of the line
(`AfterSplit`), LAB_12 splits in the child. `act` is what `parse_cmd` returns, which in
LAB_14 may be a wait status: a command that died of signal 1 reads like EXIT_FAILURE.
`sigint` is what Ctrl-C does to the shell; LAB_14 resets it in the shell (line 369).

### IncrProg

`shm_name` and `sem_name` are what the names (the keys) stand for; an object is known by
the launch that created it and outlives its name for those who have it open. The POSIX
program opens with `O_TRUNC` and without `O_EXCL`: a second launch empties the segment of a
running one, whose processes then die of SIGBUS (`Attach`, `Sigbus`, `PrintVal`), and
both ends unlink by name. Load, store and second test of the counter are separate
steps. `Crash` and `KillChild` may hit at any point; System V gives back the semaphore of a
dead holder (`Undo`), POSIX does not. `met` is a history variable: the launches that have
run beside another.

### SharedSegment

A segment is a size and a row of cells; a cell holds the producer whose character it
has, or 0. `Copy` writes the cells of a memcpy one by one in any order, `Read` takes them one
by one, so a consumer can read a text that is being written. `WriterOpen`/`WriterGet`,
`ServerOpen`/`ServerGet` and `ClientOpen` carry the differences between the pairs: with
or without `O_EXCL`, removal by name or by identifier, a terminator that is copied or not,
a segment that is cleared or not. `alone`, `quiet`, `early`, `stale`, `by`, `last` and `mixed`
are history: who has shared or disturbed a segment. shmget (or shm_open)
finds a segment, mapping it is a step of its own for readers and clients; writers and servers
of System V do both in `WriterGet` and `ServerGet`, where the segment found may be gone
again before shmat. An object is known by the process that
created it; `Nobody` stands for no object and no process.

## Runs

| Run | Instance | Shows |
|-----|----------|-------|
| `posix_market` | 2 consumers, 2 suppliers, demand 3, supply 2, one failing semaphore call, one failing fork, fair | `ImplementsMarket`, `OneHolder`, `SupplierLeavesLast`, `ReleaseAfterChildren`, `Termination` |
| `sysv_market` | the same with three interrupted calls and a failing fork | `ImplementsMarket`, `TakenSemaphoreHasLiveHolder`, `SupplierLeavesLast`, `UnservedOnlyIfSuppliersFail`, `Termination` |
| `sysv_announce` | 2 consumers, 1 supplier, two interrupts | violation of `AnnouncementIsTrue` |
| `gas_station` | the five programs, one car or three, two spurious wake-ups, fair | `NoLostWakeup`, `RefillerLeavesLast`, `Termination` |
| `customer_store` | the three programs, 2 customers, 2 stores, fair | `TypeOK` (overselling), `ClosedStoreIsDeserted`, `ClosingReachesEveryone`, `TirelessTermination` |
| `store_stuck` | program 3, 1 customer, 2 stores, fair | violation of `Termination` |
| `posix_queue` | the three tasks, 2 senders, 2 receivers, queue of 2, fair | `ReceivedInOrder`, `CountedIsReceived`, `UnlinksItsOwnQueue`, `ReceiverEnds` |
| `posix_queue_receiver_first` | task 1, 1 sender, 1 receiver | violation of `StartedFirstReceives` |
| `sysv_queue` | the three tasks, 2 senders, 2 receivers, queue of 3 bytes | `ReceivedInOrder`, `RemovedOnlyAfterReading` |
| `sysv_queue_status` | task 3, 2 senders, 1 receiver | violation of `FailureIsExplicit` |
| `shells_and_pipelines` | every program with up to 3 commands and its redirections, pipes that hold 1 unit of 2, one failing call; two lines of 2 tokens, one Ctrl-C, fair | `WiredAsTyped`, `NoStrayEnds`, `NoEarlyEnd`, `LineIsHandled`, `LeavesForAReason`, `Returns` |
| `shared_memory` | increment: both programs, 2 launches of 2 children counting to 2, one fault; segments: the four pairs, 2 producers, 2 consumers, texts of up to 2 characters, one death; fair | `Exclusive`, `ExactCount`, `NoLeftovers`, `Termination`, `WholeText`, `PrintsAPrefix`, `NoStaleText`, `ServerAnswers` |

Bounds. Demand 3 against supply 2 makes a consumer come back for a second trade and
makes a trade both smaller and larger than the stock. `StockBound` (and `GoodsCap`)
stop a supplier from piling up goods nobody has taken; what a consumer does depends
only on whether the stock covers its demand, which stays possible on both sides of
the bound. Two processes of each kind give every pair of roles a chance to
collide. The gas station is run with the numbers of the code (35 and 75), since a
tank takes three deliveries and cannot be made simpler; a program with one car has
two cars that are filled and gone from the start. Units in the stores are
scaled from 500 to 1, which keeps the case in which main's initialisation takes a
unit back that a customer has already seen. A queue of two messages is full for the
second sender, and two chunks or files are enough for one message to overtake
another.

Three commands give a pipeline a first, a middle and a last command, which the code
treats differently; a pipe smaller than what is written makes writers block. Two
launches are enough for a successor of a killed launch and for a rival; `MaxMet` 1 lets
one pair of launches overlap. Counting to two makes both children come back. `MaxLive` 3
limits the started segment processes to three at a time, which still allows two servers
and a client, or a dead server, its successor and an old client. Two characters are one
more than a server of size 1 clears. `NoStaleText` is stated for a server that was not
disturbed while it printed, or whose segment has exactly the size it asked for. With
longer texts a System V server that asked for less than the old segment has, and whose old
client is still copying, can print a cell behind the ones it cleared.

The proofs below have none of these bounds.

### What the last two runs say about the code

`shells_and_pipelines`. With any scheduling, a running command has only its stdin and
stdout open, ends of file come only from ended neighbours, and a program returns. The one
exception is named in `LateFailure`: if fork fails when two commands already run, `ret` is
overwritten by the status of the first one reaped, the second is not killed any more and
may wait for a reader that is the parent itself. `AllReach` names the lines whose
redirections reach their command; on others (a redirected command after one with two
redirections, `>` before `<` in pipe6 and pipe7) the index of the parent falls
behind. `LineIsHandled` says of both shells which tokens of a line are handled (`Stops` is
where a shell takes nothing more of it); it and `LeavesForAReason` spell out where the shell of LAB_14 falls
short of that of LAB_12: it drops the rest of a line after the first command and does not
survive Ctrl-C once it has run one, even lines ago: hence two lines.

`shared_memory`. A System V launch counts exactly and ends whoever is killed and whoever
else is started. A POSIX launch does so when it is alone; a child killed between
`sem_wait` and `sem_post` hangs it (`HolderLost`), and a rival can truncate its segment. What a
killed POSIX launch leaves is removed by the next launch, which itself fails on the
semaphore; what a killed System V launch leaves stays. A client/server server that is
alone prints the beginning of its client's line, possibly not all of it: it looks at the
first byte only. The POSIX writer's missing terminator shows as at most one byte of an
older text, unless two writers have met in the segment.

### What the violation runs show

`sysv_announce`: the parent of the System V consumer_supplier prints "Every consumer has
been satisfied" whenever its own status is a success; it reports the statuses of its
children and does not look at them. A consumer and the only supplier, both interrupted
while they sleep in `semop`, leave; the other consumer is served, and the announcement is
made with a demand still open. `UnservedOnlyIfSuppliersFail` (run `sysv_market`, and a
theorem) says what is left of it: every supplier has then failed. With a supplier left the
interrupted consumer has not done `(*jobs)--`, the supplier restocks for ever and the parent
never leaves `waitpid`, which is why `Termination` of this program excludes interrupts.

`store_stuck`: in customer_store_3 suppliers sleep at stocked stores and customers
at empty ones. Stores are drawn at random, so the last customer can fall asleep at
an empty store while all suppliers sleep at stocked ones; the flag that is meant to
let "each thread terminate" is cleared only after all customers have been joined.

`posix_queue_receiver_first`: the README of task 1 starts the receiver and then the
sender. A receiver that finds its queue empty leaves at once; the message that is
sent afterwards stays in the queue.

`sysv_queue_status`: the end section of task 3 stores the result of `IPC_STAT` in
`ret`. A receiver that has failed (no such path, or a message bigger than its memory)
exits with success although the next comment wants a failed state made explicit. The
overwriting also disables the removal on failure two lines below; `sysv_queue` shows
that this is what keeps a failed receiver from destroying a queue with messages in it
(its mutant `RestatKeepsStatus` does).

A comment in cond_wait_signal_1 fears that refiller and car might both end up in
`pthread_cond_wait` on their common condition. `gas_station` shows that this does
not happen with one car: the two sleep on opposite values of `fuel`.

## Fairness

Every process or thread that can run is run by the kernel: weak fairness per
process. Where a process waits for a semaphore or mutex that others keep taking,
the code relies on its sleeps of one to three seconds outside the critical section
("sleep() gives each supplier and consumer a fighting chance"), which is strong
fairness of the acquiring step. The gas station needs no strong fairness: whoever
cannot proceed sleeps on a condition. `CustomerStore` also assumes that `rand()`
draws every store again and again; the counterexample of `store_stuck` does not
depend on it, since nobody draws any more. Senders and receivers of the message
queues are started by hand, so `FairSpec` of `PosixQueue` makes nobody start. The same goes
for `SharedSegment`: only processes that have been started and need no input are fair, so
a client may wait for its line for ever. In `Pipeline` every command that can read, write or
end does; calls that fail, commands that end early, lines and Ctrl-C are never forced.
`IncrProg` needs weak fairness only: a child is passed over at the semaphore only while
others count, and they count at most `Cap` times.

## Proofs

TLAPS checks the following for every number of processes, every size and any number
of faults; the only assumptions are the named ones on the constants. In each module `IInv`
is the inductive invariant, `Init => IInv` and the preservation by every action are lemmas,
and the theorems follow from `Invariance`; the segments have `SegmentInv` and
`SegmentInvariance` instead.

* `PosixConsumerSupplierProofs`: `TypeCorrect`, `MutualExclusion` (`OneHolder`),
  `SuppliersLeaveLast`, `ReleasedAfterChildren` (the objects are unlinked after the last
  child) and `RefinesMarket`. The inductive invariant says that children not yet
  forked have no state and reaped ones are over, that a consumer beyond its trade has its
  demand met (`DemandMet`) and one before it still has it (`StillBuying`), that the values
  read of `jobs` and of a stock are still current (`SeenJobs`, `SeenStock`), and
  that `jobs` is never below the number of pending consumers (`JobsCoversPending`).
  The last is what carries the argument: a supplier that reads zero knows that
  nobody is pending. It needs finite-set cardinality facts.
* `RefinesMarket`, for both consumer/supplier programs: a purchase happens in `Market` when
  the consumer stores its demand, a delivery when the supplier stores the stock, and a
  supplier closes when it leaves in good order; all other steps stutter. The stock of
  `Market` is ahead of the shared word while a consumer has stored its demand and not
  yet the stock; `StockMapping` shows that mutual exclusion makes the mapped stock well
  defined. Where an access to the segment ends, the value read at its beginning is still
  the current one; only the semaphores make it so.
* `SysvConsumerSupplierProofs`: `TypeCorrect`, `NoOrphanedSemaphore`, `SuppliersLeaveLast`,
  `FalseAnnouncements` (`UnservedOnlyIfSuppliersFail`) and `RefinesMarket`. The
  invariant relates the kernel's adjustments to the places of the processes
  (`AdjustmentIsHeld`) and to the semaphore values (`ValueMatchesAdjustments`), so that two
  processes are never in the section of one semaphore (`OneInSection`) and what a process has
  read of a stock or of `jobs` is current (`SeenIsCurrent`); the rest is
  the invariant of the POSIX program, with failed consumers counted as pending for ever.
* `GasStationProofs`: `TypeCorrect`, `WakeupsAreNotLost`, `RefillerIsLast`. The
  invariant says who holds the mutex, that a car in business has room in its tank,
  that the refiller's stored "no" stays true (`RefusalIsFinal`), because tanks
  never become emptier, and that a station with a single condition has a single car
  in business (`NoRivals`).
* `CustomerStoreProofs`: `TypeCorrect` and `ClosingIsComplete`. A supplier about to
  sleep holds the mutex main needs for the broadcast, and reads the flag with it.
* `SharedMemoryProofs`, increment programs: `MutualExclusion` (`Exclusive`), `CountIsExact`
  (`ExactCount`) and `NothingLeftOver` (`NoLeftovers`), over any number of launches. The
  invariant says which objects a parent and a child have at each place, that the token of a
  semaphore is in its value or with one child (`Token`), that the names stand for the objects
  of a launch that is alone (`OwnNames`, `OwnObjects`, `KeysInUse`), and that the counter of
  such a launch is what the child in the critical section has read (`Counts`).
* `SharedMemoryProofs`, segments that carry a text: `TextIsWhole` (`WholeText`),
  `PrefixIsPrinted` (`PrintsAPrefix`) and `NothingStale` (`NoStaleText`), for any number of
  processes and texts of any length; the inductive invariant is `SegmentInv`. Nothing
  synchronises these programs, so it says what is in a segment byte by byte. A cell that is
  not 0 is a character of a client or writer that has got there (`Characters`); one
  writer that is alone finds its cells as it left them (`SoleWriter`, `OwnTexts`), so that
  the text copied last is complete (`LastTexts`), and the bytes beyond the size are 0 if no two
  writers have met (`Beyond`). What a consumer prints while nobody writes is what the
  segment holds (`Quiet`, `Readings`); `WholeText` follows from the last four. A server that is
  alone finds in a segment it has cleared only what was written since, and all that its only
  client has written (`Collecting`), has seen a first character before it prints (`Heard`), and
  no line is longer than its segment (`Fits`); that gives `PrintsAPrefix`. What it has cleared
  does not come back, and the terminator it sets ends the text (`Cleared`, `Ending`); that
  gives `NoStaleText`.
* `SharedMemoryProofs`, `SessionSafety`: the specification the run checks (`SessionSpec`, one
  part runs and the other rests) has the six invariants.
* `PosixQueueProofs`: `OrderKept` (`ReceivedInOrder`), `NothingCountedIsLost`
  (`CountedIsReceived`) and `OwnQueueUnlinked` (`UnlinksItsOwnQueue`). Messages of a sender
  keep the order of their numbers in a queue, and what is received comes before what is
  queued (`Numbered`, `Complete`). What a receiver has counted is at the front of its queue
  (`CountedFirst`), and either it takes as many messages as are left of those, or the ones
  left have been overtaken by higher priorities (`Left`, `Overtaken`, `Remaining`). That a
  foremost message exists is shown by a least element (`SmallestOf`), not by induction on
  the queue.
* `SysvQueueProofs`: `OrderKept` (`ReceivedInOrder`) and `UnreadQueuesStay`
  (`RemovedOnlyAfterReading`). Types grow from what has been received of a sender over what
  is queued to what it still has to send (`Growing`); a receiver of task 2 takes the lowest
  type, other senders have one message (`Choice`); who is about to remove a queue has read
  from it, or it is gone (`Removal`); identifiers are never used twice (`Created`).
* `MiniBashProofs`: `NoEndsLeftOpen` (`NoStrayEnds`), `EndsComeFromNeighbours`
  (`NoEarlyEnd`), `LinesAreHandled` (`LineIsHandled`) and the action property
  `ShellsLeaveForAReason` (`LeavesForAReason`), for pipelines and lines of any length. The
  invariant says which ends the parent has at each place of its loop (`ParentEnds`), which a
  child has before and after `execvp` (`ChildEnds`), which children exist (`Progress`), that
  the parent has the read end of a command whose right neighbour it may still fork
  (`ReaderKept`), so that nobody dies of SIGPIPE before its reader is started (`Sigpipes`),
  what strtok has left (`Strtok`) and where a `QUIT` or a default SIGINT comes from
  (`Reasons`).
* `MiniBashProofs`, `CommandsAreWired` (`WiredAsTyped`), for pipelines of any length. A second
  invariant, `Redirected`, builds on the first. `to_from` lists the redirections of each command
  together, in the order typed and behind those of the commands before it (`Lists`, `Listing`);
  the parent's index, and the copy each forked child has, is where the redirections of the
  command and of those behind it begin, or there are none left (`Indices`, `Points`).
  `ToFromLists` derives the listing from the recursive definition of `FlattenSeq`: that the
  recursive function exists (`FlatteningExists`), and that each prefix is listed, is shown
  by a least counterexample instead of an induction theorem. `NextRedirPoints` is where
  `AllReach` is needed: behind a command with two redirections the index is one short, which
  does no harm as long as no later command has any.

Attempts at these proofs corrected the model or the properties in several places where the
small instances had been too small. `AnnouncementIsTrue` had held with two interrupts and
two suppliers; it is false with one more (or with one supplier less), see `sysv_announce`.
`ExactCount` had held with two launches; with three, the orphans of a killed launch can go
on counting in a segment that the next launch has taken over, which `Unshared` now excludes.
`WholeText` had held with two writers; with three, a writer that goes on copying after another
has made the segment smaller leaves bytes beyond the new size, and they follow the text of
the next one, which makes the segment larger again. Its upper bound now excludes POSIX
segments in which two writers have met (`mixed`).
`LeavesForAReason` had held with one line: the shell of LAB_14 dies of Ctrl-C at the prompt
of any later line. A pipe that a failing fork leaves open is still open there. And senders
of System V tasks without a file no longer ask for the queue.

Only model-checked: the liveness properties (`Termination`, `TirelessTermination`,
`ClosingReachesEveryone`, `ReceiverEnds`, `Returns`, `ServerAnswers`), which need fairness and
`ENABLED` and are out of the prover's reach. Every invariant, every action property and both
refinements that the passing runs check are also theorems.

## Plan

Done: the consumer/supplier programs, the gas station, the stores, the message queues, the
pipelines and shells, the increment programs and the shared memory pairs, with theorems for
the safety properties of all of them. Next, in this order:

1. the chat room: its two slots and two semaphores, users removed by position;
2. the worker pool and the request/response servers of LAB_17;
3. the counters of LAB_13 `task_mutex_no_mutex` against an abstract counter;
4. ledgers and calculators as sequential machines with limits.

## Not modelled

Option parsing, messages and error texts; failures of calls that cannot fail on the
objects the programs use (mutex operations on statically initialised mutexes). The
terminal programs of LAB_11 are screens over ncurses. LAB_0 to LAB_3, LAB_5 and
LAB_10 are short sequential exercises; LAB_5 demonstrates undefined behaviour on
purpose. In the modelled programs: failing allocations; a System V segment that
its maker finds removed between shmget and shmat (it then ends; nobody has it any more); SIGINT sent to a stand-alone
pipeline; pipe2 with more than one `|`, which its own message calls unsupported; memset and the poll of
one byte are single steps; a producer that dies is one that is never scheduled again; exit
statuses of the shared memory programs. The chat room is left for later because its protocol is correct
only by its sleeps: the server clears the request slot after it has posted the response, and
the second client to connect waits for two posts where the server makes one, so what holds
of it has to be stated with time. The worker pool of LAB_17 (slots claimed by an unlocked
test and set) and the other socket programs come with it. `PROJECT.json` lists every
part with its status.
