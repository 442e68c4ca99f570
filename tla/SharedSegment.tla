---------------------------- MODULE SharedSegment ----------------------------
(***************************************************************************)
(* The four pairs of LAB_16 that pass one text through a shared segment:   *)
(*   posix_1, sysv_1   shm_writer leaves a file in the segment, shm_reader *)
(*                     prints it and removes the segment;                  *)
(*   posix_2, sysv_2   shm_server makes the segment and waits, shm_client  *)
(*                     leaves a line, the server prints and removes.       *)
(* Nothing but the contents of the segment synchronises the two sides.     *)
(*                                                                         *)
(* A text of producer p is a run of cells p; cell 0 is the terminator.  A  *)
(* segment is known by the process that created it.                        *)
(***************************************************************************)
EXTENDS Integers, Sequences, FiniteSets

CONSTANTS Producers, Consumers,   \* disjoint sets of numbers greater than 0
          MaxLen,                 \* the longest text, and the largest size asked for
          MaxLive,                \* processes at work at the same time
          MaxDeaths,              \* consumers killed
          Nobody

ASSUME ProcessesAssumption ==
  /\ Producers \subseteq Nat \ {0} /\ Consumers \subseteq Nat \ {0}
  /\ Producers \cap Consumers = {}
  /\ Nobody \notin Nat
ASSUME BoundsAssumption == MaxLen \in Nat /\ MaxLive \in Nat /\ MaxDeaths \in Nat

VARIABLES pair,       \* which pair of programs is run
          name,       \* the segment the name (the key) stands for, or Nobody
          seg,        \* the segments
          producer, consumer,
          deaths

segVars == <<pair, name, seg, producer, consumer, deaths>>

Pairs == {"posix_1", "sysv_1", "posix_2", "sysv_2"}
Posix == pair \in {"posix_1", "posix_2"}
Served == pair \in {"posix_2", "sysv_2"}

Page == 1 .. MaxLen + 1

\* by: the producers that wrote since the segment was made or cleared; last: the
\* producer whose text is there, when it was copied by itself; mixed: two writers
\* of posix_1 have been at work on it at the same time.
NewSegment(n) ==
  [size |-> n, cell |-> [i \in Page |-> 0], by |-> {}, last |-> Nobody, mixed |-> FALSE]

\* todo: the cells memcpy has still to write; alone: no other producer was at
\* work on the segment meanwhile.
NewProducer == [at |-> "idle", len |-> 0, obj |-> Nobody, todo |-> {}, alone |-> TRUE]

\* len: memseg_size of a server; alone: no other server used the segment meanwhile;
\* quiet: no producer was at work since printing began; early: the producers
\* that had begun to write before the server cleared the segment; stale: those
\* that had ended by then.
NewConsumer == [at |-> "idle", len |-> 0, obj |-> Nobody, out |-> <<>>,
                alone |-> TRUE, quiet |-> FALSE, early |-> {}, stale |-> {}]

SegmentInit ==
  /\ pair \in Pairs
  /\ name = Nobody
  /\ seg = [o \in Producers \cup Consumers |-> NewSegment(0)]
  /\ producer = [p \in Producers |-> NewProducer]
  /\ consumer = [c \in Consumers |-> NewConsumer]
  /\ deaths = 0

Away == {"idle", "done", "failed"}
Live == {p \in Producers : producer[p].at \notin Away}
          \cup {c \in Consumers : consumer[c].at \notin Away}

\* Processes are numbered in the order in which they are started.
PTurn(p) ==
  /\ producer[p].at = "idle" /\ Cardinality(Live) < MaxLive
  /\ \A q \in Producers : q < p => producer[q].at # "idle"
CTurn(c) ==
  /\ consumer[c].at = "idle" /\ Cardinality(Live) < MaxLive
  /\ \A d \in Consumers : d < c => consumer[d].at # "idle"

WritingOn(o) == {p \in Producers : producer[p].obj = o /\ producer[p].at \in {"size", "copy"}}
ServingOn(o) == {c \in Consumers : consumer[c].obj = o
                   /\ consumer[c].at \in {"size", "clear", "poll", "print", "remove"}}

UsersOf(o) == ServingOn(o) \cup {p \in Producers : producer[p].obj = o}

-----------------------------------------------------------------------------
(***************************************************************************)
(* Producers.                                                              *)
(***************************************************************************)
PMoves(p, to) == producer' = [producer EXCEPT ![p] = to]
PFails(p) == PMoves(p, [NewProducer EXCEPT !.at = "failed", !.len = producer[p].len])

\* p, now in state to, begins to write in its segment: whoever else writes there
\* is no longer alone, and a consumer that prints it is disturbed.
PEnters(p, to) ==
  LET others == WritingOn(to.obj) \ {p} IN
  /\ producer' = [q \in Producers |->
       IF q = p THEN [to EXCEPT !.alone = (others = {})]
       ELSE [producer[q] EXCEPT !.alone = @ /\ q \notin others]]
  /\ consumer' = [c \in Consumers |->
       [consumer[c] EXCEPT !.quiet = @ /\ consumer[c].obj # to.obj]]

\* posix_1: shm_open with O_CREAT, on the object that has the name if there is one.
WriterOpen(p) ==
  /\ PTurn(p)
  /\ LET o == IF name = Nobody THEN p ELSE name IN
       /\ name' = o
       /\ seg' = [seg EXCEPT ![o] = [seg[o] EXCEPT !.last = Nobody,
                                                   !.mixed = @ \/ WritingOn(o) # {}]]
       /\ \E n \in 1 .. MaxLen :
            PEnters(p, [producer[p] EXCEPT !.at = "size", !.len = n, !.obj = o])
  /\ UNCHANGED <<pair, deaths>>

\* ftruncate to one more than the text; what lies beyond a smaller size is lost.
\* memcpy leaves the additional byte alone.
WriterTruncate(p) ==
  LET o == producer[p].obj
      size == producer[p].len + 1 IN
  /\ producer[p].at = "size"
  /\ seg' = [seg EXCEPT ![o] = [seg[o] EXCEPT !.size = size,
               !.cell = [i \in Page |-> IF i > size /\ size < seg[o].size THEN 0 ELSE seg[o].cell[i]]]]
  /\ PMoves(p, [producer[p] EXCEPT !.at = "copy", !.todo = 1 .. producer[p].len])
  /\ UNCHANGED <<pair, name, consumer, deaths>>

\* Mutant: the terminator is not copied.
WriterCopiesNoNul(n) == 1 .. n

\* The cells of a text of n characters that memcpy writes.
WriterCopies(n) == 1 .. n + 1

\* sysv_1: shmget with IPC_CREAT finds the segment of the key or makes one, and
\* shmat.  One that is found may be too small, or be removed before shmat.
WriterGet(p) ==
  /\ PTurn(p)
  /\ \E n \in 1 .. MaxLen :
       LET o == IF name = Nobody THEN p ELSE name IN
       \/ name # Nobody /\ PFails(p) /\ UNCHANGED <<name, seg, consumer>>
       \/ /\ name = Nobody \/ seg[o].size >= n + 1
          /\ name' = o
          /\ seg' = [seg EXCEPT ![o] = IF name = Nobody THEN NewSegment(n + 1)
                                       ELSE [seg[o] EXCEPT !.last = Nobody]]
          /\ PEnters(p, [producer[p] EXCEPT !.at = "copy", !.len = n, !.obj = o,
                                            !.todo = WriterCopies(n)])
  /\ UNCHANGED <<pair, deaths>>

\* posix_2, sysv_2: a client finds the segment of a server.
ClientOpen(p) ==
  /\ PTurn(p)
  /\ IF name = Nobody THEN PFails(p)
     ELSE PMoves(p, [producer[p] EXCEPT !.at = "ask", !.obj = name])
  /\ UNCHANGED <<pair, name, seg, consumer, deaths>>

\* The client reads a line, at most one character less than the segment holds; an
\* empty line, end of file or a segment not yet sized ends it.  Then mmap of the
\* open object, or shmat, which fails when the segment was removed and nobody
\* has it attached any more.
ClientAsk(p) ==
  LET o == producer[p].obj
      gone == ~Posix /\ name # o /\ WritingOn(o) = {} /\ ServingOn(o) = {} IN
  /\ producer[p].at = "ask"
  /\ \/ PFails(p) /\ UNCHANGED consumer
     \/ \E n \in 1 .. MaxLen :
          /\ n < seg[o].size /\ ~gone
          /\ PEnters(p, [producer[p] EXCEPT !.at = "copy", !.len = n, !.todo = 1 .. n + 1])
  /\ UNCHANGED <<pair, name, seg, deaths>>

\* memcpy writes its cells in any order.
Copy(p) ==
  LET o == producer[p].obj IN
  /\ producer[p].at = "copy"
  /\ \E i \in producer[p].todo :
       LET left == producer[p].todo \ {i} IN
       /\ seg' = [seg EXCEPT ![o] =
            [seg[o] EXCEPT !.cell[i] = IF i <= producer[p].len THEN p ELSE 0,
                           !.by = @ \cup {p},
                           !.last = IF left = {} /\ producer[p].alone /\ ~Served THEN p ELSE Nobody]]
       /\ PMoves(p, IF left = {} THEN [NewProducer EXCEPT !.at = "done", !.len = producer[p].len]
                                 ELSE [producer[p] EXCEPT !.todo = left])
  /\ UNCHANGED <<pair, name, consumer, deaths>>

-----------------------------------------------------------------------------
(***************************************************************************)
(* Consumers.                                                              *)
(***************************************************************************)
CMoves(c, to) == consumer' = [consumer EXCEPT ![c] = to]
CFails(c) == CMoves(c, [NewConsumer EXCEPT !.at = "failed"])

\* c, now in state to, takes a segment: other servers of it are no longer alone.
CEnters(c, to) ==
  LET others == ServingOn(to.obj) \ {c} IN
  consumer' = [d \in Consumers |->
    IF d = c THEN [to EXCEPT !.alone = (others = {})]
    ELSE [consumer[d] EXCEPT !.alone = @ /\ d \notin others]]

Prints(c) == [consumer[c] EXCEPT !.at = "print", !.quiet = (WritingOn(consumer[c].obj) = {})]

\* posix_1, sysv_1: shm_open or shmget of what has the name.
ReaderOpen(c) ==
  /\ CTurn(c)
  /\ IF name = Nobody THEN CFails(c)
     ELSE CEnters(c, [consumer[c] EXCEPT !.at = "size", !.obj = name])
  /\ UNCHANGED <<pair, name, seg, producer, deaths>>

\* fstat or IPC_STAT, then mmap or shmat: an object whose writer has not sized it
\* cannot be mapped, and a System V segment that was removed since is gone unless
\* somebody still has it attached.
ReaderMap(c) ==
  LET o == consumer[c].obj
      removed == ~Posix /\ name # o
      attached == \/ WritingOn(o) # {}
                  \/ \E d \in ServingOn(o) : consumer[d].at = "print" IN
  /\ ~Served /\ consumer[c].at = "size"
  /\ \/ (seg[o].size = 0 \/ removed) /\ CFails(c)
     \/ seg[o].size # 0 /\ (removed => attached) /\ CMoves(c, Prints(c))
  /\ UNCHANGED <<pair, name, seg, producer, deaths>>

\* posix_2: shm_open with O_CREAT and O_EXCL.
ServerOpen(c) ==
  /\ CTurn(c)
  /\ IF name # Nobody THEN CFails(c) /\ UNCHANGED name
     ELSE \E m \in 1 .. MaxLen :
            /\ name' = c
            /\ CEnters(c, [consumer[c] EXCEPT !.at = "size", !.len = m, !.obj = c])
  /\ UNCHANGED <<pair, seg, producer, deaths>>

ServerTruncate(c) ==
  /\ Served /\ consumer[c].at = "size"
  /\ seg' = [seg EXCEPT ![c].size = consumer[c].len + 1]
  /\ CMoves(c, [consumer[c] EXCEPT !.at = "poll"])
  /\ UNCHANGED <<pair, name, producer, deaths>>

\* sysv_2: shmget with IPC_CREAT and without IPC_EXCL, and shmat, as in WriterGet.
ServerGet(c) ==
  /\ CTurn(c)
  /\ \E m \in 1 .. MaxLen :
       LET o == IF name = Nobody THEN c ELSE name IN
       \/ name # Nobody /\ CFails(c) /\ UNCHANGED <<name, seg>>
       \/ /\ name = Nobody \/ seg[o].size >= m + 1
          /\ name' = o
          /\ seg' = IF name = Nobody THEN [seg EXCEPT ![o] = NewSegment(m + 1)] ELSE seg
          /\ CEnters(c, [consumer[c] EXCEPT !.at = "clear", !.len = m, !.obj = o])
  /\ UNCHANGED <<pair, producer, deaths>>

\* Mutant: no memset.
ServerClearNothing(c) ==
  /\ consumer[c].at = "clear"
  /\ CMoves(c, [consumer[c] EXCEPT !.at = "poll", !.early = seg[consumer[c].obj].by \cup WritingOn(consumer[c].obj),
                                   !.stale = seg[consumer[c].obj].by \ WritingOn(consumer[c].obj)])
  /\ UNCHANGED <<pair, name, seg, producer, deaths>>

\* memset of the size asked for, which may be less than the segment has.
ServerClear(c) ==
  LET o == consumer[c].obj IN
  /\ consumer[c].at = "clear"
  /\ seg' = [seg EXCEPT ![o] = [seg[o] EXCEPT
               !.cell = [i \in Page |-> IF i <= consumer[c].len + 1 THEN 0 ELSE seg[o].cell[i]],
               !.by = {}]]
  /\ CMoves(c, [consumer[c] EXCEPT !.at = "poll", !.early = seg[o].by \cup WritingOn(o),
                                   !.stale = seg[o].by \ WritingOn(o)])
  /\ UNCHANGED <<pair, name, producer, deaths>>

\* Mutant: the server does not wait for a byte.
PollOnce(c) ==
  LET o == consumer[c].obj IN
  /\ consumer[c].at = "poll"
  /\ seg' = [seg EXCEPT ![o].cell[consumer[c].len + 1] = 0]
  /\ CMoves(c, Prints(c))
  /\ UNCHANGED <<pair, name, producer, deaths>>

\* Mutant: the server waits for the last byte.
LastByte(c) == consumer[c].len + 1

\* The loop on the first byte; then the last byte is set to the terminator.
FirstByte(c) == 1

Poll(c) ==
  LET o == consumer[c].obj IN
  /\ consumer[c].at = "poll" /\ seg[o].cell[FirstByte(c)] # 0
  /\ seg' = [seg EXCEPT ![o].cell[consumer[c].len + 1] = 0]
  /\ CMoves(c, Prints(c))
  /\ UNCHANGED <<pair, name, producer, deaths>>

\* One more character of the text, up to the terminator; the System V reader
\* takes no more than the segment has.
Read(c) ==
  LET s == seg[consumer[c].obj]
      i == Len(consumer[c].out) + 1
      more == i \in Page /\ s.cell[i] # 0 /\ (pair = "sysv_1" => i <= s.size) IN
  /\ consumer[c].at = "print"
  /\ CMoves(c, IF more THEN [consumer[c] EXCEPT !.out = Append(@, s.cell[i])]
               ELSE [consumer[c] EXCEPT !.at = "remove"])
  /\ UNCHANGED <<pair, name, seg, producer, deaths>>

\* shm_unlink of whatever has the name, IPC_RMID of the segment that was read.  The
\* contents go when nobody has the segment open or attached any more.
Remove(c) ==
  /\ consumer[c].at = "remove"
  /\ IF name = Nobody \/ (~Posix /\ name # consumer[c].obj)
     THEN CFails(c) /\ UNCHANGED name
     ELSE name' = Nobody /\ CMoves(c, [NewConsumer EXCEPT !.at = "done"])
  /\ seg' = [o \in DOMAIN seg |-> IF o = name /\ name' = Nobody /\ UsersOf(o) \subseteq {c}
                                 THEN NewSegment(0) ELSE seg[o]]
  /\ UNCHANGED <<pair, producer, deaths>>

-----------------------------------------------------------------------------
\* A consumer is killed, or a call fails and it ends, with the segment as it is.  (A
\* producer that dies leaves what one that is suspended for good leaves.)
Die(c) ==
  /\ deaths < MaxDeaths /\ c \in ServingOn(consumer[c].obj)
  /\ CFails(c)
  /\ deaths' = deaths + 1
  /\ UNCHANGED <<pair, name, seg, producer>>

\* The programs.
PosixWriter(p) == pair = "posix_1" /\ (WriterOpen(p) \/ WriterTruncate(p) \/ Copy(p))
SysvWriter(p) == pair = "sysv_1" /\ (WriterGet(p) \/ Copy(p))
PosixClient(p) == pair = "posix_2" /\ (ClientOpen(p) \/ ClientAsk(p) \/ Copy(p))
SysvClient(p) == pair = "sysv_2" /\ (ClientOpen(p) \/ ClientAsk(p) \/ Copy(p))

PosixReader(c) == pair = "posix_1" /\ (ReaderOpen(c) \/ ReaderMap(c) \/ Read(c) \/ Remove(c))
SysvReader(c) == pair = "sysv_1" /\ (ReaderOpen(c) \/ ReaderMap(c) \/ Read(c) \/ Remove(c))
PosixServer(c) ==
  pair = "posix_2" /\ (ServerOpen(c) \/ ServerTruncate(c) \/ Poll(c) \/ Read(c) \/ Remove(c))
SysvServer(c) ==
  pair = "sysv_2" /\ (ServerGet(c) \/ ServerClear(c) \/ Poll(c) \/ Read(c) \/ Remove(c))

SegmentNext ==
  \/ \E p \in Producers : PosixWriter(p) \/ SysvWriter(p) \/ PosixClient(p) \/ SysvClient(p)
  \/ \E c \in Consumers :
       PosixReader(c) \/ SysvReader(c) \/ PosixServer(c) \/ SysvServer(c) \/ Die(c)

Produce(p) == WriterTruncate(p) \/ Copy(p)

Consume(c) ==
  ReaderMap(c) \/ ServerTruncate(c) \/ ServerClear(c) \/ Poll(c) \/ Read(c) \/ Remove(c)

\* A process that has been started and needs no input is scheduled.
SegmentFairness ==
  /\ \A p \in Producers : WF_segVars(Produce(p))
  /\ \A c \in Consumers : WF_segVars(Consume(c))

SegmentSpec == SegmentInit /\ [][SegmentNext]_segVars /\ SegmentFairness

-----------------------------------------------------------------------------
(***************************************************************************)
(* Properties.                                                             *)
(***************************************************************************)

Printed(c) == consumer[c].at = "remove"
Text(c, n) == SubSeq(consumer[c].out, 1, n)
Run(p, n) == [i \in 1 .. n |-> p]

\* A reader that meets no writer prints the last text and nothing else with System V,
\* whose writer copies the terminator.  The POSIX writer does not: one byte of
\* an older, longer text that nobody has read may follow, but never more.  (Unless two
\* writers have met: one can leave bytes beyond the size the other has set.)
WholeText ==
  \A c \in Consumers :
    ~Served /\ Printed(c) /\ consumer[c].quiet =>
      LET p == seg[consumer[c].obj].last IN
      p # Nobody =>
        /\ Len(consumer[c].out) >= producer[p].len
        /\ Text(c, producer[p].len) = Run(p, producer[p].len)
        /\ \/ Posix /\ seg[consumer[c].obj].mixed
           \/ Len(consumer[c].out) <= producer[p].len + IF Posix THEN 1 ELSE 0

\* A server that nobody shares the segment with and that hears of one client
\* prints the beginning of that client's line and nothing else, however the
\* copy is scheduled against the poll, and all of it when the copy was over.
PrintsAPrefix ==
  \A c \in Consumers, p \in Producers :
    LET s == seg[consumer[c].obj]
        n == Len(consumer[c].out) IN
    Served /\ Printed(c) /\ consumer[c].alone /\ s.by = {p} /\ p \notin consumer[c].early
      /\ s.size = consumer[c].len + 1 =>
      /\ n \in 1 .. producer[p].len /\ consumer[c].out = Run(p, n)
      /\ consumer[c].quiet /\ producer[p].at = "done" => n = producer[p].len

\* A server never prints a line left to a predecessor that died: the POSIX server
\* refuses the old segment, the System V server clears it first and ends the text at
\* the size it cleared.
NoStaleText ==
  \A c \in Consumers :
    /\ Served /\ Printed(c)
    /\ consumer[c].quiet \/ seg[consumer[c].obj].size = consumer[c].len + 1
    => \A i \in 1 .. Len(consumer[c].out) :
      consumer[c].out[i] \notin consumer[c].stale

\* A server hears of a client that copies its line after the server is ready,
\* unless another server uses the same segment: that one may clear the line.
ServerAnswers ==
  \A c \in Consumers :
    /\ consumer[c].at = "poll"
    /\ \E p \in seg[consumer[c].obj].by \ consumer[c].early : producer[p].at = "done"
    ~> consumer[c].at # "poll" \/ ~consumer[c].alone
=============================================================================
