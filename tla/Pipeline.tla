------------------------------ MODULE Pipeline ------------------------------
(***************************************************************************)
(* The pipelines of LAB_14: a parent forks one process per command of      *)
(*     cmd_1 < f > g | cmd_2 | ... | cmd_n                                 *)
(* and connects neighbours by pipes.  pipe2, pipe3, pipe4, pipe5, pipe6    *)
(* and exec_cmd_list of task_pipe7 are the same loop with different        *)
(* wirings; `program` says which one runs.                                 *)
(*                                                                         *)
(* A descriptor that refers to a pipe is one of its ends <<k, "r">> and    *)
(* <<k, "w">>, pipe k being the one between commands k and k+1.  Commands  *)
(* and pipes count from 1 (the code counts both from 0).  What a child     *)
(* does between fork and execvp happens to its own descriptor table only   *)
(* and is one step.                                                        *)
(***************************************************************************)
EXTENDS Integers, Sequences, FiniteSets, SequencesExt

CONSTANTS
    MaxCmds,        \* bound on the commands of a pipeline (pipe2 has two)
    PipeSize,       \* units a pipe holds before write blocks
    Volume,         \* units a command without an input pipe writes
    MaxFailures     \* bound on failing calls (pipe, fork, open, execvp)

ASSUME SizesAssumption == /\ MaxCmds \in Nat \ {0, 1}
                          /\ PipeSize \in Nat \ {0}
                          /\ Volume \in Nat
                          /\ MaxFailures \in Nat

VARIABLES
    program,    \* the traits of the program that runs
    line,       \* line[c], the redirections of command c in the order typed
    to_from,    \* every redirection with the command it belongs to, in order
    cmd,        \* the command the parent's loop is at
    ppc,        \* place of the parent: "fork", "close", "undo", "reap", "done", "gone"
    pipe_list,  \* the pipe ends open in the parent
    redir_idx,  \* the parent's index into to_from (`l` in pipe4 and pipe5)
    ret,        \* the parent's ret: 0, EXIT_FAILURE or a wait status
    cpc,        \* place of each child: "none", "forked", "running", "exited", "reaped"
    idx,        \* the redir_idx each child has inherited
    fds,        \* the pipe ends open in each child besides stdin and stdout
    wired,      \* what stdin and stdout of each child are
    status,     \* wait status of each child that has exited
    todo,       \* units each running command has still to write
    buffer,     \* units in each pipe
    failures    \* failing calls so far (bounded by MaxFailures)

parent == <<cmd, ppc, pipe_list, redir_idx, ret>>
child == <<cpc, idx, fds, wired, status, todo>>
vars == <<program, line, to_from, parent, child, buffer, failures>>

Cmds == 1..MaxCmds

\* What stdin and stdout may be besides an end of a pipe: the terminal, or a
\* file opened for reading or for writing.
Terminal == <<0, "tty">>
File(direct) == <<0, direct>>
AtTerminal == [in |-> Terminal, out |-> Terminal]

\* Wait statuses as waitpid stores them; EXIT_FAILURE is also what ret is
\* set to after a failing call.
ExitSuccess == 0
ExitFailure == 1
Exited1 == 256      \* exit(EXIT_FAILURE)
Killed == 9         \* SIGKILL
BrokenPipe == 13    \* SIGPIPE
Hangup == 1         \* SIGHUP
Interrupted == 2    \* SIGINT

-----------------------------------------------------------------------------
(* The programs.  `redirs` is how redirections are applied: "none", "loop"  *)
(* (all redirections of the command after the pipes are in place) or "pair" *)
(* (one before and one after the second pipe is).  `undo` is what a failing *)
(* fork leads to: "all" falls into the reaping loop; "last" (pipe2, which   *)
(* keeps its one pipe open until both commands are forked) closes the pipe  *)
(* and kills and reaps the child before.                                    *)

Pipe2 == [redirs |-> "none", undo |-> "last"]
Pipe3 == [redirs |-> "none", undo |-> "all"]
Pipe4 == [redirs |-> "loop", undo |-> "all"]
Pipe5 == [redirs |-> "loop", undo |-> "all"]
Pipe6 == [redirs |-> "pair", undo |-> "all"]
Pipe7 == [redirs |-> "pair", undo |-> "all"]

\* The redirections one command is typed with.
Redirections == {<<>>, <<"r">>, <<"w">>, <<"r", "w">>, <<"w", "r">>}

\* Command lines with n commands of which the first m are redirected in some
\* way (m = 0: plain lines).
LinesOf(n, m) ==
    {l \in [1..n -> Redirections] : \A c \in 1..n : c > m => l[c] = <<>>}

\* The command lines the main functions accept.  pipe2 is for one '|' only;
\* more of them overrun its pid array.
Pipe2Lines == LinesOf(2, 0)
Pipe3Lines == UNION {LinesOf(n, 0) : n \in Cmds}
Pipe4Lines == UNION {LinesOf(n, n) : n \in Cmds}
Pipe5Lines == UNION {LinesOf(n, n) : n \in Cmds}
Pipe6Lines == UNION {LinesOf(n, n) : n \in Cmds}
Pipe7Lines == UNION {LinesOf(n, n) : n \in Cmds}

\* The command lines the programs may be started with.
CommandLines == (({Pipe2} \X Pipe2Lines) \cup ({Pipe3} \X Pipe3Lines))
                  \cup (({Pipe4} \X Pipe4Lines) \cup ({Pipe5} \X Pipe5Lines))
                  \cup (({Pipe6} \X Pipe6Lines) \cup ({Pipe7} \X Pipe7Lines))

N == Len(line)

\* What main or parse_cmd makes of the redirections of a line.
ToFrom(l) == FlattenSeq([c \in DOMAIN l |->
                 [j \in DOMAIN l[c] |-> [cmd |-> c, direct |-> l[c][j]]]])

\* Is redirection j (counting from 1) one of command c?
Belongs(j, c) == j \in DOMAIN to_from /\ to_from[j].cmd = c

-----------------------------------------------------------------------------
\* The state in which a program starts to work on a command line (or, a
\* shell, waits for one: place = "idle").
Fresh(p, l, place) ==
    /\ program = p
    /\ line = l /\ to_from = ToFrom(l)
    /\ cmd = 1 /\ ppc = place /\ pipe_list = {} /\ redir_idx = 1 /\ ret = 0
    /\ cpc = [c \in Cmds |-> "none"]
    /\ idx = [c \in Cmds |-> 1]
    /\ fds = [c \in Cmds |-> {}]
    /\ wired = [c \in Cmds |-> AtTerminal]
    /\ status = [c \in Cmds |-> ExitSuccess]
    /\ todo = [c \in Cmds |-> 0]
    /\ buffer = [k \in Cmds |-> 0]

\* Children end: their descriptors are closed.
DieAll(S, s) ==
    /\ cpc' = [c \in Cmds |-> IF c \in S THEN "exited" ELSE cpc[c]]
    /\ fds' = [c \in Cmds |-> IF c \in S THEN {} ELSE fds[c]]
    /\ wired' = [c \in Cmds |-> IF c \in S THEN AtTerminal ELSE wired[c]]
    /\ status' = [c \in Cmds |-> IF c \in S THEN s ELSE status[c]]
    /\ UNCHANGED <<idx, todo>>

Dies(c, s) == DieAll({c}, s)

Fails == failures < MaxFailures /\ failures' = failures + 1

\* The descriptors pipe() adds before command cmd is forked.
NewPipe == IF cmd < N THEN {<<cmd, "r">>, <<cmd, "w">>} ELSE {}

-----------------------------------------------------------------------------
(* The parent *)

\* pipe() fails: the program returns at once and leaves its children alone.
PipeFails ==
    /\ ppc = "fork" /\ cmd < N
    /\ Fails
    /\ ret' = ExitFailure
    /\ ppc' = "done"
    /\ UNCHANGED <<program, line, to_from, cmd, pipe_list, redir_idx, child, buffer>>

\* Mutant: the parent closes its write end before it forks.
ForkAfterClosing ==
    /\ ppc = "fork"
    /\ pipe_list' = pipe_list \cup NewPipe
    /\ fds' = [fds EXCEPT ![cmd] = pipe_list' \ {<<cmd, "w">>}]
    /\ idx' = [idx EXCEPT ![cmd] = redir_idx]
    /\ cpc' = [cpc EXCEPT ![cmd] = "forked"]
    /\ ppc' = "close"
    /\ ret' = 0
    /\ UNCHANGED <<program, line, to_from, cmd, redir_idx, wired, status, todo, buffer, failures>>

\* pipe() for every command but the last, then fork: the child inherits every
\* descriptor that is open and the index of the next redirection.
Fork ==
    /\ ppc = "fork"
    /\ pipe_list' = pipe_list \cup NewPipe
    /\ fds' = [fds EXCEPT ![cmd] = pipe_list']
    /\ idx' = [idx EXCEPT ![cmd] = redir_idx]
    /\ cpc' = [cpc EXCEPT ![cmd] = "forked"]
    /\ ppc' = "close"
    /\ ret' = 0
    /\ UNCHANGED <<program, line, to_from, cmd, redir_idx, wired, status, todo, buffer, failures>>

\* fork() fails after pipe(): the children forked so far are reaped, the pipes
\* stay open (pipe2 closes its own and only has its first child to undo).
ForkFails ==
    /\ ppc = "fork"
    /\ Fails
    /\ ret' = ExitFailure
    /\ cmd' = 1
    /\ IF program.undo = "last" THEN pipe_list' = {} /\ ppc' = "undo"
                                ELSE pipe_list' = pipe_list \cup NewPipe /\ ppc' = "reap"
    /\ UNCHANGED <<program, line, to_from, redir_idx, child, buffer>>

\* Mutant: the parent keeps the write end.
ClosedByParentKeepsWrite == {<<cmd - 1, "r">>}

\* The ends the parent has no more use for once command cmd is forked.
ClosedByParent ==
    IF program.undo = "last"
      THEN IF cmd = N THEN pipe_list ELSE {}
      ELSE {<<cmd, "w">>, <<cmd - 1, "r">>}

\* Mutant: the index stays where it is.
NextRedirStays == redir_idx

\* The next redirection: one further if there was one for this command, and in
\* pipe6 and pipe7 past one more that is found two places on.
NextRedir ==
    LET past == IF Belongs(redir_idx, cmd) THEN redir_idx + 1 ELSE redir_idx
    IN  IF program.redirs = "pair" /\ redir_idx \in DOMAIN to_from /\ Belongs(past + 1, cmd)
          THEN past + 1
          ELSE past

\* The parent closes its ends and goes on to the next command.
ParentCloses ==
    /\ ppc = "close"
    /\ pipe_list' = pipe_list \ ClosedByParent
    /\ redir_idx' = NextRedir
    /\ IF cmd < N THEN cmd' = cmd + 1 /\ ppc' = "fork"
                  ELSE cmd' = 1 /\ ppc' = "reap"
    /\ UNCHANGED <<program, line, to_from, ret, child, buffer, failures>>

\* A child is killed before it is waited for while ret says EXIT_FAILURE (which
\* is also the wait status of a command that died of SIGHUP).
Kills == ppc = "undo" \/ (ppc = "reap" /\ program.undo = "all" /\ ret = ExitFailure)

Kill ==
    /\ Kills
    /\ cpc[cmd] \in {"forked", "running"}
    /\ Dies(cmd, Killed)
    /\ UNCHANGED <<program, line, to_from, parent, buffer, failures>>

\* A child that was forked is waited for.
Wait ==
    /\ cpc[cmd] \in {"none", "exited"}
    /\ cpc' = [cpc EXCEPT ![cmd] = IF @ = "none" THEN @ ELSE "reaped"]
    /\ UNCHANGED <<program, line, to_from, pipe_list, redir_idx, idx, fds, wired, status, todo,
                   buffer, failures>>

\* waitpid stores the status in ret, over a failure recorded there.
Reap ==
    /\ ppc = "reap"
    /\ Wait
    /\ ret' = IF cpc[cmd] = "none" THEN ret ELSE status[cmd]
    /\ IF cmd = N THEN ppc' = "done" /\ cmd' = cmd
                  ELSE ppc' = "reap" /\ cmd' = cmd + 1

\* pipe2 reaps the child it has killed and returns EXIT_FAILURE.
Undo ==
    /\ ppc = "undo"
    /\ Wait
    /\ ppc' = "done"
    /\ UNCHANGED <<cmd, ret>>

\* Ends a failing call has left open in the shell: no later pipeline uses the pipe,
\* and its number is negative from then on.
Leaked(e) == IF e[1] > 0 THEN <<-e[1], e[2]>> ELSE e
Own(e) == e[1] > 0

\* The shell starts another command line (primed counterpart of Fresh).
Restart(p, l) ==
    /\ program' = p
    /\ line' = l /\ to_from' = ToFrom(l)
    /\ cmd' = 1 /\ ppc' = "fork" /\ redir_idx' = 1 /\ ret' = 0
    /\ pipe_list' = {Leaked(e) : e \in pipe_list}
    /\ cpc' = [c \in Cmds |-> "none"]
    /\ idx' = [c \in Cmds |-> 1]
    /\ fds' = [c \in Cmds |-> {}]
    /\ wired' = [c \in Cmds |-> AtTerminal]
    /\ status' = [c \in Cmds |-> ExitSuccess]
    /\ todo' = [c \in Cmds |-> 0]
    /\ buffer' = [k \in Cmds |-> 0]

\* main returns: the process ends and its descriptors are closed.
Return ==
    /\ ppc = "done"
    /\ ppc' = "gone"
    /\ pipe_list' = {}
    /\ UNCHANGED <<program, line, to_from, cmd, redir_idx, ret, child, buffer, failures>>

-----------------------------------------------------------------------------
(* A child between fork and execvp *)

PipeIn(c) == IF c > 1 THEN <<c - 1, "r">> ELSE Terminal
PipeOut(c) == IF c < N THEN <<c, "w">> ELSE Terminal

\* The redirections "loop" applies: from the inherited index on, while they
\* are this command's.
OwnRedirs(c) ==
    {to_from[j].direct : j \in {k \in DOMAIN to_from : k >= idx[c] /\ \A i \in idx[c]..k : Belongs(i, c)}}

\* pipe4 and pipe5: the pipes first, the redirections over them.
WiredByLoop(c) ==
    [in |-> IF "r" \in OwnRedirs(c) THEN File("r") ELSE PipeIn(c),
     out |-> IF "w" \in OwnRedirs(c) THEN File("w") ELSE PipeOut(c)]

\* pipe6 and pipe7: the first redirection comes before the pipe a command in
\* the middle writes to, the second (opened for writing, whatever it is) after.
WiredByPair(c) ==
    LET first == IF Belongs(idx[c], c) THEN to_from[idx[c]].direct ELSE "none"
        second == IF first # "none" /\ Belongs(idx[c] + 1, c)
                    THEN to_from[idx[c] + 1].direct ELSE "none"
    IN  [in |-> CASE second = "r" -> File("w")
                  [] second # "r" /\ first = "r" -> File("r")
                  [] OTHER -> PipeIn(c),
         out |-> CASE second = "w" -> File("w")
                   [] second # "w" /\ first = "w" /\ ~(1 < c /\ c < N) -> File("w")
                   [] OTHER -> PipeOut(c)]

Wiring(c) ==
    CASE program.redirs = "none" -> [in |-> PipeIn(c), out |-> PipeOut(c)]
      [] program.redirs = "loop" -> WiredByLoop(c)
      [] program.redirs = "pair" -> WiredByPair(c)

\* Mutant: a command in the middle keeps the read end of its output pipe.
ClosedByChildKeepsRead(c) == {<<c - 1, "r">>, <<c - 1, "w">>, <<c, "w">>}

\* The descriptors a child closes: both of its pipes.
ClosedByChild(c) == {<<c - 1, "r">>, <<c - 1, "w">>, <<c, "r">>, <<c, "w">>}

\* dup2, open, close and execvp.  A command whose input is not a pipe has
\* Volume units to write.
Exec(c) ==
    /\ cpc[c] = "forked"
    /\ wired' = [wired EXCEPT ![c] = Wiring(c)]
    /\ fds' = [fds EXCEPT ![c] = @ \ ClosedByChild(c)]
    /\ todo' = [todo EXCEPT ![c] = IF Wiring(c).in[1] = 0 THEN Volume ELSE 0]
    /\ cpc' = [cpc EXCEPT ![c] = "running"]
    /\ UNCHANGED <<program, line, to_from, parent, idx, status, buffer, failures>>

\* open or execvp fails.
ExecFails(c) ==
    /\ cpc[c] = "forked"
    /\ Fails
    /\ Dies(c, Exited1)
    /\ UNCHANGED <<program, line, to_from, parent, buffer>>

-----------------------------------------------------------------------------
(* The commands themselves and the kernel's pipes *)

Alive(c) == cpc[c] \in {"forked", "running"}
Holds(c) == IF Alive(c) THEN fds[c] \cup {wired[c].in, wired[c].out} ELSE {}
Open(e) == e \in pipe_list \/ \E c \in Cmds : e \in Holds(c)

\* The pipe a command reads from and writes to; 0 if it is not a pipe.
Source(c) == wired[c].in[1]
Sink(c) == wired[c].out[1]

\* A command writes one unit: it waits while the pipe is full and someone may
\* read, and dies when no one can.
Write(c) ==
    /\ cpc[c] = "running" /\ todo[c] > 0 /\ Sink(c) # 0
    /\ \/ /\ ~Open(<<Sink(c), "r">>)
          /\ Dies(c, BrokenPipe)
          /\ UNCHANGED buffer
       \/ /\ Open(<<Sink(c), "r">>) /\ buffer[Sink(c)] < PipeSize
          /\ buffer' = [buffer EXCEPT ![Sink(c)] = @ + 1]
          /\ todo' = [todo EXCEPT ![c] = @ - 1]
          /\ UNCHANGED <<cpc, idx, fds, wired, status>>
    /\ UNCHANGED <<program, line, to_from, parent, failures>>

\* What does not go to a pipe is written at once.
Spill(c) ==
    /\ cpc[c] = "running" /\ todo[c] > 0 /\ Sink(c) = 0
    /\ todo' = [todo EXCEPT ![c] = 0]
    /\ UNCHANGED <<program, line, to_from, parent, cpc, idx, fds, wired, status, buffer, failures>>

\* A command reads one unit of its input pipe, to write it on.
Read(c) ==
    /\ cpc[c] = "running" /\ todo[c] = 0 /\ Source(c) # 0
    /\ buffer[Source(c)] > 0
    /\ buffer' = [buffer EXCEPT ![Source(c)] = @ - 1]
    /\ todo' = [todo EXCEPT ![c] = 1]
    /\ UNCHANGED <<program, line, to_from, parent, cpc, idx, fds, wired, status, failures>>

\* A command with nothing to write ends at the end of its input: the pipe is
\* empty and no process has its write end open.
Finish(c) ==
    /\ cpc[c] = "running" /\ todo[c] = 0
    /\ Source(c) # 0 => buffer[Source(c)] = 0 /\ ~Open(<<Source(c), "w">>)
    /\ Dies(c, ExitSuccess)
    /\ UNCHANGED <<program, line, to_from, parent, buffer, failures>>

\* A command may end before its input does (head), or be hung up.
LeaveEarly(c) ==
    /\ cpc[c] = "running"
    /\ \E s \in {ExitSuccess, Hangup} : Dies(c, s)
    /\ UNCHANGED <<program, line, to_from, parent, buffer, failures>>

-----------------------------------------------------------------------------
Parent == PipeFails \/ Fork \/ ForkFails \/ ParentCloses \/ Kill \/ Reap \/ Undo

Command(c) == Write(c) \/ Spill(c) \/ Read(c) \/ Finish(c)

Child(c) == Exec(c) \/ ExecFails(c) \/ Command(c) \/ LeaveEarly(c)

\* Every process that can take a step on its own will; nothing makes a call
\* fail or a command end early.
Fair == /\ WF_vars(Fork \/ ParentCloses \/ Kill \/ Reap \/ Undo \/ Return)
        /\ \A c \in Cmds : WF_vars(Exec(c) \/ Command(c))

-----------------------------------------------------------------------------
\* The lines whose redirections all reach their command: no redirected command
\* comes after one with two redirections, pipe6 and pipe7 want '<' before '>',
\* and their commands in the middle have no '>' without a '<'.
AllReach ==
    /\ \A c, d \in 1..N : c < d /\ Len(line[c]) = 2 => line[d] = <<>>
    /\ program.redirs = "pair" =>
         \A c \in 1..N : /\ line[c] # <<"w", "r">>
                         /\ 1 < c /\ c < N => line[c] # <<"w">>

\* A command that runs reads from the file it was given, else from its left
\* neighbour, else from the terminal, and writes accordingly: nothing that was
\* typed is lost between the parent's index and the copies of it the children
\* have inherited.
WiredAsTyped ==
    \A c \in 1..N : cpc[c] = "running" /\ AllReach =>
        /\ wired[c].in = IF "r" \in Range(line[c]) THEN File("r") ELSE PipeIn(c)
        /\ wired[c].out = IF "w" \in Range(line[c]) THEN File("w") ELSE PipeOut(c)

\* Pipes end where commands end, however parent and children take turns in
\* closing their ends.  A reader sees the end of its input only when the command
\* to its left has ended or writes somewhere else.  A command dies of SIGPIPE
\* only when the one to its right has ended, reads something else, or was never
\* started by a parent that is gone.
NoEarlyEnd ==
    /\ \A c \in 2..N : cpc[c] = "running" /\ Source(c) = c - 1 /\ ~Open(<<c - 1, "w">>) =>
         ~Alive(c - 1) \/ (cpc[c - 1] = "running" /\ Sink(c - 1) # c - 1)
    /\ \A c \in 1..N : status[c] = BrokenPipe =>
         /\ c < N
         /\ Alive(c + 1) => cpc[c + 1] = "running" /\ Source(c + 1) # c
         /\ cpc[c + 1] = "none" => ppc = "gone" \/ program.undo = "last"

\* fork() failed when two children were running: the first is killed, the
\* second may be waiting for a reader that is the parent itself.
LateFailure == ppc = "reap" /\ cpc[N] = "none" /\ cpc[2] # "none"

=============================================================================
