------------------------------ MODULE MiniBash ------------------------------
(***************************************************************************)
(* The shells around the pipelines: mini_bash of LAB_12 (one process per   *)
(* command) and mini_bash of LAB_14 (task_pipe7, whole pipelines).  Both   *)
(* read a line, split it at ';' and '&' with strtok and work on one token  *)
(* after the other.  pipe2 .. pipe6 run here too, started once with their  *)
(* command line (shell = "none").                                          *)
(*                                                                         *)
(* strtok keeps the rest of the line in a variable of its own: `rest`.     *)
(* LAB_14 calls strtok again on the command it is about to run, in the     *)
(* same process; LAB_12 does so in the child.                              *)
(***************************************************************************)
EXTENDS Pipeline

CONSTANTS
    MaxLines,       \* bound on the lines typed at a prompt
    MaxTokens,      \* bound on the tokens of a line
    MaxInterrupts   \* bound on Ctrl-C

ASSUME SessionAssumption == /\ MaxLines \in Nat
                            /\ MaxTokens \in Nat
                            /\ MaxInterrupts \in Nat

VARIABLES
    shell,      \* "none", "lab12" or "lab14"
    spc,        \* place of the shell: "prompt", "tokens", "run", "over"
    typed,      \* the tokens of the line
    rest,       \* the tokens strtok has still to return
    handled,    \* tokens of the line that have been handled
    act,        \* parse_cmd's ret
    sigint,     \* what SIGINT does to the shell: "handler" or "default"
    lines,      \* lines read so far (bounded by MaxLines)
    interrupts  \* Ctrl-C so far (bounded by MaxInterrupts)

session == <<shell, spc, typed, rest, handled, act, sigint, lines, interrupts>>
allvars == <<vars, session>>

\* act_t; parse_cmd also returns wait statuses and EXIT_FAILURE.
FAIL == -1
OK == 0
QUIT == 1
CHDIR == 2

\* The shell of LAB_12 runs a command like a pipeline of one.
Simple == [redirs |-> "none", undo |-> "all"]

\* Tokens: the built-in commands, a pipeline with a '|' or '<' out of place, and
\* command lines that are run.
Token(kind, l) == [kind |-> kind, line |-> l]
Nothing == << <<>> >>
BuiltIn == {Token("exit", Nothing), Token("cd", Nothing)}
Tokens == IF shell = "lab12"
            THEN BuiltIn \cup {Token("cmd", Nothing)}
            ELSE BuiltIn \cup {Token("bad", Nothing)}
                         \cup {Token("cmd", l) : l \in LinesOf(1, 0) \cup LinesOf(MaxCmds, 0)}

-----------------------------------------------------------------------------
ShellInit ==
    /\ \/ /\ shell = "none" /\ spc = "run"
          /\ \E pl \in CommandLines : Fresh(pl[1], pl[2], "fork")
       \/ /\ shell = "lab12" /\ spc = "prompt"
          /\ Fresh(Simple, Nothing, "idle")
       \/ /\ shell = "lab14" /\ spc = "prompt"
          /\ Fresh(Pipe7, Nothing, "idle")
    /\ failures = 0
    /\ typed = <<>> /\ rest = <<>> /\ handled = 0
    /\ act = OK
    /\ sigint = "handler"
    /\ lines = 0 /\ interrupts = 0

\* pseudo_bash reads a line and parse_cmd starts on it.
ReadLine ==
    /\ spc = "prompt" /\ lines < MaxLines
    /\ \E n \in 1..MaxTokens : \E t \in [1..n -> Tokens] : typed' = t /\ rest' = t
    /\ spc' = "tokens"
    /\ handled' = 0
    /\ act' = OK
    /\ lines' = lines + 1
    /\ UNCHANGED <<vars, shell, sigint, interrupts>>

\* The shell ends: its descriptors are closed.
Leave ==
    /\ spc' = "over"
    /\ ppc' = "gone"
    /\ pipe_list' = {}
    /\ UNCHANGED <<program, line, to_from, cmd, redir_idx, ret, buffer, failures>>

\* End of file on the terminal.
EndOfInput ==
    /\ spc = "prompt"
    /\ Leave
    /\ UNCHANGED <<child, shell, typed, rest, handled, act, sigint, lines, interrupts>>

NextIs(kind) == spc = "tokens" /\ rest # <<>> /\ Head(rest).kind = kind

\* `exit` leaves the loop over the tokens.
ExitToken ==
    /\ NextIs("exit")
    /\ act' = QUIT
    /\ rest' = <<>>
    /\ handled' = handled + 1
    /\ UNCHANGED <<vars, shell, spc, typed, sigint, lines, interrupts>>

\* `cd`: chdir succeeds or fails and the line goes on; without $HOME a bare cd
\* leaves the loop.
CdToken ==
    /\ NextIs("cd")
    /\ \/ act' \in {CHDIR, FAIL} /\ rest' = Tail(rest)
       \/ act' = FAIL /\ rest' = <<>>
    /\ handled' = handled + 1
    /\ UNCHANGED <<vars, shell, spc, typed, sigint, lines, interrupts>>

\* Mutant: the command is split in the shell itself, as in LAB_14.
AfterSplitAlways == <<>>

\* What strtok(NULL) has left after the command was split: LAB_14 has replaced
\* the line by the command, LAB_12 did so in the child only.
AfterSplit == IF shell = "lab14" THEN <<>> ELSE Tail(rest)

\* A misplaced '|', '<' or '>': nothing is run, ret stays what it was.
BadToken ==
    /\ NextIs("bad")
    /\ rest' = AfterSplit
    /\ handled' = handled + 1
    /\ UNCHANGED <<vars, shell, spc, typed, act, sigint, lines, interrupts>>

\* signal(SIGINT, SIG_DFL): LAB_14 calls it in the shell, LAB_12 in the child.
SigintWhileRunning == IF shell = "lab14" THEN "default" ELSE sigint

CmdToken ==
    /\ NextIs("cmd")
    /\ Restart(program, Head(rest).line)
    /\ rest' = AfterSplit
    /\ handled' = handled + 1
    /\ sigint' = SigintWhileRunning
    /\ spc' = "run"
    /\ UNCHANGED <<failures, shell, typed, act, lines, interrupts>>

\* Mutant: LAB_12 takes the wait status for what parse_cmd returns.
CmdReturnsStatus ==
    /\ spc = "run" /\ ppc = "done" /\ shell # "none"
    /\ act' = ret
    /\ ppc' = "idle"
    /\ spc' = "tokens"
    /\ UNCHANGED <<program, line, to_from, cmd, pipe_list, redir_idx, ret, child, buffer, failures,
                   shell, typed, rest, handled, sigint, lines, interrupts>>

\* exec_cmd_list returns its ret to parse_cmd and leaves open what is open;
\* LAB_12 does not look at the status.
CmdReturns ==
    /\ spc = "run" /\ ppc = "done" /\ shell # "none"
    /\ act' = IF shell = "lab14" THEN ret ELSE act
    /\ ppc' = "idle"
    /\ spc' = "tokens"
    /\ UNCHANGED <<program, line, to_from, cmd, pipe_list, redir_idx, ret, child, buffer, failures,
                   shell, typed, rest, handled, sigint, lines, interrupts>>

\* No token left: pseudo_bash looks at what parse_cmd returns.
EndOfLine ==
    /\ spc = "tokens" /\ rest = <<>>
    /\ IF act \in {QUIT, FAIL} THEN Leave ELSE spc' = "prompt" /\ UNCHANGED <<program, line, to_from, parent, buffer, failures>>
    /\ UNCHANGED <<child, shell, typed, rest, handled, act, sigint, lines, interrupts>>

\* Ctrl-C reaches the shell and its commands.  A child of LAB_12 has the
\* shell's handler until it calls signal.
Interrupt ==
    /\ shell # "none" /\ spc \in {"prompt", "run"}
    /\ interrupts < MaxInterrupts
    /\ interrupts' = interrupts + 1
    /\ IF sigint = "default" THEN Leave ELSE UNCHANGED <<program, line, to_from, parent, buffer, failures, spc>>
    /\ \E S \in SUBSET {c \in Cmds : Alive(c)} :
         /\ \A c \in Cmds : Alive(c) /\ (shell = "lab14" \/ cpc[c] = "running") => c \in S
         /\ DieAll(S, Interrupted)
    /\ UNCHANGED <<shell, typed, rest, handled, act, sigint, lines>>

-----------------------------------------------------------------------------
Shell == ReadLine \/ EndOfInput \/ ExitToken \/ CdToken \/ BadToken \/ CmdToken
           \/ CmdReturns \/ EndOfLine \/ Interrupt

Program == /\ \/ spc = "run" /\ Parent
              \/ shell = "none" /\ Return
              \/ \E c \in Cmds : Child(c)
           /\ UNCHANGED session

Next == Shell \/ Program

Spec == ShellInit /\ [][Next]_allvars

\* The shell handles the tokens of a line it has read; lines and Ctrl-C are
\* typed, or not.
FairSpec == /\ Spec /\ Fair
            /\ WF_allvars(ExitToken \/ CdToken \/ BadToken \/ CmdToken \/ CmdReturns \/ EndOfLine)

-----------------------------------------------------------------------------
\* A command that runs has no pipe of its pipeline open but its stdin and stdout, and
\* a parent that waits for a pipeline it has started has none at all: a stray write
\* end would keep a reader waiting for ever.  The prompt comes back only when every
\* command of the line has been reaped, whatever failed or was interrupted, and
\* with no pipe open unless a call has failed.
NoStrayEnds ==
    /\ \A c \in 1..N : cpc[c] = "running" => ~ \E e \in fds[c] : Own(e)
    /\ ppc = "reap" /\ cpc[N] # "none" => ~ \E e \in pipe_list : Own(e)
    /\ spc = "prompt" => /\ \A c \in Cmds : cpc[c] \in {"none", "reaped"}
                         /\ failures = 0 => pipe_list = {}

\* The tokens behind which a shell takes nothing more of the line: `exit`, and in
\* LAB_14 whatever it takes apart with strtok itself.
Stops(t) == t.kind = "exit" \/ (shell = "lab14" /\ t.kind \in {"bad", "cmd"})

\* Of a line the shell handles the tokens up to the first at which it stops, that one
\* included, and no other.  So LAB_12 handles everything up to the first `exit`,
\* although each child takes its command apart with strtok, while LAB_14 never
\* gets past its first token that is not built in: the rest of the line is lost.
LineIsHandled ==
    /\ \A i \in 1..(handled - 1) : ~Stops(typed[i])
    /\ spc = "tokens" /\ rest = <<>> /\ act # FAIL =>
         handled = Len(typed) \/ Stops(typed[handled])

\* A command has been started since the shell was, or could not be.
HasRun == spc = "run" \/ failures > 0 \/ \E c \in Cmds : cpc[c] # "none"

\* A shell leaves because a line said so (exit, a failed cd); the shell of LAB_14
\* also if exec_cmd_list met EXIT_FAILURE, its own or what looks like it, and on
\* Ctrl-C once it has run a command, even lines ago.  No other status of a command
\* ends a shell, and the handler of LAB_12 survives every command it runs.
LeavesForAReason ==
    [][/\ spc = "tokens" /\ spc' = "over" =>
            \/ act = FAIL
            \/ typed[handled].kind = "exit"
            \/ shell = "lab14" /\ (failures > 0 \/ status[N] = Hangup)
       /\ interrupts' # interrupts /\ spc' = "over" => shell = "lab14" /\ HasRun]_allvars

\* A program that starts a pipeline returns: every command is reaped, or the
\* one whose fork or pipe failed was among the first two.  A shell that works
\* on a line then comes back to the prompt or leaves.
Returns ==
    ppc = "fork" \/ spc = "tokens" ~>
        ppc = "gone" \/ spc \in {"prompt", "over"} \/ LateFailure
=============================================================================
