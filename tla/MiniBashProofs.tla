--------------------------- MODULE MiniBashProofs ---------------------------
(***************************************************************************)
(* Theorems about the shells and pipelines of LAB_12 and LAB_14, for lines *)
(* of any length, any number of commands, and any number of failing calls, *)
(* early exits and interrupts.                                             *)
(***************************************************************************)
EXTENDS MiniBash, SequenceTheorems, WellFoundedInduction, TLAPS

Places == {"none", "forked", "running", "exited", "reaped"}
Ends == Int \X {"r", "w", "tty"}
Ended(c) == cpc[c] \in {"none", "reaped"}
AllEnded == \A c \in Cmds : Ended(c)

\* Types, as far as the argument needs them, and what is known of a program by the
\* traits it has.
Shape ==
    /\ shell \in {"none", "lab12", "lab14"}
    /\ program \in [redirs : {"none", "loop", "pair"}, undo : {"all", "last"}]
    /\ N \in Cmds /\ cmd \in 1..N
    /\ program.undo = "last" => N = 2 /\ shell = "none"
    /\ shell = "lab12" => N = 1
    /\ failures \in Nat
    /\ cpc \in [Cmds -> Places]
    /\ pipe_list \in SUBSET Ends
    /\ fds \in [Cmds -> SUBSET Ends]
    /\ wired \in [Cmds -> [in : Ends, out : Ends]]
    /\ status \in [Cmds -> Nat]

\* Where the loop over the tokens and the loop over the commands are together.
Turns ==
    /\ shell = "none" => spc = "run" /\ ppc \in {"fork", "close", "undo", "reap", "done", "gone"}
    /\ shell # "none" =>
         \/ spc = "run" /\ ppc \in {"fork", "close", "reap", "done"}
         \/ spc \in {"prompt", "tokens"} /\ ppc = "idle"
         \/ spc = "over" /\ ppc = "gone"
    /\ ppc = "undo" => cmd = 1 /\ N = 2

\* The parent has the read end of the last pipe and, between fork and close, both
\* ends of the new one; pipe2 has both ends of its only pipe.
ParentEnds ==
    /\ ppc = "fork" => \A e \in pipe_list : Own(e) =>
         cmd > 1 /\ (e = <<cmd - 1, "r">> \/ (program.undo = "last" /\ e = <<cmd - 1, "w">>))
    /\ ppc = "close" => \A e \in pipe_list : Own(e) =>
         \/ cmd > 1 /\ (e = <<cmd - 1, "r">> \/ (program.undo = "last" /\ e = <<cmd - 1, "w">>))
         \/ cmd < N /\ (e = <<cmd, "r">> \/ e = <<cmd, "w">>)
    /\ ppc = "fork" /\ cmd > 1 => <<cmd - 1, "r">> \in pipe_list
    /\ ppc = "close" /\ cmd < N => <<cmd, "r">> \in pipe_list
    /\ ppc = "reap" /\ cpc[N] # "none" => \A e \in pipe_list : ~Own(e)
    /\ failures = 0 => \A e \in pipe_list : Own(e)
    /\ failures = 0 /\ ppc \in {"done", "idle"} => pipe_list = {}

\* The commands before the loop's place are forked, or reaped; those behind it are not.
\* Only a failing pipe() makes the program leave its commands alone.
Progress ==
    /\ \A c \in Cmds : c > N => cpc[c] = "none"
    /\ ppc = "fork" => \A c \in Cmds : IF c < cmd THEN ~Ended(c) ELSE cpc[c] = "none"
    /\ ppc = "close" => \A c \in Cmds : IF c <= cmd THEN ~Ended(c) ELSE cpc[c] = "none"
    /\ ppc = "undo" => failures > 0 /\ \A c \in Cmds : c > 1 => cpc[c] = "none"
    /\ ppc = "reap" => \A c \in Cmds : c < cmd => Ended(c)
    /\ ppc \in {"reap", "done"} /\ failures = 0 => cpc[N] # "none"
    /\ ppc = "reap" /\ program.undo = "last" => cpc[N] # "none"
    /\ ppc = "done" => AllEnded \/ (ret = ExitFailure /\ failures > 0 /\ shell # "lab12")
    /\ ppc = "idle" => AllEnded \/ (spc = "tokens" /\ act = QUIT /\ failures > 0)

\* A child between fork and exec has the ends it will use, and of its own pipeline
\* none that it does not close; a running command is wired to its neighbours or to files.
ChildEnds ==
    \A c \in Cmds :
        /\ cpc[c] = "forked" =>
             /\ \A e \in fds[c] : Own(e) => e \in ClosedByChild(c)
             /\ c < N => <<c, "w">> \in fds[c]
             /\ c > 1 => <<c - 1, "r">> \in fds[c]
        /\ cpc[c] = "running" =>
             /\ \A e \in fds[c] : ~Own(e)
             /\ wired[c].in \in {PipeIn(c), Terminal, File("r"), File("w")}
             /\ wired[c].out \in {PipeOut(c), Terminal, File("w")}

\* While the parent may still fork the right neighbour of a command, it has the read
\* end the command needs, and it keeps it if it cannot.
ReaderKept ==
    ppc # "gone" /\ (program.undo = "all" \/ ppc \in {"fork", "close"}) =>
        \A c \in Cmds : c < N /\ cpc[c] # "none" /\ cpc[c + 1] = "none" => <<c, "r">> \in pipe_list

\* Who has died of SIGPIPE has lost its reader for good.
Sigpipes ==
    \A c \in Cmds : status[c] = BrokenPipe =>
        /\ c < N
        /\ cpc[c] # "none"
        /\ cpc[c + 1] # "forked"
        /\ cpc[c + 1] = "running" => Source(c + 1) # c
        /\ cpc[c + 1] = "none" => ppc = "gone" \/ (program.undo = "last" /\ ppc \in {"undo", "done"})

\* The tokens a line may have.
CommandToken ==
    [kind : {"exit", "cd", "bad", "cmd"}, line : {l \in Seq(Redirections) : Len(l) \in Cmds}]

\* strtok has the tokens behind the handled ones, or none; only the last of the handled
\* ones can be one at which the shell stops, and then there is no rest.
Strtok ==
    /\ typed \in Seq(CommandToken)
    /\ shell = "lab12" => \A i \in 1..Len(typed) : Len(typed[i].line) = 1
    /\ handled \in 0..Len(typed)
    /\ rest # <<>> => rest = SubSeq(typed, handled + 1, Len(typed))
    /\ shell = "lab14" /\ spc = "run" => rest = <<>>
    /\ shell # "none" /\ rest = <<>> /\ (spc = "run" \/ (spc = "tokens" /\ act # FAIL)) =>
         handled > 0 /\ (handled = Len(typed) \/ Stops(typed[handled]))
    /\ \A i \in 1..(handled - 1) : ~Stops(typed[i])
    /\ rest # <<>> => \A i \in 1..handled : ~Stops(typed[i])

\* ret is the status of the last command unless a call has failed; parse_cmd says QUIT
\* after exit or because of such a ret; SIGINT is reset by running a command only.
Reasons ==
    /\ ppc = "done" /\ failures = 0 => ret = status[N]
    /\ spc = "run" /\ shell # "none" => act # QUIT
    /\ spc = "tokens" /\ act = QUIT =>
         /\ rest = <<>>
         /\ \/ typed[handled].kind = "exit"
            \/ shell = "lab14" /\ (failures > 0 \/ status[N] = Hangup)
    /\ sigint = "default" => shell = "lab14" /\ (HasRun \/ spc = "over")

IInv == Shape /\ Turns /\ ParentEnds /\ Progress /\ ChildEnds /\ ReaderKept /\ Sigpipes
          /\ Strtok /\ Reasons

-----------------------------------------------------------------------------
(* Facts about the operators *)

LEMMA CmdsFacts == /\ Cmds \subseteq Nat
                   /\ \A c \in Cmds : c \in Nat /\ c >= 1 /\ c <= MaxCmds
                   /\ MaxCmds \in Nat /\ 1 \in Cmds /\ 2 \in Cmds
BY SizesAssumption DEF Cmds

\* A line of n commands has length n.
LEMMA LineLength ==
    ASSUME NEW n \in Nat, NEW m, NEW l \in LinesOf(n, m)
    PROVE  l \in Seq(Redirections) /\ Len(l) = n
<1>1. l \in [1..n -> Redirections]
  BY DEF LinesOf
<1>2. l \in Seq(Redirections)
  BY <1>1, SeqDef
<1>3. DOMAIN l = 1..n /\ DOMAIN l = 1..Len(l) /\ Len(l) \in Nat
  BY <1>1, <1>2, LenProperties
<1>. QED
  BY <1>2, <1>3

LEMMA NothingFacts == Nothing \in Seq(Redirections) /\ Len(Nothing) = 1
BY DEF Nothing, Redirections

\* Every token that may be typed is one of CommandToken; in the shell of LAB_12 it has
\* one command.
LEMMA TokenFacts ==
    ASSUME NEW t \in Tokens
    PROVE  t \in CommandToken /\ (shell = "lab12" => Len(t.line) = 1)
<1>1. \A l \in LinesOf(1, 0) \cup LinesOf(MaxCmds, 0) : l \in Seq(Redirections) /\ Len(l) \in Cmds
  BY LineLength, CmdsFacts DEF Cmds
<1>2. Nothing \in {l \in Seq(Redirections) : Len(l) \in Cmds}
  BY NothingFacts, CmdsFacts
<1>3. CASE shell = "lab12"
  <2>1. PICK k \in {"exit", "cd", "cmd"} : t = [kind |-> k, line |-> Nothing]
    BY <1>3 DEF Tokens, BuiltIn, Token
  <2>. QED
    BY <2>1, <1>2, NothingFacts DEF CommandToken
<1>4. CASE shell # "lab12"
  <2>1. \/ \E k \in {"exit", "cd", "bad"} : t = [kind |-> k, line |-> Nothing]
        \/ \E l \in LinesOf(1, 0) \cup LinesOf(MaxCmds, 0) : t = [kind |-> "cmd", line |-> l]
    BY <1>4 DEF Tokens, BuiltIn, Token
  <2>. QED
    BY <2>1, <1>1, <1>2, <1>4 DEF CommandToken
<1>. QED
  BY <1>3, <1>4

\* A child is wired to its pipes or to files.
LEMMA WiringFacts ==
    ASSUME Shape, NEW c \in Cmds
    PROVE  /\ Wiring(c) \in [in : Ends, out : Ends]
           /\ Wiring(c).in \in {PipeIn(c), Terminal, File("r"), File("w")}
           /\ Wiring(c).out \in {PipeOut(c), Terminal, File("w")}
<1>1. PipeIn(c) \in Ends /\ PipeOut(c) \in Ends /\ File("r") \in Ends /\ File("w") \in Ends
  BY CmdsFacts DEF PipeIn, PipeOut, File, Terminal, Ends
<1>2. CASE program.redirs = "none"
  BY <1>1, <1>2 DEF Wiring
<1>3. CASE program.redirs = "loop"
  BY <1>1, <1>3 DEF Wiring, WiredByLoop
<1>4. CASE program.redirs = "pair"
  <2>1. PICK first, second :
          WiredByPair(c) =
            [in |-> CASE second = "r" -> File("w")
                      [] second # "r" /\ first = "r" -> File("r")
                      [] OTHER -> PipeIn(c),
             out |-> CASE second = "w" -> File("w")
                       [] second # "w" /\ first = "w" /\ ~(1 < c /\ c < N) -> File("w")
                       [] OTHER -> PipeOut(c)]
    BY Zenon DEF WiredByPair
  <2>. QED
    BY <2>1, <1>1, <1>4 DEF Wiring
<1>. QED
  BY <1>2, <1>3, <1>4 DEF Shape

-----------------------------------------------------------------------------
(* What the invariant says of the properties *)

LEMMA InvNoStrayEnds == IInv => NoStrayEnds
<1>. SUFFICES ASSUME IInv PROVE NoStrayEnds
  OBVIOUS
<1>. USE CmdsFacts DEF IInv, Shape
<1>0. 1..N \subseteq Cmds
  BY DEF Cmds
<1>1. \A c \in 1..N : cpc[c] = "running" => ~ \E e \in fds[c] : Own(e)
  BY <1>0 DEF ChildEnds
<1>2. ppc = "reap" /\ cpc[N] # "none" => ~ \E e \in pipe_list : Own(e)
  BY DEF ParentEnds
<1>3. spc = "prompt" => ppc = "idle"
  BY DEF Turns
<1>4. spc = "prompt" => \A c \in Cmds : cpc[c] \in {"none", "reaped"}
  BY <1>3 DEF Progress, AllEnded, Ended
<1>5. spc = "prompt" => (failures = 0 => pipe_list = {})
  BY <1>3 DEF ParentEnds
<1>. QED
  BY <1>1, <1>2, <1>4, <1>5 DEF NoStrayEnds

LEMMA InvLineIsHandled == IInv => LineIsHandled
BY DEF IInv, Turns, Strtok, Stops, LineIsHandled

\* A command that has its pipe for stdout has its own write end.
LEMMA SinkFacts ==
    ASSUME IInv, NEW c \in Cmds, cpc[c] = "running"
    PROVE  /\ Sink(c) # 0 => Sink(c) = c /\ c < N /\ wired[c].out = <<c, "w">>
           /\ Source(c) # 0 => Source(c) = c - 1 /\ c > 1 /\ wired[c].in = <<c - 1, "r">>
<1>1. wired[c].in \in {PipeIn(c), Terminal, File("r"), File("w")}
      /\ wired[c].out \in {PipeOut(c), Terminal, File("w")}
  BY DEF IInv, ChildEnds
<1>. QED
  BY <1>1 DEF Sink, Source, PipeIn, PipeOut, Terminal, File

LEMMA InvNoEarlyEnd == IInv => NoEarlyEnd
<1>. SUFFICES ASSUME IInv PROVE NoEarlyEnd
  OBVIOUS
<1>. USE CmdsFacts
<1>0. N \in Cmds /\ N \in Nat /\ N <= MaxCmds /\ cpc \in [Cmds -> Places]
  BY DEF IInv, Shape
<1>1. ASSUME NEW c \in 2..N, cpc[c] = "running", Source(c) = c - 1, ~Open(<<c - 1, "w">>)
      PROVE  ~Alive(c - 1) \/ (cpc[c - 1] = "running" /\ Sink(c - 1) # c - 1)
  <2>1. c - 1 \in Cmds /\ c - 1 < N /\ c - 1 # 0
    BY <1>0 DEF Cmds
  <2>2. SUFFICES ASSUME Alive(c - 1), cpc[c - 1] = "running" => Sink(c - 1) = c - 1
                 PROVE  FALSE
    BY DEF Alive
  <2>3. <<c - 1, "w">> \notin Holds(c - 1)
    BY <2>1, <1>1 DEF Open
  <2>4. CASE cpc[c - 1] = "forked"
    BY <2>1, <2>2, <2>3, <2>4 DEF IInv, ChildEnds, Holds
  <2>5. CASE cpc[c - 1] = "running"
    BY <2>1, <2>2, <2>3, <2>5, SinkFacts DEF Holds
  <2>. QED
    BY <2>2, <2>4, <2>5 DEF Alive
<1>2. ASSUME NEW c \in 1..N, status[c] = BrokenPipe
      PROVE  /\ c < N
             /\ Alive(c + 1) => cpc[c + 1] = "running" /\ Source(c + 1) # c
             /\ cpc[c + 1] = "none" => ppc = "gone" \/ program.undo = "last"
  BY <1>0, <1>2 DEF IInv, Sigpipes, Cmds, Alive
<1>. QED
  BY <1>1, <1>2 DEF NoEarlyEnd

-----------------------------------------------------------------------------
(* The initial states *)

LEMMA InitIInv == ShellInit => IInv
<1>. SUFFICES ASSUME ShellInit PROVE IInv
  OBVIOUS
<1>. USE CmdsFacts
<1>1. \A n \in Cmds, m \in Nat : \A l \in LinesOf(n, m) : Len(l) = n
  BY LineLength
<1>2. \E p, l, place :
        /\ Fresh(p, l, place) /\ Len(l) \in Cmds
        /\ p \in [redirs : {"none", "loop", "pair"}, undo : {"all", "last"}]
        /\ \/ shell = "none" /\ spc = "run" /\ place = "fork" /\ (p.undo = "last" => Len(l) = 2)
           \/ shell = "lab12" /\ spc = "prompt" /\ place = "idle" /\ Len(l) = 1 /\ p.undo = "all"
           \/ shell = "lab14" /\ spc = "prompt" /\ place = "idle" /\ p.undo = "all"
  <2>1. CASE shell = "none" /\ spc = "run" /\ \E pl \in CommandLines : Fresh(pl[1], pl[2], "fork")
    <3>1. PICK pl \in CommandLines : Fresh(pl[1], pl[2], "fork")
      BY <2>1
    <3>2. CASE pl \in {Pipe2} \X Pipe2Lines
      <4>1. pl[1] = Pipe2 /\ Len(pl[2]) = 2
        BY <1>1, <3>2 DEF Pipe2Lines
      <4>. QED
        BY <2>1, <3>1, <4>1 DEF Pipe2
    <3>3. CASE pl \in {Pipe3} \X Pipe3Lines
      BY <1>1, <2>1, <3>1, <3>3 DEF Pipe3, Pipe3Lines
    <3>4. CASE pl \in {Pipe4} \X Pipe4Lines
      BY <1>1, <2>1, <3>1, <3>4 DEF Pipe4, Pipe4Lines
    <3>5. CASE pl \in {Pipe5} \X Pipe5Lines
      BY <1>1, <2>1, <3>1, <3>5 DEF Pipe5, Pipe5Lines
    <3>6. CASE pl \in {Pipe6} \X Pipe6Lines
      BY <1>1, <2>1, <3>1, <3>6 DEF Pipe6, Pipe6Lines
    <3>7. CASE pl \in {Pipe7} \X Pipe7Lines
      BY <1>1, <2>1, <3>1, <3>7 DEF Pipe7, Pipe7Lines
    <3>. QED
      BY <3>2, <3>3, <3>4, <3>5, <3>6, <3>7 DEF CommandLines
  <2>2. CASE shell = "lab12" /\ spc = "prompt" /\ Fresh(Simple, Nothing, "idle")
    <3>1. Simple \in [redirs : {"none", "loop", "pair"}, undo : {"all", "last"}] /\ Simple.undo = "all"
      BY DEF Simple
    <3>. QED
      BY <2>2, <3>1, NothingFacts
  <2>3. CASE shell = "lab14" /\ spc = "prompt" /\ Fresh(Pipe7, Nothing, "idle")
    <3>1. Pipe7 \in [redirs : {"none", "loop", "pair"}, undo : {"all", "last"}] /\ Pipe7.undo = "all"
      BY DEF Pipe7
    <3>. QED
      BY <2>3, <3>1, NothingFacts
  <2>. QED
    BY <2>1, <2>2, <2>3 DEF ShellInit
<1>3. Shape
  BY <1>2 DEF Fresh, ShellInit, Shape, N, Places, Ends, AtTerminal, Terminal, ExitSuccess, Cmds
<1>4. Turns /\ ParentEnds /\ Progress
  BY <1>2, <1>3 DEF Fresh, ShellInit, Shape, Turns, ParentEnds, Progress, Ended, AllEnded
<1>5. ChildEnds /\ ReaderKept /\ Sigpipes
  BY <1>2 DEF Fresh, ChildEnds, ReaderKept, Sigpipes, ExitSuccess, BrokenPipe
<1>6. Strtok /\ Reasons
  BY <1>2 DEF Fresh, ShellInit, Strtok, Stops, Reasons, HasRun, OK, QUIT, FAIL
<1>. QED
  BY <1>3, <1>4, <1>5, <1>6 DEF IInv

-----------------------------------------------------------------------------
(* The loop over the tokens *)

\* The next token of the line is the one behind the handled ones.
LEMMA NextToken ==
    ASSUME Strtok, rest # <<>>
    PROVE  /\ handled + 1 \in 1..Len(typed)
           /\ Head(rest) = typed[handled + 1]
           /\ Head(rest) \in CommandToken
           /\ shell = "lab12" => Len(Head(rest).line) = 1
           /\ Tail(rest) # <<>> => Tail(rest) = SubSeq(typed, handled + 2, Len(typed))
           /\ Tail(rest) = <<>> => handled + 1 = Len(typed)
<1>1. typed \in Seq(CommandToken) /\ Len(typed) \in Nat /\ handled \in 0..Len(typed)
      /\ rest = SubSeq(typed, handled + 1, Len(typed))
  BY DEF Strtok, Stops
<1>2. rest \in Seq(CommandToken) /\ Len(rest) = Len(typed) - handled
      /\ \A i \in 1..Len(rest) : rest[i] = typed[handled + i]
  BY <1>1
<1>3. Len(rest) >= 1
  BY <1>2
<1>4. handled + 1 \in 1..Len(typed) /\ Head(rest) = typed[handled + 1] /\ Head(rest) \in CommandToken
  BY <1>1, <1>2, <1>3
<1>5. Tail(rest) \in Seq(CommandToken) /\ Len(Tail(rest)) = Len(typed) - (handled + 1)
      /\ \A i \in 1..Len(Tail(rest)) : Tail(rest)[i] = typed[handled + 1 + i]
  BY <1>1, <1>2, <1>3
<1>6. /\ SubSeq(typed, handled + 2, Len(typed)) \in Seq(CommandToken)
      /\ Len(SubSeq(typed, handled + 2, Len(typed))) = Len(typed) - (handled + 1)
      /\ \A i \in 1..(Len(typed) - (handled + 1)) :
           SubSeq(typed, handled + 2, Len(typed))[i] = typed[handled + 1 + i]
  <2>1. handled + 2 \in 1..(Len(typed) + 1) /\ Len(typed) \in (handled + 1)..Len(typed)
    BY <1>1, <1>4
  <2>. QED
    BY <1>1, <2>1
<1>7. Tail(rest) = SubSeq(typed, handled + 2, Len(typed))
  <2>. DEFINE s == SubSeq(typed, handled + 2, Len(typed))
  <2>1. s \in Seq(CommandToken) /\ Len(s) = Len(Tail(rest)) /\ \A i \in 1..Len(s) : s[i] = Tail(rest)[i]
    BY <1>5, <1>6
  <2>. HIDE DEF s
  <2>2. s = Tail(rest)
    BY <1>5, <2>1, SeqEqual
  <2>. QED
    BY <2>2 DEF s
<1>8. Tail(rest) = <<>> => handled + 1 = Len(typed)
  <2>1. ASSUME Tail(rest) = <<>> PROVE Len(Tail(rest)) = 0
    BY ONLY <2>1, EmptySeq
  <2>. QED
    BY <1>1, <1>5, <2>1
<1>9. shell = "lab12" => Len(Head(rest).line) = 1
  BY <1>1, <1>4 DEF Strtok, Stops
<1>. QED
  BY <1>4, <1>7, <1>8, <1>9

\* Steps that touch the session only leave the pipeline's part of the invariant alone.
LEMMA PipelineStays ==
    ASSUME IInv, UNCHANGED <<vars, shell>>
    PROVE  Shape' /\ ParentEnds' /\ ChildEnds' /\ ReaderKept' /\ Sigpipes' /\ N' = N
           /\ AllEnded' = AllEnded /\ (HasRun /\ (spc = "run" => spc' = "run") => HasRun')
<1>. USE DEF vars, parent, child
<1>0. N' = N
  BY DEF N
<1>1. Shape'
  BY <1>0 DEF IInv, Shape
<1>2. ParentEnds'
  BY <1>0 DEF IInv, ParentEnds
<1>3. ChildEnds'
  BY <1>0 DEF IInv, ChildEnds, PipeIn, PipeOut
<1>4. ReaderKept'
  BY <1>0 DEF IInv, ReaderKept
<1>5. Sigpipes'
  BY <1>0 DEF IInv, Sigpipes, Source
<1>6. AllEnded' = AllEnded /\ (HasRun /\ (spc = "run" => spc' = "run") => HasRun')
  BY DEF AllEnded, Ended, HasRun
<1>. QED
  BY <1>0, <1>1, <1>2, <1>3, <1>4, <1>5, <1>6

\* The tokens handled after a step are those handled before it and the next one.
LEMMA HandledNow ==
    \A m, n \in Nat : n = m + 1 => \A i \in 1..n : i \in 1..(n - 1) \/ i = m + 1
OBVIOUS

LEMMA ReadLineStep == IInv /\ ReadLine => IInv'
<1>. SUFFICES ASSUME IInv, ReadLine PROVE IInv'
  OBVIOUS
<1>1. UNCHANGED <<vars, shell>> /\ UNCHANGED <<ppc, cmd, line, cpc, failures, ret, status, sigint>>
  BY DEF ReadLine, vars, parent, child
<1>2. N' = N
  BY PipelineStays, <1>1
<1>3. Turns' /\ Progress'
  BY <1>1, <1>2 DEF ReadLine, IInv, Turns, Progress, AllEnded, Ended
<1>4. PICK n \in 1..MaxTokens : \E t \in [1..n -> Tokens] : typed' = t /\ rest' = t
  BY DEF ReadLine
<1>5. typed' \in Seq(Tokens) /\ rest' = typed' /\ Len(typed') \in Nat /\ Len(typed') > 0
  <2>1. n \in Nat /\ typed' \in [1..n -> Tokens]
    BY <1>4, SessionAssumption
  <2>2. typed' \in Seq(Tokens)
    BY <2>1, SeqDef
  <2>3. DOMAIN typed' = 1..n /\ DOMAIN typed' = 1..Len(typed') /\ Len(typed') \in Nat
    BY <2>1, <2>2, LenProperties
  <2>. QED
    BY <1>4, <2>2, <2>3
<1>6. typed' \in Seq(CommandToken) /\ (shell = "lab12" => \A i \in 1..Len(typed') : Len(typed'[i].line) = 1)
  BY <1>5, TokenFacts
<1>7. Strtok'
  <2>1. handled' = 0 /\ spc' = "tokens" /\ shell' = shell /\ rest' # <<>>
    BY <1>5 DEF ReadLine
  <2>2. rest' = SubSeq(typed', 1, Len(typed'))
    BY <1>5
  <2>. QED
    BY <2>1, <2>2, <1>5, <1>6 DEF Strtok, Stops
<1>8. Reasons'
  BY <1>1, <1>2 DEF ReadLine, IInv, Reasons, Turns, HasRun, OK, QUIT
<1>. QED
  BY <1>1, <1>3, <1>7, <1>8, PipelineStays DEF IInv

\* exit, cd and a line out of place: one more token is handled and nothing is run.
LEMMA BuiltInStep == IInv /\ (ExitToken \/ CdToken \/ BadToken) => IInv'
<1>. SUFFICES ASSUME IInv, ExitToken \/ CdToken \/ BadToken PROVE IInv'
  OBVIOUS
<1>1. UNCHANGED <<vars, shell>> /\ UNCHANGED <<ppc, cmd, line, cpc, failures, ret, status, sigint, spc, typed>>
      /\ spc = "tokens" /\ rest # <<>> /\ handled' = handled + 1
  BY DEF ExitToken, CdToken, BadToken, NextIs, vars, parent, child
<1>2. N' = N
  BY PipelineStays, <1>1
<1>3. shell # "none" /\ ppc = "idle" /\ act # QUIT
  BY <1>1 DEF IInv, Turns, Reasons
<1>4. Turns' /\ Progress'
  BY <1>1, <1>2, <1>3 DEF IInv, Turns, Progress, AllEnded, Ended
<1>5. /\ handled + 1 \in 1..Len(typed) /\ Len(typed) \in Nat
      /\ Head(rest) = typed[handled + 1]
      /\ Tail(rest) # <<>> => Tail(rest) = SubSeq(typed, handled + 2, Len(typed))
      /\ Tail(rest) = <<>> => handled + 1 = Len(typed)
  <2>1. Strtok /\ Len(typed) \in Nat
    BY DEF IInv, Strtok, Stops
  <2>. QED
    BY <1>1, <2>1, NextToken
<1>6. \/ rest' = <<>> /\ act' = QUIT /\ typed[handled + 1].kind = "exit"
      \/ rest' = Tail(rest) /\ act' \in {CHDIR, FAIL}
      \/ rest' = <<>> /\ act' = FAIL
      \/ /\ act' = act /\ typed[handled + 1].kind = "bad"
         /\ IF shell = "lab14" THEN rest' = <<>> ELSE rest' = Tail(rest)
  BY <1>5 DEF ExitToken, CdToken, BadToken, NextIs, AfterSplit
<1>7. rest' # <<>> => /\ typed[handled + 1].kind \in {"cd", "bad"}
                      /\ shell = "lab14" => typed[handled + 1].kind = "cd"
  BY <1>5 DEF ExitToken, CdToken, BadToken, NextIs, AfterSplit
<1>8. Strtok'
  <2>1. typed' = typed /\ shell' = shell /\ spc' = "tokens" /\ handled' \in 0..Len(typed) /\ handled' > 0
    BY <1>1, <1>5
  <2>2. typed \in Seq(CommandToken) /\ (shell = "lab12" => \A i \in 1..Len(typed) : Len(typed[i].line) = 1)
    BY DEF IInv, Strtok, Stops
  <2>3. rest' # <<>> => rest' = SubSeq(typed', handled' + 1, Len(typed'))
    <3>1. handled' + 1 = handled + 2
      BY <1>1 DEF IInv, Strtok, Stops
    <3>. QED
      BY <1>1, <1>5, <1>6, <3>1
  <2>4. rest' = <<>> /\ act' # FAIL =>
          handled' = Len(typed) \/ Stops(typed[handled'])
    BY <1>1, <1>5, <1>6 DEF Stops
  <2>5. \A i \in 1..(handled' - 1) : ~Stops(typed[i])
    BY <1>1, <1>5 DEF IInv, Strtok
  <2>6. rest' # <<>> => ~Stops(typed[handled + 1])
    BY <1>7 DEF Stops
  <2>7. rest' # <<>> => \A i \in 1..handled' : ~Stops(typed[i])
    BY <1>1, <2>5, <2>6, HandledNow DEF IInv, Strtok
  <2>. QED
    BY <2>1, <2>2, <2>3, <2>4, <2>5, <2>7 DEF Strtok, Stops
<1>9. Reasons'
  BY <1>1, <1>2, <1>3, <1>6 DEF IInv, Reasons, HasRun, CHDIR, FAIL, QUIT
<1>. QED
  BY <1>1, <1>4, <1>8, <1>9, PipelineStays DEF IInv

LEMMA CmdTokenStep == IInv /\ CmdToken => IInv'
<1>. SUFFICES ASSUME IInv, CmdToken PROVE IInv'
  OBVIOUS
<1>. USE CmdsFacts
<1>1. /\ spc = "tokens" /\ rest # <<>> /\ Head(rest).kind = "cmd"
      /\ spc' = "run" /\ handled' = handled + 1 /\ rest' = AfterSplit
      /\ sigint' = SigintWhileRunning /\ UNCHANGED <<failures, shell, typed, act>>
      /\ Restart(program, Head(rest).line)
  BY DEF CmdToken, NextIs
<1>2. shell # "none" /\ ppc = "idle" /\ act # QUIT /\ program.undo = "all"
  BY <1>1 DEF IInv, Turns, Reasons, Shape
<1>3. /\ handled + 1 \in 1..Len(typed) /\ Len(typed) \in Nat /\ handled \in Nat
      /\ Head(rest) = typed[handled + 1]
      /\ Len(Head(rest).line) \in Cmds
      /\ shell = "lab12" => Len(Head(rest).line) = 1
      /\ Tail(rest) # <<>> => Tail(rest) = SubSeq(typed, handled + 2, Len(typed))
      /\ Tail(rest) = <<>> => handled + 1 = Len(typed)
  <2>1. Strtok /\ Len(typed) \in Nat /\ handled \in Nat
    BY DEF IInv, Strtok, Stops
  <2>. QED
    BY <1>1, <2>1, NextToken DEF CommandToken
<1>4. \A e \in pipe_list : Leaked(e) \in Ends /\ ~Own(Leaked(e))
  <2>1. ASSUME NEW e \in pipe_list PROVE Leaked(e) \in Ends /\ ~Own(Leaked(e))
    <3>1. e \in Ends
      BY DEF IInv, Shape
    <3>2. PICK k \in Int, d \in {"r", "w", "tty"} : e = <<k, d>>
      BY <3>1 DEF Ends
    <3>. QED
      BY <3>2 DEF Leaked, Own, Ends
  <2>. QED
    BY <2>1
<1>5. /\ pipe_list' \in SUBSET Ends /\ \A e \in pipe_list' : ~Own(e)
      /\ failures = 0 => pipe_list' = {}
  BY <1>1, <1>2, <1>4 DEF Restart, IInv, ParentEnds
<1>6. /\ N' = Len(Head(rest).line) /\ cmd' = 1 /\ ppc' = "fork" /\ program' = program
      /\ cpc' = [c \in Cmds |-> "none"] /\ fds' = [c \in Cmds |-> {}]
      /\ wired' = [c \in Cmds |-> AtTerminal] /\ status' = [c \in Cmds |-> ExitSuccess]
  BY <1>1 DEF Restart, N
<1>7. Shape'
  <2>1. AtTerminal \in [in : Ends, out : Ends] /\ ExitSuccess \in Nat /\ "none" \in Places
    BY DEF AtTerminal, Terminal, Ends, ExitSuccess, Places
  <2>2. N' \in Cmds /\ cmd' \in 1..N' /\ (shell = "lab12" => N' = 1)
    BY <1>3, <1>6
  <2>3. /\ cpc' \in [Cmds -> Places] /\ fds' \in [Cmds -> SUBSET Ends]
        /\ wired' \in [Cmds -> [in : Ends, out : Ends]] /\ status' \in [Cmds -> Nat]
    BY <1>6, <2>1
  <2>. QED
    BY <1>1, <1>2, <1>5, <1>6, <2>2, <2>3 DEF IInv, Shape
<1>8. Turns' /\ ParentEnds' /\ Progress'
  BY <1>1, <1>2, <1>5, <1>6 DEF Turns, ParentEnds, Progress, IInv, Shape
<1>9. ChildEnds' /\ ReaderKept' /\ Sigpipes'
  BY <1>6 DEF ChildEnds, ReaderKept, Sigpipes, ExitSuccess, BrokenPipe
<1>10. Strtok'
  <2>1. rest' # <<>> => rest' = SubSeq(typed', handled' + 1, Len(typed'))
    <3>1. handled' + 1 = handled + 2
      BY <1>1, <1>3
    <3>. QED
      BY <1>1, <1>3, <3>1 DEF AfterSplit
  <2>2. typed \in Seq(CommandToken) /\ (shell = "lab12" => \A i \in 1..Len(typed) : Len(typed[i].line) = 1)
    BY DEF IInv, Strtok, Stops
  <2>3. rest' = <<>> => handled' = Len(typed) \/ (shell = "lab14" /\ typed[handled'].kind = "cmd")
    BY <1>1, <1>3 DEF AfterSplit
  <2>4. handled' \in 0..Len(typed) /\ handled' > 0
    BY <1>1, <1>3
  <2>5. \A i \in 1..(handled' - 1) : ~Stops(typed[i])
    BY <1>1, <1>3 DEF IInv, Strtok
  <2>6. rest' # <<>> => \A i \in 1..handled' : ~Stops(typed[i])
    <3>1. rest' # <<>> => ~Stops(typed[handled + 1])
      BY <1>1, <1>3 DEF Stops, AfterSplit
    <3>. QED
      BY <1>1, <2>5, <3>1, HandledNow DEF IInv, Strtok
  <2>. QED
    BY <1>1, <2>1, <2>2, <2>3, <2>4, <2>5, <2>6 DEF Strtok, Stops, AfterSplit
<1>11. Reasons'
  BY <1>1, <1>2, <1>6 DEF IInv, Reasons, HasRun, SigintWhileRunning
<1>. QED
  BY <1>7, <1>8, <1>9, <1>10, <1>11 DEF IInv

LEMMA CmdReturnsStep == IInv /\ CmdReturns => IInv'
<1>. SUFFICES ASSUME IInv, CmdReturns PROVE IInv'
  OBVIOUS
<1>1. /\ spc = "run" /\ ppc = "done" /\ shell # "none" /\ ppc' = "idle" /\ spc' = "tokens"
      /\ act' = (IF shell = "lab14" THEN ret ELSE act)
      /\ UNCHANGED <<program, line, cmd, pipe_list, cpc, fds, wired, status, failures,
                     shell, typed, rest, handled, sigint>>
      /\ N' = N
  BY DEF CmdReturns, child, N
<1>2. Shape'
  BY <1>1 DEF IInv, Shape
<1>3. Turns' /\ ParentEnds'
  BY <1>1 DEF IInv, Turns, ParentEnds, Shape
<1>4. Progress'
  BY <1>1 DEF IInv, Shape, Progress, AllEnded, Ended, QUIT, ExitFailure
<1>5. ChildEnds'
  BY <1>1 DEF IInv, ChildEnds, PipeIn, PipeOut
<1>6. ReaderKept' /\ Sigpipes'
  BY <1>1 DEF IInv, ReaderKept, Sigpipes, Source, Shape
<1>7. Strtok'
  BY <1>1 DEF IInv, Strtok, Stops
<1>8. Reasons'
  <2>1. failures = 0 => \E c \in Cmds : cpc[c] # "none"
    BY <1>1 DEF IInv, Progress, Shape
  <2>2. HasRun'
    BY <1>1, <2>1 DEF HasRun, IInv, Shape
  <2>3. act' = QUIT => shell = "lab14" /\ rest = <<>> /\ (failures > 0 \/ status[N] = Hangup)
    BY <1>1 DEF IInv, Reasons, Strtok, Stops, Shape, QUIT, Hangup
  <2>. QED
    BY <1>1, <2>2, <2>3 DEF IInv, Reasons
<1>. QED
  BY <1>2, <1>3, <1>4, <1>5, <1>6, <1>7, <1>8 DEF IInv

\* The shell leaves, or a program returns: nothing is forked or waited for any more.
LEMMA LeavingStays ==
    ASSUME IInv, ppc' = "gone", pipe_list' = {}, failures' = failures,
           UNCHANGED <<program, line, cmd, shell, child>>
    PROVE  Shape' /\ ParentEnds' /\ Progress' /\ ChildEnds' /\ ReaderKept' /\ Sigpipes' /\ N' = N
<1>. USE CmdsFacts DEF child
<1>0. N' = N
  BY DEF N
<1>1. Shape'
  BY <1>0 DEF IInv, Shape
<1>2. ParentEnds' /\ ReaderKept'
  BY <1>0 DEF ParentEnds, ReaderKept
<1>3. Progress'
  BY <1>0 DEF IInv, Progress
<1>4. ChildEnds'
  BY <1>0 DEF IInv, ChildEnds, PipeIn, PipeOut
<1>5. Sigpipes'
  BY <1>0 DEF IInv, Sigpipes, Source
<1>. QED
  BY <1>0, <1>1, <1>2, <1>3, <1>4, <1>5

LEMMA EndStep == IInv /\ (EndOfInput \/ EndOfLine) => IInv'
<1>. SUFFICES ASSUME IInv, EndOfInput \/ EndOfLine PROVE IInv'
  OBVIOUS
<1>1. CASE Leave
  <2>1. /\ ppc' = "gone" /\ pipe_list' = {} /\ spc' = "over" /\ failures' = failures
        /\ UNCHANGED <<program, line, cmd, shell, child, typed, rest, handled, act, sigint>>
        /\ spc \in {"prompt", "tokens"}
    BY <1>1 DEF EndOfInput, EndOfLine, Leave
  <2>2. Turns'
    BY <2>1 DEF IInv, Turns
  <2>3. Strtok' /\ Reasons'
    BY <2>1 DEF IInv, Strtok, Stops, Reasons
  <2>. QED
    BY <2>1, <2>2, <2>3, LeavingStays DEF IInv
<1>2. CASE ~Leave
  <2>1. /\ spc = "tokens" /\ rest = <<>> /\ act \notin {QUIT, FAIL} /\ spc' = "prompt"
        /\ UNCHANGED <<vars, shell>>
        /\ UNCHANGED <<ppc, cmd, line, cpc, failures, ret, status, shell, typed, rest, handled, act, sigint>>
    BY <1>2 DEF EndOfInput, EndOfLine, vars, parent, child
  <2>2. N' = N /\ AllEnded' = AllEnded
    BY <2>1, PipelineStays
  <2>3. Turns' /\ Progress'
    BY <2>1, <2>2 DEF IInv, Turns, Progress, Ended
  <2>4. Strtok' /\ Reasons'
    BY <2>1, <2>2 DEF IInv, Strtok, Stops, Reasons, HasRun, Turns
  <2>. QED
    BY <2>1, <2>3, <2>4, PipelineStays DEF IInv
<1>. QED
  BY <1>1, <1>2

LEMMA ReturnStep == IInv /\ shell = "none" /\ Return /\ UNCHANGED session => IInv'
<1>. SUFFICES ASSUME IInv, shell = "none", Return, UNCHANGED session PROVE IInv'
  OBVIOUS
<1>1. /\ ppc' = "gone" /\ pipe_list' = {} /\ failures' = failures
      /\ UNCHANGED <<program, line, cmd, shell, child, spc, typed, rest, handled, act, sigint>>
  BY DEF Return, session
<1>2. Turns' /\ Strtok' /\ Reasons'
  BY <1>1 DEF IInv, Turns, Strtok, Stops, Reasons
<1>. QED
  BY <1>1, <1>2, LeavingStays DEF IInv

-----------------------------------------------------------------------------
(* Children that end *)

\* What a death leaves of the invariant, whatever the parent does in the same step.
LEMMA DeathShape ==
    ASSUME IInv, NEW S \in SUBSET Cmds, \A c \in S : Alive(c), NEW s \in Nat, DieAll(S, s),
           UNCHANGED <<program, line, cmd, shell>>,
           pipe_list' \in {pipe_list, {}}, failures' \in Nat
    PROVE  /\ Shape' /\ N' = N
           /\ \A c \in Cmds : cpc[c] = "none" <=> cpc'[c] = "none"
           /\ \A c \in Cmds : Ended(c) <=> Ended(c)'
           /\ \A c \in Cmds : ~Ended(c) \/ (cpc'[c] = cpc[c] /\ status'[c] = status[c])
           /\ \A c \in Cmds : Alive(c)' => c \notin S
           /\ \A c \in Cmds \ S : cpc'[c] = cpc[c] /\ fds'[c] = fds[c]
                                  /\ wired'[c] = wired[c] /\ status'[c] = status[c]
           /\ \A c \in S : cpc'[c] = "exited" /\ cpc[c] # "none" /\ status'[c] = s
<1>. USE DEF DieAll
<1>0. N' = N
  BY DEF N
<1>1. \A c \in S : cpc'[c] = "exited" /\ cpc[c] \in {"forked", "running"} /\ status'[c] = s
  BY DEF Alive
<1>2. \A c \in Cmds \ S : cpc'[c] = cpc[c] /\ fds'[c] = fds[c]
                          /\ wired'[c] = wired[c] /\ status'[c] = status[c]
  OBVIOUS
<1>3. AtTerminal \in [in : Ends, out : Ends] /\ "exited" \in Places
  BY DEF AtTerminal, Terminal, Ends, Places
<1>4. cpc' \in [Cmds -> Places] /\ fds' \in [Cmds -> SUBSET Ends]
  BY <1>3 DEF IInv, Shape
<1>5. wired' \in [Cmds -> [in : Ends, out : Ends]]
  <2>1. wired \in [Cmds -> [in : Ends, out : Ends]]
    BY DEF IInv, Shape
  <2>. QED
    BY <1>3, <2>1
<1>6. status' \in [Cmds -> Nat]
  BY DEF IInv, Shape
<1>7. Shape'
  BY <1>0, <1>4, <1>5, <1>6 DEF IInv, Shape
<1>. QED
  BY <1>0, <1>1, <1>2, <1>7 DEF Ended, Alive

LEMMA DeathChildEnds ==
    ASSUME IInv, NEW S \in SUBSET Cmds, \A c \in S : Alive(c), NEW s \in Nat, DieAll(S, s),
           UNCHANGED <<program, line, cmd, shell>>,
           pipe_list' \in {pipe_list, {}}, failures' \in Nat
    PROVE  ChildEnds'
<1>1. /\ N' = N
      /\ \A c \in Cmds : Alive(c)' => c \notin S
      /\ \A c \in Cmds \ S : cpc'[c] = cpc[c] /\ fds'[c] = fds[c] /\ wired'[c] = wired[c]
  BY DeathShape
<1>2. \A c \in Cmds : PipeIn(c)' = PipeIn(c) /\ PipeOut(c)' = PipeOut(c) /\ ClosedByChild(c)' = ClosedByChild(c)
  BY <1>1 DEF PipeIn, PipeOut, ClosedByChild
<1>. QED
  BY <1>1, <1>2 DEF IInv, ChildEnds, Alive

\* A death is a death of SIGPIPE only if nobody can read the pipe any more.
LEMMA DeathSigpipes ==
    ASSUME IInv, NEW S \in SUBSET Cmds, \A c \in S : Alive(c), NEW s \in Nat, DieAll(S, s),
           UNCHANGED <<program, line, cmd, shell>>,
           pipe_list' \in {pipe_list, {}}, failures' \in Nat,
           ppc' \in {ppc, "gone"},
           s = BrokenPipe => \A c \in S : cpc[c] = "running" /\ Sink(c) # 0 /\ ~Open(<<Sink(c), "r">>)
    PROVE  Sigpipes'
<1>0. N \in Cmds
  BY DEF IInv, Shape
<1>1. /\ N' = N
      /\ \A c \in Cmds : cpc[c] = "none" <=> cpc'[c] = "none"
      /\ \A c \in Cmds : Alive(c)' => c \notin S
      /\ \A c \in Cmds \ S : cpc'[c] = cpc[c] /\ wired'[c] = wired[c] /\ status'[c] = status[c]
      /\ \A c \in S : cpc'[c] = "exited" /\ cpc[c] # "none" /\ status'[c] = s
  <2>1. /\ N' = N
        /\ \A c \in Cmds : cpc[c] = "none" <=> cpc'[c] = "none"
        /\ \A c \in Cmds : Alive(c)' => c \notin S
    BY DeathShape
  <2>2. \A c \in Cmds \ S : cpc'[c] = cpc[c] /\ wired'[c] = wired[c] /\ status'[c] = status[c]
    BY DeathShape
  <2>3. \A c \in S : cpc'[c] = "exited" /\ cpc[c] # "none" /\ status'[c] = s
    BY DeathShape
  <2>. QED
    BY <2>1, <2>2, <2>3
<1>. USE CmdsFacts
<1>. SUFFICES ASSUME NEW c \in Cmds, status'[c] = BrokenPipe
              PROVE  /\ c < N
                     /\ cpc'[c] # "none"
                     /\ cpc'[c + 1] # "forked"
                     /\ cpc'[c + 1] = "running" => Source(c + 1)' # c
                     /\ cpc'[c + 1] = "none" =>
                          ppc' = "gone" \/ (program.undo = "last" /\ ppc' \in {"undo", "done"})
  BY <1>1 DEF Sigpipes
<1>2. CASE c \notin S
  <2>1. /\ c < N /\ cpc[c] # "none" /\ cpc[c + 1] # "forked"
        /\ cpc[c + 1] = "running" => Source(c + 1) # c
        /\ cpc[c + 1] = "none" => ppc = "gone" \/ (program.undo = "last" /\ ppc \in {"undo", "done"})
    BY <1>1, <1>2 DEF IInv, Sigpipes
  <2>2. c + 1 \in Cmds
    BY <1>0, <2>1 DEF Cmds
  <2>. QED
    BY <1>1, <1>2, <2>1, <2>2 DEF Source, Alive
<1>3. CASE c \in S
  <2>1. s = BrokenPipe /\ cpc[c] = "running" /\ Sink(c) # 0 /\ ~Open(<<Sink(c), "r">>)
    BY <1>1, <1>3
  <2>2. Sink(c) = c /\ c < N
    BY <2>1, SinkFacts
  <2>3. c + 1 \in Cmds /\ c + 1 > 1 /\ (c + 1) - 1 = c
    BY <1>0, <2>2 DEF Cmds
  <2>4. <<c, "r">> \notin pipe_list /\ <<c, "r">> \notin Holds(c + 1)
    BY <2>1, <2>2, <2>3 DEF Open
  <2>5. cpc[c + 1] # "forked"
    <3>1. SUFFICES ASSUME cpc[c + 1] = "forked" PROVE <<c, "r">> \in fds[c + 1]
      BY <2>4 DEF Holds, Alive
    <3>. QED
      BY <2>3, <3>1 DEF IInv, ChildEnds
  <2>6. cpc[c + 1] = "running" => Source(c + 1) # c
    <3>1. SUFFICES ASSUME cpc[c + 1] = "running", Source(c + 1) = c PROVE FALSE
      OBVIOUS
    <3>2. wired[c + 1].in = <<c, "r">>
      BY <2>3, <3>1, SinkFacts
    <3>. QED
      BY <2>4, <3>1, <3>2 DEF Holds, Alive
  <2>7. cpc[c + 1] = "none" => ppc = "gone" \/ (program.undo = "last" /\ ppc \in {"undo", "done"})
    <3>1. SUFFICES ASSUME cpc[c + 1] = "none", ppc # "gone"
                   PROVE  program.undo = "last" /\ ppc \in {"undo", "done"}
      OBVIOUS
    <3>2. program.undo # "all" /\ ppc \notin {"fork", "close"}
      BY <2>1, <2>2, <2>4, <3>1 DEF IInv, ReaderKept
    <3>3. program.undo = "last" /\ shell = "none"
      BY <3>2 DEF IInv, Shape
    <3>4. ppc # "reap"
      <4>1. SUFFICES ASSUME ppc = "reap" PROVE FALSE
        OBVIOUS
      <4>2. N = 2 /\ c + 1 = N
        BY <3>3, <2>2, <2>3 DEF IInv, Shape
      <4>. QED
        BY <4>1, <4>2, <3>1, <3>3 DEF IInv, Progress
    <3>. QED
      BY <3>1, <3>2, <3>3, <3>4 DEF IInv, Turns
  <2>. QED
    BY <1>1, <1>3, <2>2, <2>3, <2>5, <2>6, <2>7 DEF Source, Alive
<1>. QED
  BY <1>2, <1>3

\* Children end while the parent stays where it is.
LEMMA DeathStep ==
    ASSUME IInv, NEW S \in SUBSET Cmds, \A c \in S : Alive(c), NEW s \in Nat, DieAll(S, s),
           UNCHANGED <<program, line, cmd, ppc, pipe_list, ret, shell, spc, typed, rest, handled, act, sigint>>,
           failures' \in Nat, failures' >= failures,
           s = BrokenPipe => \A c \in S : cpc[c] = "running" /\ Sink(c) # 0 /\ ~Open(<<Sink(c), "r">>)
    PROVE  IInv'
<1>. USE CmdsFacts
<1>0. N \in Cmds /\ failures \in Nat
  BY DEF IInv, Shape
<1>1. /\ Shape' /\ N' = N
      /\ \A c \in Cmds : cpc[c] = "none" <=> cpc'[c] = "none"
      /\ \A c \in Cmds : Ended(c) <=> Ended(c)'
      /\ \A c \in Cmds : ~Ended(c) \/ (cpc'[c] = cpc[c] /\ status'[c] = status[c])
  BY DeathShape
<1>2. ChildEnds'
  BY DeathChildEnds
<1>3. Sigpipes'
  BY DeathSigpipes
<1>4. Turns'
  BY <1>1 DEF IInv, Turns
<1>5. ParentEnds'
  BY <1>0, <1>1 DEF IInv, ParentEnds
<1>6. AllEnded <=> AllEnded'
  BY <1>1 DEF AllEnded
<1>7. Progress'
  BY <1>0, <1>1, <1>6 DEF IInv, Progress
<1>8. ReaderKept'
  <2>1. \A c \in Cmds : c < N => c + 1 \in Cmds
    BY <1>0 DEF Cmds
  <2>. QED
    BY <1>1, <2>1 DEF IInv, ReaderKept
<1>9. Strtok'
  BY DEF IInv, Strtok, Stops
<1>10. HasRun => HasRun'
  BY <1>0, <1>1 DEF HasRun
<1>11. Reasons'
  <2>1. failures' = 0 => failures = 0
    BY <1>0
  <2>2. ppc = "done" /\ failures = 0 => status'[N] = status[N]
    BY <1>0, <1>1 DEF IInv, Progress, AllEnded
  <2>3. spc = "tokens" /\ act = QUIT => failures > 0 \/ status'[N] = status[N]
    BY <1>0, <1>1 DEF IInv, Progress, Turns, AllEnded
  <2>. QED
    BY <1>0, <1>1, <1>10, <2>1, <2>2, <2>3 DEF IInv, Reasons
<1>. QED
  BY <1>1, <1>2, <1>3, <1>4, <1>5, <1>7, <1>8, <1>9, <1>11 DEF IInv

\* Ctrl-C.
LEMMA InterruptStep == IInv /\ Interrupt => IInv'
<1>. SUFFICES ASSUME IInv, Interrupt PROVE IInv'
  OBVIOUS
<1>1. PICK S \in SUBSET {c \in Cmds : Alive(c)} : DieAll(S, Interrupted)
  BY DEF Interrupt
<1>2. S \in SUBSET Cmds /\ (\A c \in S : Alive(c)) /\ Interrupted \in Nat /\ Interrupted # BrokenPipe
  BY DEF Interrupted, BrokenPipe
<1>3. CASE sigint = "default"
  <2>1. /\ ppc' = "gone" /\ pipe_list' = {} /\ spc' = "over" /\ failures' = failures
        /\ UNCHANGED <<program, line, cmd, shell, typed, rest, handled, act, sigint>>
        /\ shell # "none"
    BY <1>3 DEF Interrupt, Leave
  <2>2. failures' \in Nat /\ N \in Cmds
    BY <2>1 DEF IInv, Shape
  <2>3. /\ Shape' /\ N' = N
        /\ \A c \in Cmds : cpc[c] = "none" <=> cpc'[c] = "none"
    BY <1>1, <1>2, <2>1, <2>2, DeathShape
  <2>4. ChildEnds'
    BY <1>1, <1>2, <2>1, <2>2, DeathChildEnds
  <2>5. Sigpipes'
    BY <1>1, <1>2, <2>1, <2>2, DeathSigpipes
  <2>6. Turns' /\ ParentEnds' /\ ReaderKept'
    BY <2>1 DEF IInv, Turns, ParentEnds, ReaderKept
  <2>7. Progress'
    BY <2>1, <2>3 DEF IInv, Progress
  <2>8. Strtok' /\ Reasons'
    BY <2>1 DEF IInv, Strtok, Stops, Reasons
  <2>. QED
    BY <2>3, <2>4, <2>5, <2>6, <2>7, <2>8 DEF IInv
<1>4. CASE sigint # "default"
  <2>1. /\ UNCHANGED <<program, line, cmd, ppc, pipe_list, ret, shell, spc, typed, rest, handled, act, sigint>>
        /\ failures' = failures
    BY <1>4 DEF Interrupt, parent
  <2>2. failures' \in Nat /\ failures' >= failures
    BY <2>1 DEF IInv, Shape
  <2>. QED
    BY <1>1, <1>2, <2>1, <2>2, DeathStep
<1>. QED
  BY <1>3, <1>4

\* One child ends: killed, a failing call, SIGPIPE, the end of its input, or early.
LEMMA ChildEndsStep ==
    ASSUME IInv, UNCHANGED session, NEW c \in Cmds, Alive(c), NEW s \in Nat, Dies(c, s),
           UNCHANGED <<program, line, parent>>, failures' \in Nat, failures' >= failures,
           s = BrokenPipe => cpc[c] = "running" /\ Sink(c) # 0 /\ ~Open(<<Sink(c), "r">>)
    PROVE  IInv'
<1>1. {c} \in SUBSET Cmds /\ (\A d \in {c} : Alive(d)) /\ DieAll({c}, s)
  BY DEF Dies
<1>2. UNCHANGED <<program, line, cmd, ppc, pipe_list, ret, shell, spc, typed, rest, handled, act, sigint>>
  BY DEF session, parent
<1>3. s = BrokenPipe => \A d \in {c} : cpc[d] = "running" /\ Sink(d) # 0 /\ ~Open(<<Sink(d), "r">>)
  OBVIOUS
<1>. QED
  BY <1>1, <1>2, <1>3, DeathStep

\* Steps that only move data leave every part of the invariant alone.
LEMMA DataStep ==
    ASSUME IInv, UNCHANGED session,
           UNCHANGED <<program, line, parent, cpc, fds, wired, status, failures>>
    PROVE  IInv'
<1>. USE DEF session, parent
<1>0. N' = N
  BY DEF N
<1>1. Shape' /\ Turns'
  BY <1>0 DEF IInv, Shape, Turns
<1>2. ParentEnds' /\ ReaderKept'
  BY <1>0 DEF IInv, ParentEnds, ReaderKept
<1>3. Progress'
  BY <1>0 DEF IInv, Progress, AllEnded, Ended
<1>4. ChildEnds'
  BY <1>0 DEF IInv, ChildEnds, PipeIn, PipeOut
<1>5. Sigpipes'
  BY <1>0 DEF IInv, Sigpipes, Source
<1>6. Strtok' /\ Reasons'
  BY <1>0 DEF IInv, Strtok, Stops, Reasons, HasRun
<1>. QED
  BY <1>1, <1>2, <1>3, <1>4, <1>5, <1>6 DEF IInv

-----------------------------------------------------------------------------
(* The parent's loop over the commands *)

LEMMA PipeFailsStep == IInv /\ spc = "run" /\ PipeFails /\ UNCHANGED session => IInv'
<1>. SUFFICES ASSUME IInv, spc = "run", PipeFails, UNCHANGED session PROVE IInv'
  OBVIOUS
<1>1. /\ ppc = "fork" /\ cmd < N /\ ret' = ExitFailure /\ ppc' = "done" /\ N' = N
      /\ UNCHANGED <<program, line, cmd, pipe_list, cpc, fds, wired, status,
                     shell, spc, typed, rest, handled, act, sigint>>
      /\ failures' > 0 /\ failures' \in Nat
  BY DEF PipeFails, Fails, child, session, N, IInv, Shape
<1>2. shell # "lab12"
  BY <1>1 DEF IInv, Shape
<1>3. Shape' /\ Turns' /\ ParentEnds'
  BY <1>1 DEF IInv, Shape, Turns, ParentEnds
<1>4. Progress'
  BY <1>1, <1>2 DEF IInv, Progress
<1>5. ChildEnds'
  BY <1>1 DEF IInv, ChildEnds, PipeIn, PipeOut
<1>6. ReaderKept' /\ Sigpipes'
  BY <1>1 DEF IInv, ReaderKept, Sigpipes, Source
<1>7. Strtok' /\ Reasons'
  BY <1>1 DEF IInv, Strtok, Stops, Reasons, HasRun
<1>. QED
  BY <1>3, <1>4, <1>5, <1>6, <1>7 DEF IInv

\* The ends of the new pipe.
LEMMA NewPipeFacts ==
    ASSUME IInv
    PROVE  /\ NewPipe \in SUBSET Ends
           /\ \A e \in NewPipe : Own(e) /\ cmd < N /\ (e = <<cmd, "r">> \/ e = <<cmd, "w">>)
           /\ cmd < N => <<cmd, "r">> \in NewPipe /\ <<cmd, "w">> \in NewPipe
<1>1. cmd \in Nat /\ cmd > 0 /\ N \in Nat
  BY CmdsFacts DEF IInv, Shape
<1>. QED
  BY <1>1 DEF NewPipe, Own, Ends

LEMMA ForkFailsStep == IInv /\ spc = "run" /\ ForkFails /\ UNCHANGED session => IInv'
<1>. SUFFICES ASSUME IInv, spc = "run", ForkFails, UNCHANGED session PROVE IInv'
  OBVIOUS
<1>. USE CmdsFacts
<1>0. N \in Cmds /\ N \in Nat /\ cmd \in 1..N /\ failures \in Nat /\ cmd \in Cmds
  BY DEF IInv, Shape, Cmds
<1>1. /\ ppc = "fork" /\ ret' = ExitFailure /\ cmd' = 1 /\ N' = N
      /\ UNCHANGED <<program, line, cpc, fds, wired, status,
                     shell, spc, typed, rest, handled, act, sigint>>
      /\ failures' > 0 /\ failures' \in Nat
  BY <1>0 DEF ForkFails, Fails, child, session, N
<1>2. \/ program.undo = "last" /\ pipe_list' = {} /\ ppc' = "undo"
      \/ program.undo = "all" /\ pipe_list' = pipe_list \cup NewPipe /\ ppc' = "reap"
  BY DEF ForkFails, IInv, Shape
<1>3. \A c \in Cmds : IF c < cmd THEN ~Ended(c) ELSE cpc[c] = "none"
  BY <1>1 DEF IInv, Progress
<1>4. cpc[N] = "none"
  BY <1>0, <1>3
<1>5. Shape'
  BY <1>0, <1>1, <1>2, NewPipeFacts DEF IInv, Shape
<1>6. Turns' /\ ParentEnds'
  BY <1>0, <1>1, <1>2, <1>4 DEF IInv, Shape, Turns, ParentEnds
<1>7. Progress'
  <2>1. program.undo = "last" => \A c \in Cmds : c > 1 => cpc[c] = "none"
    BY <1>0, <1>3 DEF IInv, Shape, Progress
  <2>2. \A c \in Cmds : c > N => cpc[c] = "none"
    BY DEF IInv, Progress
  <2>. QED
    BY <1>0, <1>1, <1>2, <2>1, <2>2 DEF Progress
<1>8. ChildEnds'
  BY <1>1 DEF IInv, ChildEnds, PipeIn, PipeOut
<1>9. ReaderKept'
  BY <1>1, <1>2 DEF IInv, ReaderKept
<1>10. Sigpipes'
  BY <1>1, <1>2 DEF IInv, Sigpipes, Source
<1>11. Strtok' /\ Reasons'
  BY <1>1, <1>2 DEF IInv, Strtok, Stops, Reasons, HasRun
<1>. QED
  BY <1>5, <1>6, <1>7, <1>8, <1>9, <1>10, <1>11 DEF IInv

LEMMA ForkStep == IInv /\ spc = "run" /\ Fork /\ UNCHANGED session => IInv'
<1>. SUFFICES ASSUME IInv, spc = "run", Fork, UNCHANGED session PROVE IInv'
  OBVIOUS
<1>. USE CmdsFacts
<1>0. N \in Cmds /\ N \in Nat /\ cmd \in 1..N /\ failures \in Nat /\ cmd \in Cmds /\ cmd \in Nat
  BY DEF IInv, Shape, Cmds
<1>1. /\ ppc = "fork" /\ ppc' = "close" /\ N' = N
      /\ pipe_list' = pipe_list \cup NewPipe
      /\ fds' = [fds EXCEPT ![cmd] = pipe_list'] /\ cpc' = [cpc EXCEPT ![cmd] = "forked"]
      /\ UNCHANGED <<program, line, cmd, wired, status, failures,
                     shell, spc, typed, rest, handled, act, sigint>>
  BY DEF Fork, session, N
<1>2. cpc \in [Cmds -> Places] /\ fds \in [Cmds -> SUBSET Ends] /\ pipe_list \in SUBSET Ends
  BY DEF IInv, Shape
<1>3. \A c \in Cmds : IF c < cmd THEN ~Ended(c) ELSE cpc[c] = "none"
  BY <1>1 DEF IInv, Progress
<1>4. \A e \in pipe_list : Own(e) =>
        cmd > 1 /\ (e = <<cmd - 1, "r">> \/ (program.undo = "last" /\ e = <<cmd - 1, "w">>))
  BY <1>1 DEF IInv, ParentEnds
<1>5. cmd > 1 => <<cmd - 1, "r">> \in pipe_list
  BY <1>1 DEF IInv, ParentEnds
<1>6. pipe_list' \in SUBSET Ends
  BY <1>1, <1>2, NewPipeFacts
<1>7. Shape'
  BY <1>0, <1>1, <1>2, <1>6 DEF IInv, Shape, Places
<1>8. Turns'
  BY <1>1 DEF IInv, Turns
<1>9. ParentEnds'
  BY <1>1, <1>4, <1>5, NewPipeFacts DEF IInv, ParentEnds
<1>10. cpc'[cmd] = "forked" /\ fds'[cmd] = pipe_list'
       /\ \A c \in Cmds : c # cmd => cpc'[c] = cpc[c] /\ fds'[c] = fds[c]
  BY <1>0, <1>1, <1>2
<1>11. Progress'
  <2>1. \A c \in Cmds : c > N => cpc[c] = "none"
    BY DEF IInv, Progress
  <2>2. ASSUME NEW c \in Cmds PROVE IF c <= cmd THEN ~Ended(c)' ELSE cpc'[c] = "none"
    <3>1. CASE c = cmd
      BY <1>0, <1>10, <3>1 DEF Ended
    <3>2. CASE c # cmd
      <4>1. cpc'[c] = cpc[c]
        BY <1>10, <3>2
      <4>2. c \in Nat /\ cmd \in Nat
        BY <1>0, CmdsFacts
      <4>3. c <= cmd => c < cmd
        BY <3>2, <4>2
      <4>. QED
        BY <1>0, <1>3, <4>1, <4>3 DEF Ended
    <3>. QED
      BY <3>1, <3>2
  <2>3. ASSUME NEW c \in Cmds, c > N PROVE cpc'[c] = "none"
    <3>1. c # cmd
      BY <1>0, <2>3
    <3>. QED
      BY <1>10, <2>1, <2>3, <3>1
  <2>. QED
    BY <1>1, <2>2, <2>3 DEF Progress
<1>12. ChildEnds'
  <2>1. \A c \in Cmds : PipeIn(c)' = PipeIn(c) /\ PipeOut(c)' = PipeOut(c) /\ ClosedByChild(c)' = ClosedByChild(c)
    BY <1>1 DEF PipeIn, PipeOut, ClosedByChild
  <2>2. \A e \in fds'[cmd] : Own(e) => e \in ClosedByChild(cmd)
    BY <1>1, <1>4, <1>10, NewPipeFacts DEF ClosedByChild
  <2>3. (cmd < N => <<cmd, "w">> \in fds'[cmd]) /\ (cmd > 1 => <<cmd - 1, "r">> \in fds'[cmd])
    BY <1>1, <1>5, <1>10, NewPipeFacts
  <2>. QED
    BY <1>0, <1>1, <1>10, <2>1, <2>2, <2>3 DEF IInv, ChildEnds
<1>13. ReaderKept'
  <2>1. SUFFICES ASSUME NEW c \in Cmds, c < N, cpc'[c] # "none", cpc'[c + 1] = "none"
                 PROVE  <<c, "r">> \in pipe_list'
    BY <1>1 DEF ReaderKept
  <2>2. c + 1 \in Cmds
    BY <1>0, <2>1 DEF Cmds
  <2>3. c = cmd
    BY <1>0, <1>3, <1>10, <2>1, <2>2 DEF Ended
  <2>. QED
    BY <1>1, <2>1, <2>3, NewPipeFacts
<1>14. Sigpipes'
  <2>1. SUFFICES ASSUME NEW c \in Cmds, status[c] = BrokenPipe
                 PROVE  /\ c < N /\ cpc'[c] # "none" /\ cpc'[c + 1] # "forked"
                        /\ cpc'[c + 1] = "running" => Source(c + 1)' # c
                        /\ cpc'[c + 1] # "none"
    BY <1>1 DEF Sigpipes
  <2>2. c < N /\ cpc[c] # "none" /\ cpc[c + 1] # "forked"
        /\ (cpc[c + 1] = "running" => Source(c + 1) # c) /\ cpc[c + 1] # "none"
    BY <1>1, <2>1 DEF IInv, Sigpipes
  <2>3. c + 1 \in Cmds
    BY <1>0, <2>2 DEF Cmds
  <2>4. c # cmd /\ c + 1 # cmd
    BY <1>0, <1>3, <2>2, <2>3
  <2>. QED
    BY <1>1, <1>10, <2>2, <2>3, <2>4 DEF Source
<1>15. Strtok' /\ Reasons'
  BY <1>1 DEF IInv, Strtok, Stops, Reasons, HasRun
<1>. QED
  BY <1>7, <1>8, <1>9, <1>11, <1>12, <1>13, <1>14, <1>15 DEF IInv

LEMMA ParentClosesStep == IInv /\ spc = "run" /\ ParentCloses /\ UNCHANGED session => IInv'
<1>. SUFFICES ASSUME IInv, spc = "run", ParentCloses, UNCHANGED session PROVE IInv'
  OBVIOUS
<1>. USE CmdsFacts
<1>0. N \in Cmds /\ N \in Nat /\ cmd \in 1..N /\ failures \in Nat /\ cmd \in Cmds /\ cmd \in Nat
      /\ pipe_list \in SUBSET Ends
  BY DEF IInv, Shape, Cmds
<1>1. /\ ppc = "close" /\ N' = N
      /\ pipe_list' = pipe_list \ ClosedByParent
      /\ UNCHANGED <<program, line, ret, cpc, fds, wired, status, failures,
                     shell, spc, typed, rest, handled, act, sigint>>
  BY DEF ParentCloses, session, child, N
<1>2. \/ cmd < N /\ cmd' = cmd + 1 /\ ppc' = "fork"
      \/ cmd = N /\ cmd' = 1 /\ ppc' = "reap"
  BY <1>0 DEF ParentCloses
<1>3. \A c \in Cmds : IF c <= cmd THEN ~Ended(c) ELSE cpc[c] = "none"
  BY <1>1 DEF IInv, Progress
<1>4. \A e \in pipe_list : Own(e) =>
         \/ cmd > 1 /\ (e = <<cmd - 1, "r">> \/ (program.undo = "last" /\ e = <<cmd - 1, "w">>))
         \/ cmd < N /\ (e = <<cmd, "r">> \/ e = <<cmd, "w">>)
  BY <1>1 DEF IInv, ParentEnds
<1>5. cmd < N => <<cmd, "r">> \in pipe_list'
  <2>1. SUFFICES ASSUME cmd < N PROVE <<cmd, "r">> \in pipe_list \ ClosedByParent
    BY <1>1
  <2>2. <<cmd, "r">> \in pipe_list
    BY <1>1, <2>1 DEF IInv, ParentEnds
  <2>3. <<cmd, "r">> # <<cmd, "w">> /\ <<cmd, "r">> # <<cmd - 1, "r">>
    BY <1>0
  <2>. QED
    BY <1>0, <2>1, <2>2, <2>3 DEF ClosedByParent
<1>6. cmd < N => \A e \in pipe_list' : Own(e) =>
         cmd' > 1 /\ (e = <<cmd, "r">> \/ (program.undo = "last" /\ e = <<cmd, "w">>))
  <2>1. CASE program.undo = "last"
    <3>1. cmd < N => cmd = 1
      BY <1>0, <2>1 DEF IInv, Shape
    <3>. QED
      BY <1>0, <1>1, <1>2, <1>4, <2>1, <3>1
  <2>2. CASE program.undo # "last"
    BY <1>0, <1>1, <1>2, <1>4, <2>2 DEF ClosedByParent
  <2>. QED
    BY <2>1, <2>2
<1>7. cmd = N => \A e \in pipe_list' : ~Own(e)
  BY <1>0, <1>1, <1>4 DEF ClosedByParent
<1>8. Shape'
  <2>1. cmd' \in 1..N
    BY <1>0, <1>2
  <2>. QED
    BY <1>1, <2>1 DEF IInv, Shape
<1>9. Turns'
  BY <1>1, <1>2 DEF IInv, Turns
<1>10. ParentEnds'
  <2>1. failures = 0 => \A e \in pipe_list' : Own(e)
    BY <1>1 DEF IInv, ParentEnds
  <2>2. cmd' > 1 /\ ppc' = "fork" => cmd' - 1 = cmd
    BY <1>0, <1>2
  <2>. QED
    BY <1>1, <1>2, <1>5, <1>6, <1>7, <2>1, <2>2 DEF ParentEnds
<1>11. Progress'
  <2>1. \A c \in Cmds : c > N => cpc[c] = "none"
    BY DEF IInv, Progress
  <2>2. cmd = N => cpc[N] # "none"
    BY <1>0, <1>3 DEF Ended
  <2>3. cmd < N => \A c \in Cmds : IF c < cmd + 1 THEN ~Ended(c) ELSE cpc[c] = "none"
    BY <1>0, <1>3
  <2>4. cmd = N => \A c \in Cmds : ~(c < 1)
    OBVIOUS
  <2>5. \A c \in Cmds : Ended(c)' = Ended(c)
    BY <1>1 DEF Ended
  <2>. QED
    BY <1>0, <1>1, <1>2, <2>1, <2>2, <2>3, <2>4, <2>5 DEF Progress
<1>12. ChildEnds'
  BY <1>1 DEF IInv, ChildEnds, PipeIn, PipeOut
<1>13. ReaderKept'
  <2>1. SUFFICES ASSUME NEW c \in Cmds, c < N, cpc[c] # "none", cpc[c + 1] = "none"
                 PROVE  <<c, "r">> \in pipe_list'
    BY <1>1, <1>2 DEF ReaderKept
  <2>2. c + 1 \in Cmds
    BY <1>0, <2>1 DEF Cmds
  <2>3. c = cmd
    BY <1>0, <1>3, <2>1, <2>2 DEF Ended
  <2>. QED
    BY <1>5, <2>1, <2>3
<1>14. Sigpipes'
  BY <1>1, <1>2 DEF IInv, Sigpipes, Source
<1>15. Strtok' /\ Reasons'
  BY <1>1, <1>2 DEF IInv, Strtok, Stops, Reasons, HasRun
<1>. QED
  BY <1>8, <1>9, <1>10, <1>11, <1>12, <1>13, <1>14, <1>15 DEF IInv

\* waitpid: a child that has ended is reaped; nothing else of the children changes.
LEMMA WaitFacts ==
    ASSUME IInv, Wait
    PROVE  /\ cpc' \in [Cmds -> Places]
           /\ \A c \in Cmds : cpc'[c] = "none" <=> cpc[c] = "none"
           /\ \A c \in Cmds : Ended(c) => Ended(c)'
           /\ \A c \in Cmds : cpc'[c] \in {"forked", "running"} => cpc'[c] = cpc[c]
           /\ cpc'[cmd] \in {"none", "reaped"} /\ cmd \in Cmds
<1>1. cmd \in Cmds /\ cpc \in [Cmds -> Places]
  BY CmdsFacts DEF IInv, Shape, Cmds
<1>2. cpc' = [cpc EXCEPT ![cmd] = IF @ = "none" THEN @ ELSE "reaped"] /\ cpc[cmd] \in {"none", "exited"}
  BY DEF Wait
<1>3. cpc'[cmd] = (IF cpc[cmd] = "none" THEN "none" ELSE "reaped") /\ \A c \in Cmds : c # cmd => cpc'[c] = cpc[c]
  BY <1>1, <1>2
<1>4. cpc' \in [Cmds -> Places]
  BY <1>1, <1>2 DEF Places
<1>5. ASSUME NEW c \in Cmds
      PROVE  /\ cpc'[c] = "none" <=> cpc[c] = "none"
             /\ Ended(c) => Ended(c)'
             /\ cpc'[c] \in {"forked", "running"} => cpc'[c] = cpc[c]
  <2>1. CASE c = cmd
    BY <1>2, <1>3, <2>1 DEF Ended
  <2>2. CASE c # cmd
    BY <1>3, <2>2 DEF Ended
  <2>. QED
    BY <2>1, <2>2
<1>6. cpc'[cmd] \in {"none", "reaped"}
  BY <1>3
<1>. QED
  BY <1>1, <1>4, <1>5, <1>6

LEMMA ReapStep == IInv /\ spc = "run" /\ (Reap \/ Undo) /\ UNCHANGED session => IInv'
<1>. SUFFICES ASSUME IInv, spc = "run", Reap \/ Undo, UNCHANGED session PROVE IInv'
  OBVIOUS
<1>. USE CmdsFacts
<1>0. N \in Cmds /\ N \in Nat /\ cmd \in 1..N /\ failures \in Nat /\ cmd \in Nat
  BY DEF IInv, Shape, Cmds
<1>1. /\ Wait /\ N' = N
      /\ UNCHANGED <<program, line, pipe_list, fds, wired, status, failures,
                     shell, spc, typed, rest, handled, act, sigint>>
  BY DEF Reap, Undo, Wait, session, N
<1>2. \/ /\ ppc = "reap" /\ cmd < N /\ ppc' = "reap" /\ cmd' = cmd + 1
      \/ /\ ppc = "reap" /\ cmd = N /\ ppc' = "done" /\ cmd' = cmd
         /\ ret' = IF cpc[N] = "none" THEN ret ELSE status[N]
      \/ ppc = "undo" /\ ppc' = "done" /\ cmd' = cmd
  BY <1>0 DEF Reap, Undo
<1>3. /\ cpc' \in [Cmds -> Places]
      /\ \A c \in Cmds : cpc'[c] = "none" <=> cpc[c] = "none"
      /\ \A c \in Cmds : Ended(c) => Ended(c)'
      /\ \A c \in Cmds : cpc'[c] \in {"forked", "running"} => cpc'[c] = cpc[c]
      /\ cpc'[cmd] \in {"none", "reaped"} /\ cmd \in Cmds
  BY <1>1, WaitFacts
<1>4. Shape'
  <2>1. cmd' \in 1..N
    BY <1>0, <1>2
  <2>. QED
    BY <1>1, <1>3, <2>1 DEF IInv, Shape
<1>5. Turns'
  BY <1>1, <1>2 DEF IInv, Turns
<1>6. ppc = "undo" => failures > 0
  BY DEF IInv, Progress
<1>7. ParentEnds'
  <2>1. failures = 0 /\ ppc = "reap" => pipe_list = {}
    BY <1>0 DEF IInv, ParentEnds, Progress
  <2>. QED
    BY <1>0, <1>1, <1>2, <1>3, <1>6, <2>1 DEF IInv, ParentEnds
<1>8. Progress'
  <2>1. \A c \in Cmds : c > N => cpc'[c] = "none"
    BY <1>3 DEF IInv, Progress
  <2>2. ASSUME ppc = "reap", NEW c \in Cmds, c < cmd + 1 PROVE Ended(c)'
    <3>1. CASE c = cmd
      BY <1>3, <3>1 DEF Ended
    <3>2. CASE c < cmd
      BY <1>3, <2>2, <3>2 DEF IInv, Progress
    <3>. QED
      BY <1>0, <2>2, <3>1, <3>2
  <2>3. ppc = "reap" /\ cmd = N => AllEnded'
    BY <1>0, <2>1, <2>2 DEF AllEnded, Ended
  <2>4. ASSUME ppc = "undo" PROVE AllEnded'
    <3>1. cmd = 1 /\ \A c \in Cmds : c > 1 => cpc'[c] = "none"
      BY <1>3, <2>4 DEF IInv, Progress, Turns
    <3>2. \A c \in Cmds : c = 1 \/ c > 1
      OBVIOUS
    <3>. QED
      BY <1>3, <3>1, <3>2 DEF AllEnded, Ended
  <2>5. ppc = "reap" /\ failures = 0 => cpc'[N] # "none"
    BY <1>0, <1>3 DEF IInv, Progress
  <2>6. ppc = "reap" /\ program.undo = "last" => cpc'[N] # "none"
    BY <1>0, <1>3 DEF IInv, Progress
  <2>. QED
    BY <1>0, <1>1, <1>2, <1>6, <2>1, <2>2, <2>3, <2>4, <2>5, <2>6 DEF Progress
<1>9. ChildEnds'
  <2>1. \A c \in Cmds : PipeIn(c)' = PipeIn(c) /\ PipeOut(c)' = PipeOut(c) /\ ClosedByChild(c)' = ClosedByChild(c)
    BY <1>1 DEF PipeIn, PipeOut, ClosedByChild
  <2>. QED
    BY <1>1, <1>3, <2>1 DEF IInv, ChildEnds
<1>10. \A c \in Cmds : c < N => c + 1 \in Cmds
  BY <1>0 DEF Cmds
<1>11. ReaderKept'
  BY <1>1, <1>2, <1>3, <1>10 DEF IInv, ReaderKept
<1>12. Sigpipes'
  <2>1. ppc' = "done" \/ ppc' = ppc
    BY <1>2
  <2>. QED
    BY <1>1, <1>2, <1>3, <1>10, <2>1 DEF IInv, Sigpipes, Source
<1>13. Strtok'
  BY <1>1 DEF IInv, Strtok, Stops
<1>14. Reasons'
  <2>1. ppc' = "done" /\ failures = 0 => ret' = status[N]
    BY <1>0, <1>2, <1>6 DEF IInv, Progress
  <2>2. HasRun'
    BY <1>1 DEF HasRun
  <2>. QED
    BY <1>1, <2>1, <2>2 DEF IInv, Reasons
<1>. QED
  BY <1>4, <1>5, <1>7, <1>8, <1>9, <1>11, <1>12, <1>13, <1>14 DEF IInv

-----------------------------------------------------------------------------
(* A child becomes its command *)

LEMMA ExecStep == ASSUME IInv, UNCHANGED session, NEW d \in Cmds, Exec(d) PROVE IInv'
<1>. USE CmdsFacts
<1>0. N \in Cmds /\ N \in Nat
  BY DEF IInv, Shape
<1>1. /\ cpc[d] = "forked" /\ N' = N
      /\ wired' = [wired EXCEPT ![d] = Wiring(d)]
      /\ fds' = [fds EXCEPT ![d] = fds[d] \ ClosedByChild(d)]
      /\ cpc' = [cpc EXCEPT ![d] = "running"]
      /\ UNCHANGED <<program, line, cmd, ppc, pipe_list, ret, status, failures,
                     shell, spc, typed, rest, handled, act, sigint>>
  BY DEF Exec, session, parent, N
<1>2. /\ cpc \in [Cmds -> Places] /\ fds \in [Cmds -> SUBSET Ends]
      /\ wired \in [Cmds -> [in : Ends, out : Ends]]
  BY DEF IInv, Shape
<1>3. /\ cpc'[d] = "running" /\ fds'[d] = fds[d] \ ClosedByChild(d) /\ wired'[d] = Wiring(d)
      /\ \A c \in Cmds : c # d => cpc'[c] = cpc[c] /\ fds'[c] = fds[c] /\ wired'[c] = wired[c]
  BY <1>1, <1>2
<1>4. \A c \in Cmds : (cpc'[c] = "none" <=> cpc[c] = "none") /\ (Ended(c)' <=> Ended(c))
  <2>1. ASSUME NEW c \in Cmds PROVE (cpc'[c] = "none" <=> cpc[c] = "none") /\ (Ended(c)' <=> Ended(c))
    <3>1. CASE c = d
      BY <1>1, <1>3, <3>1 DEF Ended
    <3>2. CASE c # d
      BY <1>3, <3>2 DEF Ended
    <3>. QED
      BY <3>1, <3>2
  <2>. QED
    BY <2>1
<1>5. Shape'
  <2>1. cpc' \in [Cmds -> Places] /\ fds' \in [Cmds -> SUBSET Ends]
    BY <1>1, <1>2 DEF Places
  <2>2. wired' \in [Cmds -> [in : Ends, out : Ends]]
    BY <1>1, <1>2, WiringFacts DEF IInv
  <2>. QED
    BY <1>1, <2>1, <2>2 DEF IInv, Shape
<1>6. Turns'
  BY <1>1 DEF IInv, Turns
<1>7. ParentEnds'
  BY <1>0, <1>1, <1>4 DEF IInv, ParentEnds
<1>8. AllEnded' <=> AllEnded
  BY <1>4 DEF AllEnded
<1>9. Progress'
  BY <1>0, <1>1, <1>4, <1>8 DEF IInv, Progress
<1>10. ChildEnds'
  <2>1. \A c \in Cmds : PipeIn(c)' = PipeIn(c) /\ PipeOut(c)' = PipeOut(c) /\ ClosedByChild(c)' = ClosedByChild(c)
    BY <1>1 DEF PipeIn, PipeOut, ClosedByChild
  <2>2. \A e \in fds'[d] : ~Own(e)
    BY <1>1, <1>3 DEF IInv, ChildEnds
  <2>3. /\ wired'[d].in \in {PipeIn(d), Terminal, File("r"), File("w")}
        /\ wired'[d].out \in {PipeOut(d), Terminal, File("w")}
    BY <1>3, WiringFacts DEF IInv
  <2>. QED
    BY <1>1, <1>3, <2>1, <2>2, <2>3 DEF IInv, ChildEnds
<1>11. \A c \in Cmds : c < N => c + 1 \in Cmds
  BY <1>0 DEF Cmds
<1>12. ReaderKept'
  BY <1>1, <1>4, <1>11 DEF IInv, ReaderKept
<1>13. Sigpipes'
  <2>1. SUFFICES ASSUME NEW c \in Cmds, status[c] = BrokenPipe
                 PROVE  /\ c < N /\ cpc'[c] # "none" /\ cpc'[c + 1] # "forked"
                        /\ cpc'[c + 1] = "running" => Source(c + 1)' # c
                        /\ cpc'[c + 1] = "none" => ppc = "gone" \/ (program.undo = "last" /\ ppc \in {"undo", "done"})
    BY <1>1 DEF Sigpipes
  <2>2. /\ c < N /\ cpc[c] # "none" /\ cpc[c + 1] # "forked"
        /\ cpc[c + 1] = "running" => Source(c + 1) # c
        /\ cpc[c + 1] = "none" => ppc = "gone" \/ (program.undo = "last" /\ ppc \in {"undo", "done"})
    BY <2>1 DEF IInv, Sigpipes
  <2>3. c + 1 \in Cmds /\ c + 1 # d
    BY <1>1, <1>11, <2>2
  <2>. QED
    BY <1>3, <1>4, <2>2, <2>3 DEF Source
<1>14. Strtok'
  BY <1>1 DEF IInv, Strtok, Stops
<1>15. Reasons'
  <2>1. HasRun => HasRun'
    BY <1>1, <1>4 DEF HasRun
  <2>. QED
    BY <1>1, <2>1 DEF IInv, Reasons
<1>. QED
  BY <1>5, <1>6, <1>7, <1>9, <1>10, <1>12, <1>13, <1>14, <1>15 DEF IInv

-----------------------------------------------------------------------------
(* Every step *)

LEMMA ChildStep == ASSUME IInv, UNCHANGED session, NEW c \in Cmds, Child(c) PROVE IInv'
<1>0. failures \in Nat
  BY DEF IInv, Shape
<1>1. CASE Exec(c)
  BY <1>1, ExecStep
<1>2. CASE ExecFails(c)
  <2>1. /\ Alive(c) /\ Dies(c, Exited1) /\ UNCHANGED <<program, line, parent>>
        /\ failures' \in Nat /\ failures' >= failures
    BY <1>0, <1>2 DEF ExecFails, Fails, Alive
  <2>2. Exited1 \in Nat /\ Exited1 # BrokenPipe
    BY DEF Exited1, BrokenPipe
  <2>. QED
    BY <2>1, <2>2, ChildEndsStep
<1>3. CASE Write(c)
  <2>1. CASE ~Open(<<Sink(c), "r">>) /\ Dies(c, BrokenPipe)
    <3>1. /\ cpc[c] = "running" /\ Sink(c) # 0 /\ Alive(c)
          /\ UNCHANGED <<program, line, parent>> /\ failures' = failures
      BY <1>3 DEF Write, Alive
    <3>2. BrokenPipe \in Nat /\ failures' \in Nat /\ failures' >= failures
      BY <1>0, <3>1 DEF BrokenPipe
    <3>. QED
      BY <2>1, <3>1, <3>2, ChildEndsStep
  <2>2. CASE UNCHANGED <<cpc, idx, fds, wired, status>>
    BY <1>3, <2>2, DataStep DEF Write
  <2>. QED
    BY <1>3, <2>1, <2>2 DEF Write
<1>4. CASE Spill(c) \/ Read(c)
  BY <1>4, DataStep DEF Spill, Read
<1>5. CASE Finish(c)
  <2>1. /\ Alive(c) /\ Dies(c, ExitSuccess) /\ UNCHANGED <<program, line, parent>>
        /\ failures' \in Nat /\ failures' >= failures
    BY <1>0, <1>5 DEF Finish, Alive
  <2>2. ExitSuccess \in Nat /\ ExitSuccess # BrokenPipe
    BY DEF ExitSuccess, BrokenPipe
  <2>. QED
    BY <2>1, <2>2, ChildEndsStep
<1>6. CASE LeaveEarly(c)
  <2>1. PICK s \in {ExitSuccess, Hangup} : Dies(c, s)
    BY <1>6 DEF LeaveEarly
  <2>2. /\ Alive(c) /\ UNCHANGED <<program, line, parent>>
        /\ failures' \in Nat /\ failures' >= failures
    BY <1>0, <1>6 DEF LeaveEarly, Alive
  <2>3. s \in Nat /\ s # BrokenPipe
    BY DEF ExitSuccess, Hangup, BrokenPipe
  <2>. QED
    BY <2>1, <2>2, <2>3, ChildEndsStep
<1>. QED
  BY <1>1, <1>2, <1>3, <1>4, <1>5, <1>6 DEF Child, Command

LEMMA KillStep == IInv /\ Kill /\ UNCHANGED session => IInv'
<1>. SUFFICES ASSUME IInv, Kill, UNCHANGED session PROVE IInv'
  OBVIOUS
<1>1. cmd \in Cmds /\ failures \in Nat
  BY CmdsFacts DEF IInv, Shape, Cmds
<1>2. /\ Alive(cmd) /\ Dies(cmd, Killed) /\ UNCHANGED <<program, line, parent>>
      /\ failures' \in Nat /\ failures' >= failures
  BY <1>1 DEF Kill, Alive
<1>3. Killed \in Nat /\ Killed # BrokenPipe
  BY DEF Killed, BrokenPipe
<1>. QED
  BY <1>1, <1>2, <1>3, ChildEndsStep

LEMMA StepIInv == IInv /\ [Next]_allvars => IInv'
<1>. SUFFICES ASSUME IInv, [Next]_allvars PROVE IInv'
  OBVIOUS
<1>1. CASE Shell
  BY <1>1, ReadLineStep, BuiltInStep, CmdTokenStep, CmdReturnsStep, EndStep, InterruptStep DEF Shell
<1>2. CASE spc = "run" /\ Parent /\ UNCHANGED session
  BY <1>2, PipeFailsStep, ForkStep, ForkFailsStep, ParentClosesStep, KillStep, ReapStep DEF Parent
<1>3. CASE shell = "none" /\ Return /\ UNCHANGED session
  BY <1>3, ReturnStep
<1>4. CASE (\E c \in Cmds : Child(c)) /\ UNCHANGED session
  BY <1>4, ChildStep
<1>5. CASE UNCHANGED allvars
  BY <1>5, DataStep DEF allvars, vars, child
<1>. QED
  BY <1>1, <1>2, <1>3, <1>4, <1>5 DEF Next, Program

\* The shells and pipelines keep their inductive invariant: where the two loops are,
\* which ends everybody has open, who can still read from whom, what strtok has left
\* and why parse_cmd returns what it does.
THEOREM Invariance == Spec => []IInv
<1>1. ShellInit => IInv
  BY InitIInv
<1>2. IInv /\ [Next]_allvars => IInv'
  BY StepIInv
<1>. QED
  BY <1>1, <1>2, PTL DEF Spec

\* No end of a pipe is left open where nobody uses it: commands run with their stdin
\* and stdout only, a parent that waits for the pipeline it has started has no end of
\* it, and the prompt comes back when every command has been reaped.
THEOREM NoEndsLeftOpen == Spec => []NoStrayEnds
<1>1. IInv => NoStrayEnds
  BY InvNoStrayEnds
<1>. QED
  BY <1>1, Invariance, PTL

\* End of file and SIGPIPE come from neighbours that have ended, in whatever order
\* parent and children close their ends.
THEOREM EndsComeFromNeighbours == Spec => []NoEarlyEnd
<1>1. IInv => NoEarlyEnd
  BY InvNoEarlyEnd
<1>. QED
  BY <1>1, Invariance, PTL

\* LAB_12 handles a line to its end or to `exit`; LAB_14 handles no token behind the
\* first one that is not built in, and all of those before it unless a bare cd fails.
THEOREM LinesAreHandled == Spec => []LineIsHandled
<1>1. IInv => LineIsHandled
  BY InvLineIsHandled
<1>. QED
  BY <1>1, Invariance, PTL

\* A step that may end a shell has one of the reasons LeavesForAReason names.
LEMMA ReasonStep ==
    ASSUME IInv, [Next]_allvars
    PROVE  /\ spc = "tokens" /\ spc' = "over" =>
                \/ act = FAIL
                \/ typed[handled].kind = "exit"
                \/ shell = "lab14" /\ (failures > 0 \/ status[N] = Hangup)
           /\ interrupts' # interrupts /\ spc' = "over" => shell = "lab14" /\ HasRun
<1>1. CASE EndOfLine
  BY <1>1 DEF EndOfLine, IInv, Reasons, Leave
<1>2. CASE Interrupt
  <2>1. spc # "tokens" /\ spc # "over"
    BY <1>2 DEF Interrupt
  <2>2. spc' = "over" => sigint = "default"
    BY <1>2, <2>1 DEF Interrupt
  <2>. QED
    BY <2>1, <2>2 DEF IInv, Reasons
<1>3. CASE EndOfInput
  BY <1>3 DEF EndOfInput
<1>4. CASE ReadLine \/ ExitToken \/ CdToken \/ BadToken \/ CmdToken \/ CmdReturns
  BY <1>4 DEF ReadLine, ExitToken, CdToken, BadToken, CmdToken, CmdReturns
<1>5. CASE UNCHANGED session
  BY <1>5 DEF session
<1>. QED
  BY <1>1, <1>2, <1>3, <1>4, <1>5 DEF Next, Shell, Program, allvars

\* A shell leaves because a line said so; that of LAB_14 also because of what
\* exec_cmd_list has returned, or on Ctrl-C once it has run a command.
THEOREM ShellsLeaveForAReason == Spec => LeavesForAReason
<1>1. IInv /\ [Next]_allvars =>
        [/\ spc = "tokens" /\ spc' = "over" =>
              \/ act = FAIL
              \/ typed[handled].kind = "exit"
              \/ shell = "lab14" /\ (failures > 0 \/ status[N] = Hangup)
         /\ interrupts' # interrupts /\ spc' = "over" => shell = "lab14" /\ HasRun]_allvars
  BY ReasonStep
<1>. QED
  BY <1>1, Invariance, PTL DEF Spec, LeavesForAReason

-----------------------------------------------------------------------------
(* What FlattenSeq makes of the redirections of a line *)

\* A set of numbers that is not empty has a smallest element.
LEMMA SmallestOf ==
    ASSUME NEW T \in SUBSET Nat, T # {}
    PROVE  \E x \in T : \A y \in T : x <= y
<1>. DEFINE R == OpToRel(<, Nat)
<1>1. IsWellFoundedOn(R, Nat)
  BY NatLessThanWellFounded
<1>2. PICK x \in T : \A y \in T : ~(<<y, x>> \in R)
  <2>. HIDE DEF R
  <2>. QED
    BY <1>1, WFMin
<1>3. \A y \in T : y < x => <<y, x>> \in R
  BY DEF OpToRel
<1>. HIDE DEF R
<1>4. \A y \in T : ~(y < x) /\ y \in Nat /\ x \in Nat
  BY <1>2, <1>3
<1>. QED
  BY <1>4

\* The function FlattenSeq is defined by exists: a least length for which it does not
\* would be one more than a length for which it does.
LEMMA FlatteningExists ==
    ASSUME NEW seqs, NEW n \in Nat
    PROVE  \E f : f = [i \in 1..n |-> IF i = 1 THEN seqs[i] ELSE f[i - 1] \o seqs[i]]
<1>. DEFINE Flat(m) == \E f : f = [i \in 1..m |-> IF i = 1 THEN seqs[i] ELSE f[i - 1] \o seqs[i]]
            T == {m \in Nat : ~Flat(m)}
<1>1. ASSUME T # {} PROVE FALSE
  <2>1. PICK m \in T : \A k \in T : m <= k
    <3>. HIDE DEF T
    <3>1. T \in SUBSET Nat
      BY DEF T
    <3>. QED
      BY <1>1, <3>1, SmallestOf
  <2>2. CASE m = 0
    <3>. DEFINE f == [i \in 1..m |-> seqs[i]]
    <3>1. f = [i \in 1..m |-> IF i = 1 THEN seqs[i] ELSE f[i - 1] \o seqs[i]]
      BY <2>2
    <3>. QED
      BY <2>1, <3>1
  <2>3. CASE m # 0
    <3>1. m \in Nat /\ m - 1 \in Nat /\ ~(m <= m - 1)
      BY <2>3
    <3>a. m - 1 \notin T
      BY <2>1, <3>1
    <3>2. PICK f : f = [i \in 1..m - 1 |-> IF i = 1 THEN seqs[i] ELSE f[i - 1] \o seqs[i]]
      BY <3>1, <3>a
    <3>. DEFINE next == IF m = 1 THEN seqs[m] ELSE f[m - 1] \o seqs[m]
                g == [i \in 1..m |-> IF i = m THEN next ELSE f[i]]
    <3>3. \A i \in 1..m : g[i] = IF i = 1 THEN seqs[i] ELSE g[i - 1] \o seqs[i]
      <4>1. SUFFICES ASSUME NEW i \in 1..m PROVE g[i] = IF i = 1 THEN seqs[i] ELSE g[i - 1] \o seqs[i]
        OBVIOUS
      <4>2. m \in Nat /\ i \in Nat
        OBVIOUS
      <4>3. i # 1 => i - 1 \in 1..m /\ i - 1 # m /\ g[i - 1] = f[i - 1]
        BY <4>2
      <4>4. CASE i = m
        BY <4>2, <4>3, <4>4
      <4>5. CASE i # m
        <5>1. i \in 1..m - 1 /\ g[i] = f[i]
          BY <4>2, <4>5
        <5>2. f[i] = IF i = 1 THEN seqs[i] ELSE f[i - 1] \o seqs[i]
          BY <3>2, <5>1
        <5>. QED
          BY <4>3, <5>1, <5>2
      <4>. QED
        BY <4>4, <4>5
    <3>4. DOMAIN g = 1..m /\ g = [i \in 1..m |-> g[i]]
      OBVIOUS
    <3>. HIDE DEF g
    <3>5. g = [i \in 1..m |-> IF i = 1 THEN seqs[i] ELSE g[i - 1] \o seqs[i]]
      BY <3>3, <3>4
    <3>. QED
      BY <2>1, <3>5
  <2>. QED
    BY <2>2, <2>3
<1>. QED
  BY <1>1

\* FlattenSeq appends one sequence after the other.
LEMMA FlattenFacts ==
    ASSUME NEW seqs, NEW n \in Nat \ {0}, Len(seqs) = n
    PROVE  \E f : /\ FlattenSeq(seqs) = f[n] /\ f[1] = seqs[1]
                  /\ \A i \in 2..n : f[i] = f[i - 1] \o seqs[i]
<1>. DEFINE f == CHOOSE g : g = [i \in 1..Len(seqs) |-> IF i = 1 THEN seqs[i] ELSE g[i - 1] \o seqs[i]]
<1>1. f = [i \in 1..Len(seqs) |-> IF i = 1 THEN seqs[i] ELSE f[i - 1] \o seqs[i]]
  BY FlatteningExists
<1>2. FlattenSeq(seqs) = f[n]
  BY DEF FlattenSeq
<1>. HIDE DEF f
<1>3. f[1] = seqs[1] /\ \A i \in 2..n : f[i] = f[i - 1] \o seqs[i]
  <2>1. ASSUME NEW i \in 1..n PROVE f[i] = IF i = 1 THEN seqs[i] ELSE f[i - 1] \o seqs[i]
    BY <1>1
  <2>2. 1 \in 1..n /\ \A i \in 2..n : i \in 1..n /\ i # 1
    OBVIOUS
  <2>. QED
    BY <2>1, <2>2
<1>. QED
  BY <1>2, <1>3

\* s lists the redirections of the first n commands of line l: those of a command stand
\* together, in the order they were typed in, and behind those of the commands before it.
Listing(s, l, n) ==
    /\ s \in Seq([cmd : 1..n, direct : {"r", "w"}])
    /\ \A i, j \in 1..Len(s) : i <= j => s[i].cmd <= s[j].cmd
    /\ \A c \in 1..n : \E o \in 0..Len(s) :
         /\ o + Len(l[c]) <= Len(s)
         /\ \A j \in 1..Len(s) : s[j].cmd = c <=> o < j /\ j <= o + Len(l[c])
         /\ \A i \in 1..Len(l[c]) : s[o + i].direct = l[c][i]

\* A command has up to two redirections.
LEMMA RedirectionFacts ==
    ASSUME NEW r \in Redirections
    PROVE  r \in Seq({"r", "w"}) /\ Len(r) \in 0..2
<1>1. r = <<>> \/ r = <<"r">> \/ r = <<"w">> \/ r = <<"r", "w">> \/ r = <<"w", "r">>
  BY DEF Redirections
<1>2. CASE r = <<>>
  BY <1>2
<1>3. CASE r = <<"r">>
  BY <1>3
<1>4. CASE r = <<"w">>
  BY <1>4
<1>5. CASE r = <<"r", "w">>
  BY <1>5
<1>6. CASE r = <<"w", "r">>
  BY <1>6
<1>. QED
  BY <1>1, <1>2, <1>3, <1>4, <1>5, <1>6

\* The redirections of one command more are appended to a listing.
LEMMA ListingGrows ==
    ASSUME NEW l \in Seq(Redirections), NEW n \in Nat, n + 1 <= Len(l), NEW s, Listing(s, l, n)
    PROVE  Listing(s \o [j \in DOMAIN l[n + 1] |-> [cmd |-> n + 1, direct |-> l[n + 1][j]]], l, n + 1)
<1>. DEFINE t == [j \in DOMAIN l[n + 1] |-> [cmd |-> n + 1, direct |-> l[n + 1][j]]]
            Entry == [cmd : 1..n + 1, direct : {"r", "w"}]
<1>1. l[n + 1] \in Seq({"r", "w"}) /\ Len(l[n + 1]) \in Nat
  BY RedirectionFacts
<1>2. t \in Seq(Entry) /\ Len(t) = Len(l[n + 1])
      /\ \A j \in 1..Len(t) : t[j] = [cmd |-> n + 1, direct |-> l[n + 1][j]]
  <2>1. DOMAIN l[n + 1] = 1..Len(l[n + 1])
    BY <1>1
  <2>2. t \in [1..Len(l[n + 1]) -> Entry]
    BY <1>1, <2>1
  <2>. QED
    BY <1>1, <2>1, <2>2
<1>3. s \in Seq(Entry) /\ Len(s) \in Nat /\ \A j \in 1..Len(s) : s[j].cmd \in 1..n
  <2>1. [cmd : 1..n, direct : {"r", "w"}] \subseteq Entry
    OBVIOUS
  <2>2. s \in Seq([cmd : 1..n, direct : {"r", "w"}])
    BY DEF Listing
  <2>3. Len(s) \in Nat /\ s \in [1..Len(s) -> [cmd : 1..n, direct : {"r", "w"}]]
    BY <2>2, LenProperties
  <2>. HIDE DEF Entry
  <2>4. s \in [1..Len(s) -> Entry]
    BY <2>1, <2>3
  <2>5. s \in Seq(Entry)
    BY <2>3, <2>4, SeqDef
  <2>. QED
    BY <2>3, <2>5
<1>. DEFINE u == s \o t
<1>. HIDE DEF t, Entry
<1>4. /\ u \in Seq(Entry) /\ Len(u) = Len(s) + Len(l[n + 1]) /\ Len(u) \in Nat
      /\ \A j \in 1..Len(s) : u[j] = s[j]
      /\ \A i \in 1..Len(l[n + 1]) : u[Len(s) + i].cmd = n + 1 /\ u[Len(s) + i].direct = l[n + 1][i]
  <2>1. u \in Seq(Entry) /\ Len(u) = Len(s) + Len(t)
        /\ \A j \in 1..Len(s) + Len(t) : u[j] = IF j <= Len(s) THEN s[j] ELSE t[j - Len(s)]
    <3>1. t \in Seq(Entry) /\ s \in Seq(Entry)
      BY <1>2, <1>3
    <3>. QED
      BY ONLY <3>1, ConcatProperties, Zenon
  <2>. HIDE DEF u
  <2>2. Len(t) \in Nat
    BY <1>1, <1>2
  <2>3. ASSUME NEW j \in 1..Len(s) PROVE u[j] = s[j]
    BY <1>3, <2>1, <2>2
  <2>4. ASSUME NEW i \in 1..Len(t) PROVE u[Len(s) + i] = t[i]
    <3>1. Len(s) + i \in 1..Len(s) + Len(t) /\ ~(Len(s) + i <= Len(s)) /\ (Len(s) + i) - Len(s) = i
      BY <1>3, <2>2
    <3>. QED
      BY <2>1, <3>1
  <2>5. Len(u) \in Nat
    BY <1>3, <2>1, <2>2
  <2>6. ASSUME NEW i \in 1..Len(l[n + 1])
        PROVE  u[Len(s) + i].cmd = n + 1 /\ u[Len(s) + i].direct = l[n + 1][i]
    <3>0. i \in 1..Len(t) /\ t[i] = [cmd |-> n + 1, direct |-> l[n + 1][i]]
      BY <1>2, Zenon
    <3>1. i \in 1..Len(t) /\ t[i].cmd = n + 1 /\ t[i].direct = l[n + 1][i]
      BY <3>0
    <3>2. u[Len(s) + i] = t[i]
      BY <2>4, <3>1, Zenon
    <3>. QED
      BY ONLY <3>1, <3>2, Zenon
  <2>7. Len(u) = Len(s) + Len(l[n + 1])
    BY <1>2, <2>1
  <2>. QED
    BY <2>1, <2>3, <2>5, <2>6, <2>7, Zenon
<1>. HIDE DEF u
<1>5. \A j \in 1..Len(u) : IF j <= Len(s) THEN j \in 1..Len(s) /\ u[j] = s[j] ELSE u[j].cmd = n + 1
  <2>1. ASSUME NEW j \in 1..Len(u), ~(j <= Len(s)) PROVE u[j].cmd = n + 1
    <3>1. PICK i \in 1..Len(l[n + 1]) : j = Len(s) + i
      <4>1. j - Len(s) \in 1..Len(l[n + 1]) /\ j = Len(s) + (j - Len(s))
        BY <1>1, <1>3, <1>4, <2>1
      <4>. QED
        BY <4>1
    <3>2. u[Len(s) + i].cmd = n + 1
      BY <1>4, Zenon
    <3>. QED
      BY <3>1, <3>2, Zenon
  <2>. QED
    BY <1>3, <1>4, <2>1
<1>6. \A i, j \in 1..Len(u) : i <= j => u[i].cmd <= u[j].cmd
  <2>1. SUFFICES ASSUME NEW i \in 1..Len(u), NEW j \in 1..Len(u), i <= j PROVE u[i].cmd <= u[j].cmd
    OBVIOUS
  <2>2. CASE j <= Len(s)
    <3>1. i <= Len(s)
      BY <1>3, <1>4, <2>1, <2>2
    <3>. QED
      BY <1>5, <2>1, <2>2, <3>1 DEF Listing
  <2>3. CASE ~(j <= Len(s)) /\ i <= Len(s)
    <3>1. u[j].cmd = n + 1 /\ u[i].cmd \in 1..n
      BY <1>3, <1>5, <2>3
    <3>. QED
      BY <3>1
  <2>4. CASE ~(j <= Len(s)) /\ ~(i <= Len(s))
    BY <1>5, <2>4
  <2>. QED
    BY <2>2, <2>3, <2>4
<1>7. ASSUME NEW c \in 1..n + 1
      PROVE  \E o \in 0..Len(u) :
               /\ o + Len(l[c]) <= Len(u)
               /\ \A j \in 1..Len(u) : u[j].cmd = c <=> o < j /\ j <= o + Len(l[c])
               /\ \A i \in 1..Len(l[c]) : u[o + i].direct = l[c][i]
  <2>1. CASE c = n + 1
    <3>1. Len(s) \in 0..Len(u) /\ Len(s) + Len(l[c]) <= Len(u)
      BY <1>1, <1>3, <1>4, <2>1
    <3>2. \A j \in 1..Len(u) : u[j].cmd = c <=> Len(s) < j /\ j <= Len(s) + Len(l[c])
      <4>1. SUFFICES ASSUME NEW j \in 1..Len(u)
                     PROVE  u[j].cmd = c <=> Len(s) < j /\ j <= Len(s) + Len(l[c])
        OBVIOUS
      <4>2. j <= Len(s) + Len(l[c]) /\ (Len(s) < j <=> ~(j <= Len(s)))
        BY <1>1, <1>3, <1>4, <2>1
      <4>3. j <= Len(s) => u[j].cmd \in 1..n
        BY <1>3, <1>5
      <4>4. u[j].cmd = c <=> ~(j <= Len(s))
        BY <1>5, <2>1, <4>3
      <4>. QED
        BY <4>2, <4>4
    <3>3. \A i \in 1..Len(l[c]) : u[Len(s) + i].direct = l[c][i]
      <4>1. \A i \in 1..Len(l[n + 1]) : u[Len(s) + i].direct = l[n + 1][i]
        BY <1>4, Zenon
      <4>. QED
        BY <2>1, <4>1, Zenon
    <3>. QED
      BY <3>1, <3>2, <3>3
  <2>2. CASE c # n + 1
    <3>1. c \in 1..n /\ c \in 1..Len(l) /\ Len(l[c]) \in Nat
      BY <2>2, RedirectionFacts
    <3>2. PICK o \in 0..Len(s) :
            /\ o + Len(l[c]) <= Len(s)
            /\ \A j \in 1..Len(s) : s[j].cmd = c <=> o < j /\ j <= o + Len(l[c])
            /\ \A i \in 1..Len(l[c]) : s[o + i].direct = l[c][i]
      BY <3>1 DEF Listing
    <3>3. o \in 0..Len(u) /\ o + Len(l[c]) <= Len(u)
      BY <1>1, <1>3, <1>4, <3>1, <3>2
    <3>4. \A j \in 1..Len(u) : u[j].cmd = c <=> o < j /\ j <= o + Len(l[c])
      <4>1. SUFFICES ASSUME NEW j \in 1..Len(u) PROVE u[j].cmd = c <=> o < j /\ j <= o + Len(l[c])
        OBVIOUS
      <4>2. CASE j <= Len(s)
        BY <1>5, <3>2, <4>2
      <4>3. CASE ~(j <= Len(s))
        <5>1. u[j].cmd = n + 1 /\ u[j].cmd # c
          BY <1>5, <2>2, <4>3
        <5>2. ~(j <= o + Len(l[c]))
          BY <1>3, <3>1, <3>2, <4>3
        <5>. QED
          BY <5>1, <5>2
      <4>. QED
        BY <4>2, <4>3
    <3>5. \A i \in 1..Len(l[c]) : u[o + i].direct = l[c][i]
      <4>1. ASSUME NEW i \in 1..Len(l[c]) PROVE o + i \in 1..Len(s)
        BY <1>3, <3>1, <3>2
      <4>. QED
        BY <1>4, <3>2, <4>1
    <3>. QED
      BY <3>3, <3>4, <3>5
  <2>. QED
    BY <2>1, <2>2
<1>8. Listing(u, l, n + 1)
  BY <1>4, <1>6, <1>7 DEF Listing, Entry
<1>. QED
  BY <1>8 DEF u, t

\* What main or parse_cmd makes of a line lists its redirections.
LEMMA ToFromLists ==
    ASSUME NEW l \in Seq(Redirections), Len(l) # 0
    PROVE  Listing(ToFrom(l), l, Len(l))
<1>. DEFINE part(c) == [j \in DOMAIN l[c] |-> [cmd |-> c, direct |-> l[c][j]]]
            seqs == [c \in DOMAIN l |-> part(c)]
<1>1. Len(l) \in Nat \ {0} /\ DOMAIN l = 1..Len(l)
  OBVIOUS
<1>2. Len(seqs) = Len(l) /\ \A c \in 1..Len(l) : seqs[c] = part(c)
  <2>. HIDE DEF part
  <2>. QED
    BY <1>1
<1>3. ToFrom(l) = FlattenSeq(seqs)
  BY DEF ToFrom
<1>. HIDE DEF seqs
<1>4. PICK f : /\ ToFrom(l) = f[Len(l)] /\ f[1] = part(1)
               /\ \A i \in 2..Len(l) : f[i] = f[i - 1] \o part(i)
  <2>. HIDE DEF part
  <2>1. 1 \in 1..Len(l) /\ \A i \in 2..Len(l) : i \in 1..Len(l)
    BY <1>1
  <2>2. \E f : /\ FlattenSeq(seqs) = f[Len(l)] /\ f[1] = seqs[1]
               /\ \A i \in 2..Len(l) : f[i] = f[i - 1] \o seqs[i]
    BY <1>1, <1>2, FlattenFacts
  <2>3. PICK f : /\ FlattenSeq(seqs) = f[Len(l)] /\ f[1] = seqs[1]
                 /\ \A i \in 2..Len(l) : f[i] = f[i - 1] \o seqs[i]
    BY <2>2
  <2>4. f[1] = part(1) /\ ToFrom(l) = f[Len(l)]
    BY <1>2, <1>3, <2>1, <2>3, Zenon
  <2>5. \A i \in 2..Len(l) : f[i] = f[i - 1] \o part(i)
    BY <1>2, <2>1, <2>3, Zenon
  <2>. QED
    BY <2>4, <2>5, Zenon
<1>5. Listing(<<>>, l, 0)
  BY DEF Listing
<1>6. Listing(f[1], l, 1)
  <2>1. Listing(<<>> \o part(1), l, 1)
    <3>1. 0 + 1 <= Len(l) /\ 0 + 1 = 1
      BY <1>1
    <3>. QED
      BY <1>5, <3>1, ListingGrows
  <2>2. part(1) \in Seq([cmd : {1}, direct : {"r", "w"}])
    <3>1. l[1] \in Seq({"r", "w"})
      BY <1>1, RedirectionFacts
    <3>2. Len(l[1]) \in Nat /\ DOMAIN l[1] = 1..Len(l[1]) /\ \A j \in 1..Len(l[1]) : l[1][j] \in {"r", "w"}
      BY <3>1
    <3>3. part(1) \in [1..Len(l[1]) -> [cmd : {1}, direct : {"r", "w"}]]
      BY <3>2
    <3>. HIDE DEF part
    <3>4. \A S : \A m \in Nat : \A x \in [1..m -> S] : x \in Seq(S)
      BY SeqDef
    <3>. QED
      BY ONLY <3>2, <3>3, <3>4
  <2>3. <<>> \o part(1) = part(1)
    <3>. HIDE DEF part
    <3>. QED
      BY <2>2, ConcatEmptySeq
  <2>. QED
    BY <1>4, <2>1, <2>3
<1>. DEFINE T == {m \in 1..Len(l) : ~Listing(f[m], l, m)}
<1>7. ASSUME T # {} PROVE FALSE
  <2>1. PICK m \in T : \A k \in T : m <= k
    <3>1. T \in SUBSET Nat
      BY <1>1
    <3>. HIDE DEF T
    <3>. QED
      BY <1>7, <3>1, SmallestOf
  <2>2. m \in 1..Len(l) /\ m # 1
    BY <1>6
  <2>3. m - 1 \in 1..Len(l) /\ ~(m <= m - 1) /\ m \in 2..Len(l) /\ m - 1 \in Nat
        /\ (m - 1) + 1 = m /\ (m - 1) + 1 <= Len(l)
    BY <1>1, <2>2
  <2>4. Listing(f[m - 1], l, m - 1)
    BY <2>1, <2>3
  <2>5. Listing(f[m - 1] \o part((m - 1) + 1), l, (m - 1) + 1)
    BY <2>3, <2>4, ListingGrows
  <2>6. f[m] = f[m - 1] \o part(m)
    <3>. HIDE DEF part
    <3>. QED
      BY <1>4, <2>3
  <2>. QED
    BY <2>1, <2>3, <2>5, <2>6
<1>. QED
  BY <1>1, <1>4, <1>7

-----------------------------------------------------------------------------
(* The redirections reach the commands they were typed for *)

\* Index k is where the redirections of command c and of those behind it begin, if
\* they have any.
Points(k, c) ==
    \/ \A j \in 1..Len(to_from) : k <= j <=> c <= to_from[j].cmd
    \/ \A j \in 1..Len(to_from) : to_from[j].cmd < c

\* to_from is the list of what was typed; a program that knows no redirections, and a
\* shell, is given none.
Lists ==
    /\ line \in Seq(Redirections)
    /\ Listing(to_from, line, N)
    /\ program.redirs = "none" => \A c \in 1..N : line[c] = <<>>
    /\ \A i \in 1..Len(typed) : \A c \in 1..Len(typed[i].line) : typed[i].line[c] = <<>>

\* The parent's index points at the command the loop is at, and the copy a child has
\* inherited at that child's.
Indices ==
    /\ redir_idx \in Nat \ {0} /\ idx \in [Cmds -> Nat \ {0}]
    /\ AllReach =>
         /\ ppc \in {"fork", "close"} => Points(redir_idx, cmd)
         /\ \A c \in Cmds : cpc[c] = "forked" => Points(idx[c], c)

Redirected == Lists /\ Indices /\ WiredAsTyped

\* What a listing says of one command.
LEMMA Entries ==
    ASSUME Lists, NEW c \in 1..N
    PROVE  /\ N \in Nat /\ line[c] \in Redirections /\ Len(line[c]) \in 0..2
           /\ to_from \in Seq([cmd : 1..N, direct : {"r", "w"}])
           /\ Len(to_from) \in Nat /\ DOMAIN to_from = 1..Len(to_from)
           /\ \A j \in 1..Len(to_from) : to_from[j].cmd \in 1..N
           /\ line[c] = <<>> => \A j : ~Belongs(j, c)
           /\ line[c] # <<>> => Len(line[c]) # 0
<1>1. N \in Nat /\ line[c] \in Redirections
  BY DEF Lists, N
<1>2. to_from \in Seq([cmd : 1..N, direct : {"r", "w"}])
  BY DEF Lists, Listing
<1>3. /\ Len(to_from) \in Nat /\ DOMAIN to_from = 1..Len(to_from)
      /\ \A j \in 1..Len(to_from) : to_from[j].cmd \in 1..N
  <2>1. Len(to_from) \in Nat /\ DOMAIN to_from = 1..Len(to_from)
        /\ to_from \in [1..Len(to_from) -> [cmd : 1..N, direct : {"r", "w"}]]
    BY ONLY <1>2, LenProperties
  <2>. QED
    BY <2>1
<1>4. Len(line[c]) \in 0..2 /\ (line[c] # <<>> => Len(line[c]) # 0)
  BY <1>1, RedirectionFacts
<1>5. ASSUME line[c] = <<>>, NEW j, Belongs(j, c) PROVE FALSE
  <2>1. PICK o \in 0..Len(to_from) :
          \A i \in 1..Len(to_from) : to_from[i].cmd = c <=> o < i /\ i <= o + Len(line[c])
    BY DEF Lists, Listing
  <2>2. j \in 1..Len(to_from) /\ to_from[j].cmd = c
    BY <1>3, <1>5 DEF Belongs
  <2>3. Len(line[c]) = 0
    BY <1>5
  <2>. QED
    BY <1>3, <2>1, <2>2, <2>3
<1>. QED
  BY <1>1, <1>2, <1>3, <1>4, <1>5

\* An index that points at a command with redirections is that of its first one.
LEMMA FirstEntry ==
    ASSUME Lists, NEW c \in 1..N, line[c] # <<>>, NEW k \in Nat \ {0}, Points(k, c)
    PROVE  /\ \A j : Belongs(j, c) <=> j = k \/ (Len(line[c]) = 2 /\ j = k + 1)
           /\ to_from[k].direct = line[c][1]
           /\ Len(line[c]) = 2 => to_from[k + 1].direct = line[c][2]
           /\ \A j \in 1..Len(to_from) : k <= j <=> c <= to_from[j].cmd
<1>1. /\ N \in Nat /\ Len(line[c]) \in 1..2
      /\ Len(to_from) \in Nat /\ DOMAIN to_from = 1..Len(to_from)
      /\ \A j \in 1..Len(to_from) : to_from[j].cmd \in 1..N
  BY Entries
<1>2. PICK o \in 0..Len(to_from) :
        /\ o + Len(line[c]) <= Len(to_from)
        /\ \A j \in 1..Len(to_from) : to_from[j].cmd = c <=> o < j /\ j <= o + Len(line[c])
        /\ \A i \in 1..Len(line[c]) : to_from[o + i].direct = line[c][i]
  BY DEF Lists, Listing
<1>3. o + 1 \in 1..Len(to_from) /\ o < o + 1 /\ o + 1 <= o + Len(line[c])
  BY <1>1, <1>2
<1>4. to_from[o + 1].cmd = c
  BY <1>2, <1>3
<1>5. \A j \in 1..Len(to_from) : k <= j <=> c <= to_from[j].cmd
  BY <1>1, <1>3, <1>4 DEF Points
<1>6. k <= o + 1
  BY <1>3, <1>4, <1>5
<1>7. k \in 1..Len(to_from) /\ c <= to_from[k].cmd
  BY <1>1, <1>3, <1>5, <1>6
<1>8. to_from[k].cmd <= to_from[o + 1].cmd
  BY <1>3, <1>6, <1>7 DEF Lists, Listing
<1>9. to_from[k].cmd = c
  BY <1>1, <1>4, <1>7, <1>8
<1>10. k = o + 1
  BY <1>2, <1>6, <1>7, <1>9
<1>11. \A j : Belongs(j, c) <=> j = k \/ (Len(line[c]) = 2 /\ j = k + 1)
  <2>1. ASSUME NEW j, Belongs(j, c) PROVE j = k \/ (Len(line[c]) = 2 /\ j = k + 1)
    <3>1. j \in 1..Len(to_from) /\ to_from[j].cmd = c
      BY <1>1, <2>1 DEF Belongs
    <3>2. j \in Nat /\ o < j /\ j <= o + Len(line[c]) /\ o \in Nat
      BY <1>1, <1>2, <3>1
    <3>3. PICK m \in 1..2 : m = Len(line[c])
      BY <1>1
    <3>4. j <= o + m
      BY <3>2, <3>3, Zenon
    <3>5. j = k \/ (m = 2 /\ j = k + 1)
      BY ONLY <1>10, <3>2, <3>4, m \in 1..2
    <3>. QED
      BY <3>3, <3>5, Zenon
  <2>2. ASSUME NEW j, j = k \/ (Len(line[c]) = 2 /\ j = k + 1) PROVE Belongs(j, c)
    <3>1. j \in 1..Len(to_from) /\ o < j /\ j <= o + Len(line[c])
      <4>1. PICK m \in 1..2 : m = Len(line[c])
        BY <1>1
      <4>2. o + m <= Len(to_from) /\ (j = k \/ (m = 2 /\ j = k + 1))
        BY <1>2, <2>2, <4>1, Zenon
      <4>3. j \in 1..Len(to_from) /\ o < j /\ j <= o + m
        BY ONLY <1>1, <1>10, <4>2, m \in 1..2, o \in 0..Len(to_from)
      <4>. QED
        BY <4>1, <4>3, Zenon
    <3>. QED
      BY <1>1, <1>2, <3>1 DEF Belongs
  <2>. QED
    BY <2>1, <2>2
<1>12. to_from[k].direct = line[c][1]
  <2>1. 1 \in 1..Len(line[c])
    BY <1>1
  <2>2. to_from[o + 1].direct = line[c][1]
    BY <1>2, <2>1, Zenon
  <2>. QED
    BY <1>10, <2>2, Zenon
<1>13. ASSUME Len(line[c]) = 2 PROVE to_from[k + 1].direct = line[c][2]
  <2>1. 2 \in 1..Len(line[c]) /\ o + 2 = k + 1
    BY <1>10, <1>13
  <2>2. to_from[o + 2].direct = line[c][2]
    BY <1>2, <2>1, Zenon
  <2>. QED
    BY <2>1, <2>2, Zenon
<1>. QED
  BY <1>5, <1>11, <1>12, <1>13

\* The parent's index moves on to the next command's redirections.
LEMMA NextRedirPoints ==
    ASSUME Lists, cmd \in 1..N, redir_idx \in Nat \ {0}
    PROVE  /\ NextRedir \in Nat \ {0}
           /\ AllReach /\ Points(redir_idx, cmd) => Points(NextRedir, cmd + 1)
<1>. DEFINE k == redir_idx
            past == IF Belongs(k, cmd) THEN k + 1 ELSE k
<1>1. /\ N \in Nat /\ line[cmd] \in Redirections /\ Len(line[cmd]) \in 0..2
      /\ Len(to_from) \in Nat
      /\ \A j \in 1..Len(to_from) : to_from[j].cmd \in 1..N
      /\ line[cmd] = <<>> => \A j : ~Belongs(j, cmd)
      /\ line[cmd] # <<>> => Len(line[cmd]) # 0
  BY Entries
<1>2. /\ NextRedir \in {past, past + 1} /\ past \in {k, k + 1}
      /\ ~Belongs(past + 1, cmd) => NextRedir = past
  BY DEF NextRedir
<1>3. NextRedir \in Nat \ {0}
  BY <1>2
<1>4. ASSUME AllReach, Points(k, cmd) PROVE Points(NextRedir, cmd + 1)
  <2>1. CASE \A j \in 1..Len(to_from) : to_from[j].cmd < cmd
    <3>1. \A j \in 1..Len(to_from) : to_from[j].cmd < cmd + 1
      BY <1>1, <2>1
    <3>. QED
      BY <3>1 DEF Points
  <2>2. CASE line[cmd] = <<>> /\ \A j \in 1..Len(to_from) : k <= j <=> cmd <= to_from[j].cmd
    <3>1. NextRedir = k
      BY <1>1, <1>2, <2>2
    <3>2. \A j \in 1..Len(to_from) : to_from[j].cmd # cmd
      <4>1. DOMAIN to_from = 1..Len(to_from)
        BY Entries
      <4>. QED
        BY <1>1, <2>2, <4>1 DEF Belongs
    <3>3. \A j \in 1..Len(to_from) : cmd <= to_from[j].cmd <=> cmd + 1 <= to_from[j].cmd
      BY <1>1, <3>2
    <3>. QED
      BY <2>2, <3>1, <3>3 DEF Points
  <2>3. CASE Len(line[cmd]) = 1
    <3>1. line[cmd] # <<>>
      BY <2>3
    <3>2. /\ \A j : Belongs(j, cmd) <=> j = k \/ (Len(line[cmd]) = 2 /\ j = k + 1)
          /\ \A j \in 1..Len(to_from) : k <= j <=> cmd <= to_from[j].cmd
      BY <1>4, <3>1, FirstEntry
    <3>3. \A j : Belongs(j, cmd) <=> j = k
      BY <2>3, <3>2
    <3>4. NextRedir = k + 1
      <4>1. past = k + 1 /\ k + 2 # k
        BY <3>3
      <4>2. ~Belongs(past + 1, cmd)
        BY <3>3, <4>1
      <4>. QED
        BY <1>2, <4>1, <4>2
    <3>5. \A j \in 1..Len(to_from) : to_from[j].cmd = cmd <=> j = k
      <4>1. DOMAIN to_from = 1..Len(to_from)
        BY Entries
      <4>. QED
        BY <3>3, <4>1 DEF Belongs
    <3>6. \A j \in 1..Len(to_from) : k + 1 <= j <=> cmd + 1 <= to_from[j].cmd
      BY <1>1, <3>2, <3>5
    <3>. QED
      BY <3>4, <3>6 DEF Points
  <2>4. CASE Len(line[cmd]) = 2
    <3>1. \A d \in 1..N : cmd < d => line[d] = <<>>
      BY <1>4, <2>4 DEF AllReach
    <3>2. ASSUME NEW j \in 1..Len(to_from) PROVE to_from[j].cmd < cmd + 1
      <4>1. to_from[j].cmd \in 1..N
        BY <1>1
      <4>2. Belongs(j, to_from[j].cmd)
        BY Entries DEF Belongs
      <4>3. line[to_from[j].cmd] # <<>>
        BY <4>1, <4>2, Entries
      <4>. QED
        BY <1>1, <3>1, <4>1, <4>3
    <3>. QED
      BY <3>2 DEF Points
  <2>. QED
    BY <1>1, <1>4, <2>1, <2>2, <2>3, <2>4 DEF Points
<1>. QED
  BY <1>3, <1>4

\* The redirections a child of pipe4 or pipe5 applies are those typed for it.
LEMMA OwnRedirsTyped ==
    ASSUME Lists, NEW c \in 1..N, idx[c] \in Nat \ {0}, Points(idx[c], c)
    PROVE  OwnRedirs(c) = Range(line[c])
<1>. DEFINE k == idx[c]
<1>1. /\ line[c] \in Redirections
      /\ line[c] = <<>> => \A j : ~Belongs(j, c)
  BY Entries
<1>2. ASSUME NEW x
      PROVE  x \in OwnRedirs(c) <=> \E j \in DOMAIN to_from :
               x = to_from[j].direct /\ j >= k /\ \A i \in k..j : Belongs(i, c)
  BY DEF OwnRedirs
<1>3. \A j \in DOMAIN to_from : j \in Nat
  BY Entries
<1>4. CASE line[c] = <<>>
  <2>1. ASSUME NEW j \in DOMAIN to_from, j >= k, \A i \in k..j : Belongs(i, c) PROVE FALSE
    <3>1. j \in k..j
      BY <1>3, <2>1
    <3>. QED
      BY <1>1, <1>4, <2>1, <3>1
  <2>2. Range(line[c]) = {}
    BY <1>4 DEF Range
  <2>. QED
    BY <1>2, <2>1, <2>2
<1>5. CASE line[c] # <<>>
  <2>1. /\ \A j : Belongs(j, c) <=> j = k \/ (Len(line[c]) = 2 /\ j = k + 1)
        /\ to_from[k].direct = line[c][1]
        /\ Len(line[c]) = 2 => to_from[k + 1].direct = line[c][2]
    BY <1>5, FirstEntry
  <2>2. Range(line[c]) = {line[c][1]} \cup (IF Len(line[c]) = 2 THEN {line[c][2]} ELSE {})
    BY <1>1, <1>5 DEF Range, Redirections
  <2>3. ASSUME NEW x \in OwnRedirs(c) PROVE x \in Range(line[c])
    <3>1. PICK j \in DOMAIN to_from :
            x = to_from[j].direct /\ j >= k /\ \A i \in k..j : Belongs(i, c)
      BY <1>2
    <3>2. Belongs(j, c)
      <4>1. j \in k..j
        BY <1>3, <3>1
      <4>. QED
        BY <3>1, <4>1
    <3>3. x = line[c][1] \/ (Len(line[c]) = 2 /\ x = line[c][2])
      BY <2>1, <3>1, <3>2, Zenon
    <3>. QED
      BY <2>2, <3>3
  <2>4. line[c][1] \in OwnRedirs(c)
    <3>1. k \in DOMAIN to_from
      BY <2>1 DEF Belongs
    <3>2. k >= k /\ \A i \in k..k : Belongs(i, c)
      <4>1. \A i \in k..k : i = k
        OBVIOUS
      <4>. QED
        BY <2>1, <4>1
    <3>. QED
      BY <1>2, <2>1, <3>1, <3>2
  <2>5. ASSUME Len(line[c]) = 2 PROVE line[c][2] \in OwnRedirs(c)
    <3>1. k + 1 \in DOMAIN to_from
      BY <2>1, <2>5 DEF Belongs
    <3>2. k + 1 >= k /\ \A i \in k..k + 1 : Belongs(i, c)
      <4>1. \A i \in k..k + 1 : i = k \/ i = k + 1
        OBVIOUS
      <4>. QED
        BY <2>1, <2>5, <4>1
    <3>. QED
      BY <1>2, <2>1, <2>5, <3>1, <3>2
  <2>. QED
    BY <2>2, <2>3, <2>4, <2>5
<1>. QED
  BY <1>4, <1>5

\* What dup2 and open do to stdin and stdout is what was typed.
LEMMA WiringTyped ==
    ASSUME Lists, AllReach, program.redirs \in {"none", "loop", "pair"},
           NEW c \in 1..N, idx[c] \in Nat \ {0}, Points(idx[c], c)
    PROVE  /\ Wiring(c).in = IF "r" \in Range(line[c]) THEN File("r") ELSE PipeIn(c)
           /\ Wiring(c).out = IF "w" \in Range(line[c]) THEN File("w") ELSE PipeOut(c)
<1>0. /\ line[c] \in Redirections
      /\ line[c] = <<>> => \A j : ~Belongs(j, c)
  BY Entries
<1>1. CASE program.redirs = "none"
  <2>1. line[c] = <<>>
    BY <1>1 DEF Lists
  <2>2. Range(line[c]) = {}
    BY <2>1 DEF Range
  <2>. QED
    BY <1>1, <2>2 DEF Wiring
<1>2. CASE program.redirs = "loop"
  BY <1>2, OwnRedirsTyped DEF Wiring, WiredByLoop
<1>3. CASE program.redirs = "pair"
  <2>. DEFINE k == idx[c]
              first == IF Belongs(k, c) THEN to_from[k].direct ELSE "none"
              second == IF first # "none" /\ Belongs(k + 1, c) THEN to_from[k + 1].direct ELSE "none"
  <2>1. Wiring(c) =
          [in |-> CASE second = "r" -> File("w")
                    [] second # "r" /\ first = "r" -> File("r")
                    [] OTHER -> PipeIn(c),
           out |-> CASE second = "w" -> File("w")
                     [] second # "w" /\ first = "w" /\ ~(1 < c /\ c < N) -> File("w")
                     [] OTHER -> PipeOut(c)]
    BY <1>3, Zenon DEF Wiring, WiredByPair
  <2>2. CASE line[c] = <<>>
    <3>1. first = "none" /\ second = "none"
      BY <1>0, <2>2
    <3>2. Range(line[c]) = {}
      BY <2>2 DEF Range
    <3>. HIDE DEF first, second
    <3>. QED
      BY <2>1, <3>1, <3>2
  <2>3. CASE line[c] # <<>>
    <3>1. /\ \A j : Belongs(j, c) <=> j = k \/ (Len(line[c]) = 2 /\ j = k + 1)
          /\ to_from[k].direct = line[c][1]
          /\ Len(line[c]) = 2 => to_from[k + 1].direct = line[c][2]
      BY <2>3, FirstEntry
    <3>2. k + 1 # k
      OBVIOUS
    <3>3. line[c] # <<"w", "r">> /\ (1 < c /\ c < N => line[c] # <<"w">>)
      BY <1>3 DEF AllReach
    <3>4. CASE line[c] = <<"r">>
      <4>1. Len(line[c]) # 2 /\ line[c][1] = "r" /\ Range(line[c]) = {"r"}
        BY <3>4 DEF Range
      <4>2. first = "r" /\ second = "none"
        BY <3>1, <3>2, <4>1
      <4>. HIDE DEF first, second
      <4>. QED
        BY <2>1, <4>1, <4>2
    <3>5. CASE line[c] = <<"w">>
      <4>1. Len(line[c]) # 2 /\ line[c][1] = "w" /\ Range(line[c]) = {"w"}
        BY <3>5 DEF Range
      <4>2. first = "w" /\ second = "none" /\ ~(1 < c /\ c < N)
        BY <3>1, <3>2, <3>3, <3>5, <4>1
      <4>. HIDE DEF first, second
      <4>. QED
        BY <2>1, <4>1, <4>2
    <3>6. CASE line[c] = <<"r", "w">>
      <4>1. Len(line[c]) = 2 /\ line[c][1] = "r" /\ line[c][2] = "w" /\ Range(line[c]) = {"r", "w"}
        BY <3>6 DEF Range
      <4>2. first = "r" /\ second = "w"
        BY <3>1, <4>1
      <4>. HIDE DEF first, second
      <4>. QED
        BY <2>1, <4>1, <4>2
    <3>. QED
      BY <1>0, <2>3, <3>3, <3>4, <3>5, <3>6 DEF Redirections
  <2>. QED
    BY <2>2, <2>3
<1>. QED
  BY <1>1, <1>2, <1>3

\* The list changes with the line only.
LEMMA ListsKept ==
    ASSUME Lists, UNCHANGED <<program, line, to_from, typed>>
    PROVE  Lists'
<1>1. N' = N
  BY DEF N
<1>2. Listing(to_from, line, N) => Listing(to_from, line, N)'
  BY <1>1 DEF Listing
<1>. QED
  BY <1>1, <1>2 DEF Lists

\* Steps that fork nobody, run nothing new and leave the index alone.
LEMMA RedirectedKept ==
    ASSUME Redirected, UNCHANGED <<program, line, to_from, typed, redir_idx, idx>>,
           ppc' \in {"fork", "close"} => ppc \in {"fork", "close"} /\ cmd' = cmd,
           \A c \in Cmds : /\ cpc'[c] = "forked" => cpc[c] = "forked"
                           /\ cpc'[c] = "running" => cpc[c] = "running" /\ wired'[c] = wired[c],
           N \in Cmds
    PROVE  Redirected'
<1>1. N' = N /\ (AllReach' <=> AllReach) /\ \A c : c \in 1..N => c \in Cmds
  BY CmdsFacts DEF N, AllReach, Cmds
<1>2. \A k, c : Points(k, c)' <=> Points(k, c)
  BY DEF Points
<1>3. Lists'
  BY ListsKept DEF Redirected
<1>4. Indices'
  BY <1>1, <1>2 DEF Redirected, Indices, Points
<1>5. WiredAsTyped'
  <2>1. \A c : PipeIn(c)' = PipeIn(c) /\ PipeOut(c)' = PipeOut(c)
    BY <1>1 DEF PipeIn, PipeOut
  <2>. QED
    BY <1>1, <2>1 DEF Redirected, WiredAsTyped
<1>. QED
  BY <1>3, <1>4, <1>5 DEF Redirected

\* A line that has just been given to a program.
LEMMA FreshLine ==
    ASSUME NEW l \in Seq(Redirections), Len(l) \in Cmds
    PROVE  Listing(ToFrom(l), l, Len(l))
<1>1. Len(l) # 0
  BY CmdsFacts
<1>. QED
  BY <1>1, ToFromLists

\* The index that starts at the first redirection points at the first command.
LEMMA FirstPoints ==
    ASSUME Lists PROVE Points(1, 1)
<1>1. \A j \in 1..Len(to_from) : to_from[j].cmd \in 1..N
  <2>1. Len(to_from) \in Nat /\ to_from \in [1..Len(to_from) -> [cmd : 1..N, direct : {"r", "w"}]]
    BY LenProperties DEF Lists, Listing
  <2>. QED
    BY <2>1
<1>2. \A j \in 1..Len(to_from) : 1 <= j /\ 1 <= to_from[j].cmd
  BY <1>1
<1>. QED
  BY <1>2 DEF Points

\* The lines of CommandLines, and what a program that knows no redirections is given.
LEMMA CommandLineFacts ==
    ASSUME NEW pl \in CommandLines
    PROVE  /\ pl[2] \in Seq(Redirections) /\ Len(pl[2]) \in Cmds
           /\ pl[1].redirs = "none" => \A c \in 1..Len(pl[2]) : pl[2][c] = <<>>
<1>1. \A n \in Cmds, m \in Nat : \A l \in LinesOf(n, m) : l \in Seq(Redirections) /\ Len(l) = n
  BY LineLength, CmdsFacts
<1>2. ASSUME NEW n \in Cmds, NEW l \in LinesOf(n, 0) PROVE \A c \in 1..Len(l) : l[c] = <<>>
  BY <1>1, CmdsFacts DEF LinesOf
<1>3. CASE pl \in {Pipe2} \X Pipe2Lines
  BY <1>1, <1>2, <1>3, CmdsFacts DEF Pipe2Lines
<1>4. CASE pl \in {Pipe3} \X Pipe3Lines
  BY <1>1, <1>2, <1>4, CmdsFacts DEF Pipe3Lines
<1>5. CASE pl \in {Pipe4} \X Pipe4Lines
  BY <1>1, <1>5, CmdsFacts DEF Pipe4Lines, Pipe4
<1>6. CASE pl \in {Pipe5} \X Pipe5Lines
  BY <1>1, <1>6, CmdsFacts DEF Pipe5Lines, Pipe5
<1>7. CASE pl \in {Pipe6} \X Pipe6Lines
  BY <1>1, <1>7, CmdsFacts DEF Pipe6Lines, Pipe6
<1>8. CASE pl \in {Pipe7} \X Pipe7Lines
  BY <1>1, <1>8, CmdsFacts DEF Pipe7Lines, Pipe7
<1>. QED
  BY <1>3, <1>4, <1>5, <1>6, <1>7, <1>8 DEF CommandLines

LEMMA InitRedirected == ShellInit => Redirected
<1>. SUFFICES ASSUME ShellInit PROVE Redirected
  OBVIOUS
<1>1. PICK p, l, place :
        /\ Fresh(p, l, place) /\ l \in Seq(Redirections) /\ Len(l) \in Cmds
        /\ p.redirs = "none" => \A c \in 1..Len(l) : l[c] = <<>>
  <2>1. Nothing \in Seq(Redirections) /\ Len(Nothing) \in Cmds /\ \A c \in 1..Len(Nothing) : Nothing[c] = <<>>
    BY NothingFacts, CmdsFacts DEF Nothing
  <2>. QED
    BY <2>1, CommandLineFacts DEF ShellInit
<1>2. /\ line = l /\ to_from = ToFrom(l) /\ program = p /\ cmd = 1 /\ redir_idx = 1
      /\ idx = [c \in Cmds |-> 1] /\ cpc = [c \in Cmds |-> "none"] /\ N = Len(l)
  BY <1>1 DEF Fresh, N
<1>3. Lists
  <2>1. typed = <<>>
    BY DEF ShellInit
  <2>2. Listing(to_from, line, N)
    BY <1>1, <1>2, FreshLine
  <2>. QED
    BY <1>1, <1>2, <2>1, <2>2 DEF Lists
<1>4. Indices
  BY <1>2, <1>3, FirstPoints DEF Indices
<1>5. WiredAsTyped
  BY <1>1, <1>2, CmdsFacts DEF WiredAsTyped, Cmds
<1>. QED
  BY <1>3, <1>4, <1>5 DEF Redirected

\* The tokens of a line carry no redirections.
LEMMA ReadLineRedirected ==
    ASSUME IInv, Redirected, ReadLine PROVE Redirected'
<1>1. UNCHANGED <<program, line, to_from, redir_idx, idx, ppc, cmd, cpc, wired>>
  BY DEF ReadLine, vars, parent, child
<1>2. N' = N /\ N \in Cmds /\ (AllReach' <=> AllReach)
  BY <1>1 DEF N, AllReach, IInv, Shape
<1>3. PICK n \in 1..MaxTokens : \E t \in [1..n -> Tokens] : typed' = t /\ rest' = t
  BY DEF ReadLine
<1>4. \A i \in 1..Len(typed') : typed'[i] \in Tokens
  <2>1. n \in Nat /\ typed' \in [1..n -> Tokens]
    BY <1>3, SessionAssumption
  <2>2. typed' \in Seq(Tokens)
    BY <2>1, SeqDef
  <2>. QED
    BY <2>2
<1>5. ASSUME NEW t \in Tokens, NEW c \in 1..Len(t.line) PROVE t.line[c] = <<>>
  <2>1. Nothing[1] = <<>> /\ Len(Nothing) = 1
    BY DEF Nothing
  <2>2. ASSUME NEW n1 \in Cmds, NEW l \in LinesOf(n1, 0) PROVE \A d \in 1..Len(l) : l[d] = <<>>
    <3>1. Len(l) = n1
      BY LineLength, CmdsFacts
    <3>. QED
      BY <3>1, CmdsFacts DEF LinesOf
  <2>3. t.line = Nothing \/ t.line \in LinesOf(1, 0) \cup LinesOf(MaxCmds, 0)
    BY DEF Tokens, BuiltIn, Token
  <2>. QED
    BY <1>5, <2>1, <2>2, <2>3, CmdsFacts DEF Cmds
<1>6. Lists'
  BY <1>1, <1>2, <1>4, <1>5 DEF Redirected, Lists, Listing
<1>7. Indices'
  BY <1>1, <1>2 DEF Redirected, Indices, Points
<1>8. WiredAsTyped'
  BY <1>1, <1>2 DEF Redirected, WiredAsTyped, PipeIn, PipeOut
<1>. QED
  BY <1>6, <1>7, <1>8 DEF Redirected

\* A shell starts on a command.
LEMMA CmdTokenRedirected ==
    ASSUME IInv, Redirected, CmdToken PROVE Redirected'
<1>1. /\ handled + 1 \in 1..Len(typed) /\ Head(rest) = typed[handled + 1]
      /\ Head(rest) \in CommandToken
  BY NextToken DEF CmdToken, NextIs, IInv
<1>. DEFINE l == Head(rest).line
<1>2. l \in Seq(Redirections) /\ Len(l) \in Cmds
  BY <1>1 DEF CommandToken
<1>3. \A c \in 1..Len(l) : l[c] = <<>>
  BY <1>1 DEF Redirected, Lists
<1>4. /\ line' = l /\ to_from' = ToFrom(l) /\ cmd' = 1 /\ redir_idx' = 1 /\ typed' = typed
      /\ idx' = [c \in Cmds |-> 1] /\ cpc' = [c \in Cmds |-> "none"] /\ N' = Len(l)
  BY DEF CmdToken, Restart, N
<1>. HIDE DEF l
<1>5. Lists'
  <2>1. Listing(ToFrom(l), l, Len(l))
    BY <1>2, FreshLine
  <2>2. Listing(to_from, line, N)'
    BY <1>4, <2>1 DEF Listing
  <2>. QED
    BY <1>2, <1>3, <1>4, <2>2 DEF Redirected, Lists
<1>6. Points(redir_idx, cmd)'
  <2>1. \A j \in 1..Len(to_from') : to_from'[j].cmd \in 1..N'
    <3>1. to_from' \in Seq([cmd : 1..N', direct : {"r", "w"}])
      BY <1>5 DEF Lists, Listing
    <3>2. Len(to_from') \in Nat /\ to_from' \in [1..Len(to_from') -> [cmd : 1..N', direct : {"r", "w"}]]
      BY ONLY <3>1, LenProperties
    <3>. QED
      BY <3>2
  <2>2. \A j \in 1..Len(to_from') : 1 <= j /\ 1 <= to_from'[j].cmd
    BY <2>1
  <2>. QED
    BY <1>4, <2>2 DEF Points
<1>7. Indices'
  BY <1>4, <1>6 DEF Indices
<1>8. WiredAsTyped'
  BY <1>2, <1>4, CmdsFacts DEF WiredAsTyped, Cmds
<1>. QED
  BY <1>5, <1>7, <1>8 DEF Redirected

\* A child inherits the index the parent has reached.
LEMMA ForkRedirected ==
    ASSUME IInv, Redirected, Fork, UNCHANGED session PROVE Redirected'
<1>0. cmd \in Cmds /\ N \in Cmds /\ cpc \in [Cmds -> Places] /\ idx \in [Cmds -> Nat \ {0}]
      /\ redir_idx \in Nat \ {0}
  BY CmdsFacts DEF IInv, Shape, Cmds, Redirected, Indices
<1>1. /\ UNCHANGED <<program, line, to_from, cmd, redir_idx, wired, typed>>
      /\ ppc = "fork" /\ ppc' = "close"
      /\ idx' = [idx EXCEPT ![cmd] = redir_idx] /\ cpc' = [cpc EXCEPT ![cmd] = "forked"]
  BY DEF Fork, session
<1>2. N' = N /\ (AllReach' <=> AllReach)
  BY <1>1 DEF N, AllReach
<1>3. \A k, c : Points(k, c)' <=> Points(k, c)
  BY <1>1 DEF Points
<1>4. /\ idx'[cmd] = redir_idx /\ cpc'[cmd] = "forked"
      /\ \A c \in Cmds : c # cmd => idx'[c] = idx[c] /\ cpc'[c] = cpc[c]
      /\ idx' \in [Cmds -> Nat \ {0}]
  BY <1>0, <1>1
<1>5. Lists'
  BY <1>1, ListsKept DEF Redirected
<1>6. Indices'
  <2>1. ASSUME AllReach
        PROVE  Points(redir_idx, cmd) /\ \A c \in Cmds : cpc'[c] = "forked" => Points(idx'[c], c)
    BY <1>1, <1>4, <2>1 DEF Redirected, Indices
  <2>2. \A c \in Cmds : Points(idx'[c], c) => Points(idx[c], c)'
    BY <1>1 DEF Points
  <2>3. Points(redir_idx, cmd) => Points(redir_idx, cmd)'
    BY <1>1 DEF Points
  <2>. QED
    BY <1>0, <1>1, <1>2, <1>4, <2>1, <2>2, <2>3 DEF Indices
<1>7. WiredAsTyped'
  <2>1. \A c \in 1..N : c \in Cmds
    BY <1>0, CmdsFacts DEF Cmds
  <2>2. \A c \in 1..N : cpc'[c] = "running" => cpc[c] = "running"
    BY <1>4, <2>1
  <2>. QED
    BY <1>1, <1>2, <2>2 DEF Redirected, WiredAsTyped, PipeIn, PipeOut
<1>. QED
  BY <1>5, <1>6, <1>7 DEF Redirected

\* The parent moves its index on.
LEMMA ParentClosesRedirected ==
    ASSUME IInv, Redirected, ParentCloses, UNCHANGED session PROVE Redirected'
<1>0. cmd \in 1..N /\ N \in Cmds /\ N \in Nat /\ redir_idx \in Nat \ {0} /\ Lists
  BY CmdsFacts DEF IInv, Shape, Redirected, Indices
<1>1. /\ UNCHANGED <<program, line, to_from, idx, cpc, wired, typed>>
      /\ ppc = "close" /\ redir_idx' = NextRedir
      /\ \/ ppc' = "fork" /\ cmd' = cmd + 1
         \/ ppc' = "reap" /\ cmd' = 1
  BY DEF ParentCloses, session, child
<1>2. N' = N /\ (AllReach' <=> AllReach)
  BY <1>1 DEF N, AllReach
<1>3. Lists'
  BY <1>1, ListsKept DEF Redirected
<1>4. Indices'
  <2>1. redir_idx' \in Nat \ {0} /\ (AllReach => Points(redir_idx', cmd + 1))
    BY <1>0, <1>1, NextRedirPoints DEF Redirected, Indices
  <2>2. Points(redir_idx', cmd + 1) /\ cmd' = cmd + 1 => Points(redir_idx, cmd)'
    BY <1>1 DEF Points
  <2>3. \A c \in Cmds : Points(idx[c], c) => Points(idx[c], c)'
    BY <1>1 DEF Points
  <2>. QED
    BY <1>1, <1>2, <2>1, <2>2, <2>3 DEF Redirected, Indices
<1>5. WiredAsTyped'
  BY <1>1, <1>2 DEF Redirected, WiredAsTyped, PipeIn, PipeOut
<1>. QED
  BY <1>3, <1>4, <1>5 DEF Redirected

\* The child applies what its index points at.
LEMMA ExecRedirected ==
    ASSUME IInv, Redirected, UNCHANGED session, NEW d \in Cmds, Exec(d) PROVE Redirected'
<1>0. /\ cpc \in [Cmds -> Places] /\ wired \in [Cmds -> [in : Ends, out : Ends]]
      /\ N \in Cmds /\ N \in Nat /\ idx \in [Cmds -> Nat \ {0}] /\ Lists
      /\ program.redirs \in {"none", "loop", "pair"}
      /\ \A c \in Cmds : c > N => cpc[c] = "none"
  BY CmdsFacts DEF IInv, Shape, Progress, Redirected, Indices
<1>1. /\ UNCHANGED <<program, line, to_from, cmd, ppc, redir_idx, idx, typed>>
      /\ cpc[d] = "forked" /\ wired' = [wired EXCEPT ![d] = Wiring(d)]
      /\ cpc' = [cpc EXCEPT ![d] = "running"]
  BY DEF Exec, session, parent
<1>2. N' = N /\ (AllReach' <=> AllReach)
  BY <1>1 DEF N, AllReach
<1>3. /\ wired'[d] = Wiring(d) /\ cpc'[d] = "running"
      /\ \A c \in Cmds : c # d => wired'[c] = wired[c] /\ cpc'[c] = cpc[c]
  BY <1>0, <1>1
<1>4. d \in 1..N /\ idx[d] \in Nat \ {0}
  BY <1>0, <1>1, CmdsFacts
<1>5. Lists'
  BY <1>1, ListsKept DEF Redirected
<1>6. Indices'
  <2>1. \A c \in Cmds : cpc'[c] = "forked" => cpc[c] = "forked"
    BY <1>3
  <2>2. \A c \in Cmds : Points(idx[c], c) => Points(idx[c], c)'
    BY <1>1 DEF Points
  <2>3. Points(redir_idx, cmd) => Points(redir_idx, cmd)'
    BY <1>1 DEF Points
  <2>. QED
    BY <1>1, <1>2, <2>1, <2>2, <2>3 DEF Redirected, Indices
<1>7. WiredAsTyped'
  <2>1. \A c \in 1..N : c \in Cmds
    BY <1>0, CmdsFacts DEF Cmds
  <2>2. ASSUME NEW c \in 1..N, cpc'[c] = "running", AllReach
        PROVE  /\ wired'[c].in = IF "r" \in Range(line[c]) THEN File("r") ELSE PipeIn(c)
               /\ wired'[c].out = IF "w" \in Range(line[c]) THEN File("w") ELSE PipeOut(c)
    <3>1. CASE c = d
      <4>1. Points(idx[d], d)
        BY <1>1, <2>2 DEF Redirected, Indices
      <4>2. /\ Wiring(d).in = IF "r" \in Range(line[d]) THEN File("r") ELSE PipeIn(d)
            /\ Wiring(d).out = IF "w" \in Range(line[d]) THEN File("w") ELSE PipeOut(d)
        BY <1>0, <1>4, <2>2, <4>1, WiringTyped
      <4>. QED
        BY <1>3, <3>1, <4>2
    <3>2. CASE c # d
      <4>1. wired'[c] = wired[c] /\ cpc[c] = "running"
        BY <1>3, <2>1, <2>2, <3>2
      <4>. QED
        BY <2>2, <4>1 DEF Redirected, WiredAsTyped
    <3>. QED
      BY <3>1, <3>2
  <2>3. \A c : PipeIn(c)' = PipeIn(c) /\ PipeOut(c)' = PipeOut(c)
    BY <1>2 DEF PipeIn, PipeOut
  <2>. QED
    BY <1>1, <1>2, <2>2, <2>3 DEF WiredAsTyped
<1>. QED
  BY <1>5, <1>6, <1>7 DEF Redirected

\* Whoever dies is neither about to apply redirections nor running.
LEMMA DeathRedirected ==
    ASSUME Redirected, N \in Cmds, cpc \in [Cmds -> Places],
           UNCHANGED <<program, line, to_from, typed, redir_idx>>,
           ppc' \in {"fork", "close"} => ppc \in {"fork", "close"} /\ cmd' = cmd,
           NEW S, NEW s, DieAll(S, s)
    PROVE  Redirected'
<1>1. \A c \in Cmds : /\ cpc'[c] = "forked" => cpc[c] = "forked"
                      /\ cpc'[c] = "running" => cpc[c] = "running" /\ wired'[c] = wired[c]
  BY DEF DieAll
<1>. QED
  BY <1>1, RedirectedKept DEF DieAll

LEMMA StepRedirected == IInv /\ Redirected /\ [Next]_allvars => Redirected'
<1>. SUFFICES ASSUME IInv, Redirected, [Next]_allvars PROVE Redirected'
  OBVIOUS
<1>0. N \in Cmds /\ cpc \in [Cmds -> Places] /\ cmd \in Cmds
  BY CmdsFacts DEF IInv, Shape, Cmds
<1>1. CASE ReadLine
  BY <1>1, ReadLineRedirected
<1>2. CASE CmdToken
  BY <1>2, CmdTokenRedirected
<1>3. CASE ExitToken \/ CdToken \/ BadToken
  BY <1>0, <1>3, RedirectedKept DEF ExitToken, CdToken, BadToken, vars, parent, child
<1>4. CASE CmdReturns
  BY <1>0, <1>4, RedirectedKept DEF CmdReturns, child
<1>5. CASE EndOfInput \/ EndOfLine
  BY <1>0, <1>5, RedirectedKept DEF EndOfInput, EndOfLine, Leave, parent, child
<1>6. CASE Interrupt
  <2>1. /\ UNCHANGED <<program, line, to_from, typed, redir_idx>>
        /\ ppc' \in {"fork", "close"} => ppc \in {"fork", "close"} /\ cmd' = cmd
    BY <1>6 DEF Interrupt, Leave, parent
  <2>2. PICK S : DieAll(S, Interrupted)
    BY <1>6 DEF Interrupt
  <2>. QED
    BY <1>0, <2>1, <2>2, DeathRedirected
<1>7. CASE Parent /\ UNCHANGED session
  <2>1. CASE PipeFails \/ ForkFails
    BY <1>0, <1>7, <2>1, RedirectedKept DEF PipeFails, ForkFails, child, session
  <2>2. CASE Fork
    BY <1>7, <2>2, ForkRedirected
  <2>3. CASE ParentCloses
    BY <1>7, <2>3, ParentClosesRedirected
  <2>4. CASE Kill
    <3>1. UNCHANGED <<program, line, to_from, typed, redir_idx, ppc, cmd>> /\ DieAll({cmd}, Killed)
      BY <1>7, <2>4 DEF Kill, Dies, parent, session
    <3>. QED
      BY <1>0, <3>1, DeathRedirected
  <2>5. CASE Reap \/ Undo
    <3>1. /\ UNCHANGED <<program, line, to_from, typed, redir_idx, idx, wired>>
          /\ ppc' \notin {"fork", "close"}
          /\ cpc' = [cpc EXCEPT ![cmd] = IF @ = "none" THEN @ ELSE "reaped"]
      BY <1>7, <2>5 DEF Reap, Undo, Wait, session
    <3>2. \A c \in Cmds : cpc'[c] = cpc[c] \/ cpc'[c] = "reaped"
      BY <1>0, <3>1
    <3>. QED
      BY <1>0, <3>1, <3>2, RedirectedKept
  <2>. QED
    BY <1>7, <2>1, <2>2, <2>3, <2>4, <2>5 DEF Parent
<1>8. CASE Return /\ UNCHANGED session
  BY <1>0, <1>8, RedirectedKept DEF Return, child, session
<1>9. ASSUME NEW c \in Cmds, Child(c), UNCHANGED session PROVE Redirected'
  <2>1. CASE Exec(c)
    BY <1>9, <2>1, ExecRedirected
  <2>2. ASSUME NEW s, Dies(c, s), UNCHANGED <<program, line, to_from, parent>> PROVE Redirected'
    BY <1>0, <1>9, <2>2, DeathRedirected DEF Dies, parent, session
  <2>3. CASE ExecFails(c) \/ Finish(c) \/ LeaveEarly(c)
    BY <2>2, <2>3 DEF ExecFails, Finish, LeaveEarly
  <2>4. ASSUME UNCHANGED <<program, line, to_from, parent, cpc, idx, wired>> PROVE Redirected'
    BY <1>0, <1>9, <2>4, RedirectedKept DEF parent, session
  <2>5. CASE Write(c)
    BY <2>2, <2>4, <2>5 DEF Write
  <2>6. CASE Spill(c) \/ Read(c)
    BY <2>4, <2>6 DEF Spill, Read
  <2>. QED
    BY <1>9, <2>1, <2>3, <2>5, <2>6 DEF Child, Command
<1>10. CASE UNCHANGED allvars
  BY <1>0, <1>10, RedirectedKept DEF allvars, vars, session, parent, child
<1>. QED
  BY <1>1, <1>2, <1>3, <1>4, <1>5, <1>6, <1>7, <1>8, <1>9, <1>10 DEF Next, Shell, Program

\* Every redirection reaches the command it was typed for, on the lines the programs can
\* handle, however far the parent is when a child looks at its copy of the index.
THEOREM CommandsAreWired == Spec => []WiredAsTyped
<1>1. ShellInit => Redirected
  BY InitRedirected
<1>2. IInv /\ Redirected /\ [Next]_allvars => Redirected'
  BY StepRedirected
<1>3. Redirected => WiredAsTyped
  BY DEF Redirected
<1>. QED
  BY <1>1, <1>2, <1>3, Invariance, PTL DEF Spec

=============================================================================
