------------------------------ MODULE NpShell ------------------------------
(***************************************************************************)
(* The shell of src/Project1/shell.cpp and, behind a socket, of            *)
(* src/Project2/np_simple.cpp: how a line becomes processes joined by      *)
(* pipes, how a line ending in |N (or !N) is joined to the N-th line after *)
(* it, and what the commands then do with the descriptors they got.  The   *)
(* two programs differ in CloseInLoop and UnknownTo.                       *)
(*                                                                         *)
(* fork() and what parent and child then close are one step: a descriptor  *)
(* closed later only delays an end of file.  The commands run concurrently *)
(* with the shell and with each other.                                     *)
(***************************************************************************)
EXTENDS Descriptors, Sequences

CONSTANTS
  Lines,          \* the lines a user may enter
  MaxLines,       \* bound: lines and built-ins entered in a behaviour
  MaxStages,      \* commands in the longest line
  MaxNum,         \* largest N of |N
  Capacity,       \* chunks a pipe holds before write() blocks
  CloseInLoop,    \* kinds of line whose pipes the loop closes as it goes
  UnknownTo,      \* where exec() reports an unknown command
  ForkFailures    \* bound: failures of fork() in a behaviour

Kinds   == {"normal", "file", "number"}
Command == [reads : BOOLEAN, says : Nat, known : BOOLEAN]
RunLine == [op : {"run"}, kind : Kinds, num : 0 .. MaxNum, cmds : Seq(Command)]

ASSUME ShellAssumption ==
  /\ MaxLines \in Nat /\ MaxStages \in Nat \ {0} /\ MaxNum \in Nat
  /\ Capacity \in Nat \ {0} /\ ForkFailures \in Nat
  /\ CloseInLoop \subseteq Kinds /\ UnknownTo \in {"stdout", "stderr"}

ASSUME ShellLineAssumption ==
  \A l \in Lines :
    \/ l.op \in {"builtin", "empty", "exit"}
    \/ /\ l \in RunLine /\ Len(l.cmds) \in 1 .. MaxStages
       /\ l.num > 0 <=> l.kind = "number"

VARIABLES
  pc,                               \* where main() is
  i,                                \* the command the loop is at, from 1
  instr_cnt,
  lines,                            \* the lines run so far, and the current one
  counted,                          \* lines and built-ins entered
  fds,                              \* the shell's descriptors
  file_fd,
  pipe_table, size,                 \* the vector's storage and its size()
  NP_sender_map, NP_receiver_map,
  buf,                              \* chunks in each pipe, in order of creation
  procs,                            \* the commands forked
  blocked,                          \* the children waitpid(-1) found running
  failures

shell == <<pc, i, instr_cnt, lines, counted, fds, file_fd, pipe_table, size,
           NP_sender_map, NP_receiver_map, blocked, failures>>
vars  == <<shell, buf, procs>>

Keys   == 0 .. MaxLines + MaxNum
NoPipe == [read_fd |-> -1, write_fd |-> -1]
Pipe   == [read_fd : Fd, write_fd : Fd]

Proc   == (0 .. MaxLines - 1) \X (1 .. MaxStages)
NoProc == [st |-> "none", reads |-> FALSE, in |-> Closed, out |-> Closed, held |-> {},
           left |-> 0, got |-> 0, wrote |-> 0, eof |-> FALSE]

Running == {p \in Proc : procs[p].st = "running"}

AllClosed == [f \in Fd |-> Closed]

Init ==
  /\ pc = "prompt" /\ i = 1 /\ instr_cnt = 0 /\ lines = <<>>
  /\ counted = 0
  /\ fds = [f \in Fd |-> IF f <= 2 THEN Tty ELSE Closed]
  /\ file_fd = -1
  /\ pipe_table = <<>> /\ size = 0
  /\ NP_sender_map = [k \in Keys |-> NoPipe]
  /\ NP_receiver_map = [k \in Keys |-> NoPipe]
  /\ buf = <<>>
  /\ procs = [p \in Proc |-> NoProc]
  /\ blocked = {} /\ failures = 0

Line == lines[instr_cnt + 1]
n    == Len(Line.cmds)

-----------------------------------------------------------------------------
(* Slips of the kind this code invites.  Each replaces the definition named  *)
(* beside it to see that a property notices; none is part of the model.      *)

KeepOwnWriteEnd(t, p) ==           \* TakeNumberPipe: close(p.write_fd) forgotten
  Close(Dup2(t, p.read_fd, STDIN_FILENO), p.read_fd)

KeepReceived(t, p) == Close(t, p.read_fd)   \* Receives: the write end stays open

KeepTable == SubSeq(pipe_table, 1, size)   \* EmptyTable: declared before the loop

NeighbourKey == instr_cnt + Line.num - 1    \* Key: off by one

NothingReleased == fds                      \* Released: the loop forgotten

NeverJoins == FALSE                         \* Joins: NP_receiver_map not looked up

-----------------------------------------------------------------------------
(* getline() and what is handled before the pipeline. *)

EmptyTable == <<>>

Enter(l) ==
  /\ pc = "prompt" /\ l.op = "run" /\ counted < MaxLines
  /\ lines' = Append(lines, l)
  /\ counted' = counted + 1
  /\ IF l.kind = "file"
     THEN /\ Unused(fds) # {}
          /\ fds' = Place(fds, File) /\ file_fd' = Min(Unused(fds))
     ELSE UNCHANGED <<fds, file_fd>>
  /\ pc' = "pipe" /\ i' = 1
  /\ pipe_table' = EmptyTable /\ size' = Len(EmptyTable)
  /\ UNCHANGED <<instr_cnt, NP_sender_map, NP_receiver_map, buf, procs, blocked, failures>>

Empty(l) == pc = "prompt" /\ l.op = "empty" /\ UNCHANGED vars

(* setenv and printenv go on without counting the line. *)
Builtin(l) ==
  /\ pc = "prompt" /\ l.op = "builtin" /\ counted < MaxLines
  /\ counted' = counted + 1
  /\ UNCHANGED <<pc, i, instr_cnt, lines, fds, file_fd, pipe_table, size,
                 NP_sender_map, NP_receiver_map, buf, procs, blocked, failures>>

Exit(l) ==
  /\ pc = "prompt" /\ l.op = "exit"
  /\ pc' = "gone" /\ fds' = AllClosed
  /\ UNCHANGED <<i, instr_cnt, lines, counted, file_fd, pipe_table, size,
                 NP_sender_map, NP_receiver_map, buf, procs, blocked, failures>>

-----------------------------------------------------------------------------
(* One pass of the loop over the commands. *)

Insert(m, key, p) == IF m[key] = NoPipe THEN [m EXCEPT ![key] = p] ELSE m

Key == instr_cnt + Line.num

(* The pipe the command writes to: a new one between two commands, and for  *)
(* the last command of ...|N the one that waits for line Key, made if       *)
(* nothing waits for it yet.  pipe() is retried until it succeeds.          *)
Between    == i < n
LastNumber == i = n /\ Line.kind = "number"
Joins      == LastNumber /\ NP_receiver_map[Key] # NoPipe

fresh == Len(buf) + 1

Opens ==
  /\ Cardinality(Unused(fds)) >= 2
  /\ fds' = OpenPipe(fds, fresh) /\ buf' = Append(buf, 0)

MakePipe ==
  /\ pc = "pipe"
  /\ \/ /\ Between
        /\ Opens
        /\ pipe_table' = Append(SubSeq(pipe_table, 1, size), Ends(fds', fresh))
        /\ size' = size + 1
        /\ UNCHANGED <<NP_sender_map, NP_receiver_map>>
     \/ /\ Joins
        /\ NP_sender_map' = Insert(NP_sender_map, instr_cnt, NP_receiver_map[Key])
        /\ UNCHANGED <<NP_receiver_map, pipe_table, size, fds, buf>>
     \/ /\ LastNumber /\ ~Joins
        /\ Opens
        /\ NP_sender_map' = Insert(NP_sender_map, instr_cnt, Ends(fds', fresh))
        /\ NP_receiver_map' = Insert(NP_receiver_map, Key, Ends(fds', fresh))
        /\ UNCHANGED <<pipe_table, size>>
     \/ /\ i = n /\ ~LastNumber
        /\ UNCHANGED <<NP_sender_map, NP_receiver_map, pipe_table, size, fds, buf>>
  /\ pc' = "fork"
  /\ UNCHANGED <<i, instr_cnt, lines, counted, file_fd, procs, blocked, failures>>

(* The child. *)
TakeNumberPipe(t, p) == Close(Dup2(Close(t, p.write_fd), p.read_fd, STDIN_FILENO), p.read_fd)
GiveNumberPipe(t, p) == Close(Dup2(Close(t, p.read_fd), p.write_fd, STDOUT_FILENO), p.write_fd)

WithStdin(t) ==
  IF i > 1 THEN Dup2(t, pipe_table[i - 1].read_fd, STDIN_FILENO)
  ELSE IF NP_receiver_map[instr_cnt] # NoPipe THEN TakeNumberPipe(t, NP_receiver_map[instr_cnt])
  ELSE t

WithStdout(t) ==
  CASE Between -> Dup2(t, pipe_table[i].write_fd, STDOUT_FILENO)
    [] i = n /\ Line.kind = "file" -> Close(Dup2(t, file_fd, STDOUT_FILENO), file_fd)
    [] LastNumber -> GiveNumberPipe(t, NP_sender_map[instr_cnt])
    [] OTHER -> t

TableFds(tab, k) == {tab[j].read_fd : j \in 1 .. k} \cup {tab[j].write_fd : j \in 1 .. k}

ChildFds == CloseAll(WithStdout(WithStdin(fds)), TableFds(pipe_table, size))

(* execvp() finds the program, or the child says it does not and ends.      *)
Exec(cmd, t) ==
  [st |-> "running", reads |-> cmd.reads /\ cmd.known,
   in |-> t[STDIN_FILENO], out |-> t[STDOUT_FILENO], held |-> Held(t),
   left |-> IF cmd.known THEN cmd.says ELSE IF UnknownTo = "stdout" THEN 1 ELSE 0,
   got |-> 0, wrote |-> 0, eof |-> FALSE]

(* The parent. *)
Receives(t, p) == ClosePipe(t, p)

ParentFds ==
  LET t1 == IF i = n /\ Line.kind = "file" THEN Close(fds, file_fd) ELSE fds
      t2 == IF i = 1 /\ NP_receiver_map[instr_cnt] # NoPipe
            THEN Receives(t1, NP_receiver_map[instr_cnt]) ELSE t1
  IN  IF i > 1 /\ Line.kind \in CloseInLoop THEN ClosePipe(t2, pipe_table[i - 1]) ELSE t2

Fork ==
  /\ pc = "fork"
  /\ procs' = [procs EXCEPT ![<<instr_cnt, i>>] = Exec(Line.cmds[i], ChildFds)]
  /\ fds' = ParentFds
  /\ pc' = IF i = n THEN "release" ELSE "pipe"
  /\ i' = i + 1
  /\ UNCHANGED <<instr_cnt, lines, counted, file_fd, pipe_table, size,
                 NP_sender_map, NP_receiver_map, buf, blocked, failures>>

(* fork() fails: the last entry of pipe_table is dropped, its descriptors   *)
(* stay open.  Dropping one from an empty vector makes its size() wrap, and *)
(* the next loop over it runs off the end.                                  *)
ForkFails ==
  /\ pc = "fork" /\ failures < ForkFailures
  /\ failures' = failures + 1
  /\ size' = size - 1
  /\ IF size = 0
     THEN pc' = "crashed" /\ fds' = AllClosed /\ UNCHANGED blocked
     ELSE pc' = "retry" /\ blocked' = Running /\ UNCHANGED fds
  /\ UNCHANGED <<i, instr_cnt, lines, counted, file_fd, pipe_table,
                 NP_sender_map, NP_receiver_map, buf, procs>>

(* waitpid(-1): until one of the children has ended, at once without any.   *)
Retry ==
  /\ pc = "retry" /\ (blocked = {} \/ ~(blocked \subseteq Running))
  /\ pc' = "pipe" /\ blocked' = {}
  /\ UNCHANGED <<i, instr_cnt, lines, counted, fds, file_fd, pipe_table, size,
                 NP_sender_map, NP_receiver_map, buf, procs, failures>>

Released == CloseAll(fds, TableFds(pipe_table, size))

Release ==
  /\ pc = "release"
  /\ fds' = Released
  /\ pc' = "wait"
  /\ UNCHANGED <<i, instr_cnt, lines, counted, file_fd, pipe_table, size,
                 NP_sender_map, NP_receiver_map, buf, procs, blocked, failures>>

(* The commands of the line have ended, unless it is a number pipe.         *)
Wait ==
  /\ pc = "wait"
  /\ Line.kind = "number" \/ \A p \in Running : p[1] # instr_cnt
  /\ pc' = "prompt" /\ instr_cnt' = instr_cnt + 1
  /\ UNCHANGED <<i, lines, counted, fds, file_fd, pipe_table, size,
                 NP_sender_map, NP_receiver_map, buf, procs, blocked, failures>>

-----------------------------------------------------------------------------
(* The commands: a filter passes on what it reads until end of file, the    *)
(* others write what they have to say.                                      *)

Holds(d) == (\E f \in Fd : fds[f] = d) \/ \E p \in Running : d \in procs[p].held

FromPipe(p) == procs[p].in[1] = "read"
ToPipe(p)   == procs[p].out[1] = "write"

Read(p) ==
  LET in == procs[p].in[2] IN
  /\ p \in Running /\ procs[p].reads /\ procs[p].left = 0
  /\ FromPipe(p) /\ buf[in] > 0
  /\ buf' = [buf EXCEPT ![in] = @ - 1]
  /\ procs' = [procs EXCEPT ![p].got = @ + 1, ![p].left = 1]
  /\ UNCHANGED shell

Write(p) ==
  LET out == procs[p].out[2] IN
  /\ p \in Running /\ procs[p].left > 0
  /\ procs[p].out # Closed
  /\ IF ToPipe(p)
     THEN /\ Holds(ReadEnd(out)) /\ buf[out] < Capacity
          /\ buf' = [buf EXCEPT ![out] = @ + 1]
     ELSE UNCHANGED buf
  /\ procs' = [procs EXCEPT ![p].left = @ - 1, ![p].wrote = @ + 1]
  /\ UNCHANGED shell

AtEOF(p) == FromPipe(p) /\ buf[procs[p].in[2]] = 0 /\ ~Holds(WriteEnd(procs[p].in[2]))

(* A command ends at end of file, when it has said all, on a read or write  *)
(* error, or by SIGPIPE.                                                    *)
Finish(p) ==
  /\ p \in Running
  /\ \/ procs[p].left = 0 /\ (procs[p].reads => AtEOF(p) \/ procs[p].in = Closed)
     \/ /\ procs[p].left > 0
        /\ \/ procs[p].out = Closed
           \/ ToPipe(p) /\ ~Holds(ReadEnd(procs[p].out[2]))
  /\ procs' = [procs EXCEPT ![p].st = "ended", ![p].held = {},
                            ![p].eof = procs[p].left = 0 /\ procs[p].reads /\ AtEOF(p)]
  /\ UNCHANGED <<shell, buf>>

-----------------------------------------------------------------------------
Shell == MakePipe \/ Fork \/ Retry \/ Release \/ Wait
User  == \E l \in Lines : Enter(l) \/ Empty(l) \/ Builtin(l) \/ Exit(l)
Run(p) == Read(p) \/ Write(p) \/ Finish(p)

Next == Shell \/ User \/ ForkFails \/ \E p \in Proc : Run(p)

Spec == Init /\ [][Next]_vars

Commands == \E p \in Proc : Run(p)

(* The kernel does not idle while the shell, or some command, can go on; the *)
(* user need not type.                                                      *)
FairSpec == Spec /\ WF_vars(Shell) /\ WF_vars(Commands)

-----------------------------------------------------------------------------
(* The commands whose output the course wants to reach command p: the one   *)
(* before it on the line, or the last ones of the lines that number to it.  *)
LastCommand(k) == <<k, Len(lines[k + 1].cmds)>>

Feeders(p) ==
  IF p[2] > 1 THEN {<<p[1], p[2] - 1>>}
  ELSE {LastCommand(k) : k \in {m \in 0 .. p[1] - 1 :
          lines[m + 1].kind = "number" /\ m + lines[m + 1].num = p[1]}}

Forked == {p \in Proc : procs[p].st # "none"}

(* Every variable stays within its type. *)
TypeOK ==
  /\ pc \in {"prompt", "pipe", "fork", "retry", "release", "wait", "gone", "crashed"}
  /\ i \in 1 .. MaxStages + 1 /\ instr_cnt \in 0 .. MaxLines
  /\ lines \in Seq(RunLine) /\ counted \in 0 .. MaxLines
  /\ fds \in [Fd -> {Closed, Tty, File} \cup {ReadEnd(k) : k \in 1 .. Len(buf)}
                      \cup {WriteEnd(k) : k \in 1 .. Len(buf)}]
  /\ file_fd \in Fd \cup {-1} /\ pipe_table \in Seq(Pipe) /\ size \in -1 .. MaxStages - 1
  /\ NP_sender_map \in [Keys -> Pipe \cup {NoPipe}]
  /\ NP_receiver_map \in [Keys -> Pipe \cup {NoPipe}]
  /\ buf \in Seq(0 .. Capacity)
  /\ blocked \subseteq Proc /\ failures \in 0 .. ForkFailures

(* Every command reads from exactly the commands the line numbering and the *)
(* bars say: its standard input is the pipe each of them writes to, the     *)
(* terminal if there are none, and no other command has that pipe as its    *)
(* standard input.                                                          *)
Wired ==
  \A p \in Forked :
    LET in == procs[p].in IN
    /\ Feeders(p) = {} => in = Tty
    /\ \A f \in Feeders(p) : FromPipe(p) /\ procs[f].out = WriteEnd(in[2])
    /\ \A r \in Forked : r # p /\ FromPipe(r) => procs[r].in # in

(* A command that came to the end of its input has read everything the      *)
(* commands before it wrote, and all of them have ended: no end of file     *)
(* comes early, no chunk is lost, joined number pipes included.             *)
Delivered ==
  \A p \in Forked : procs[p].eof =>
    /\ \A f \in Feeders(p) : procs[f].st = "ended"
    /\ procs[p].got = MapThenSumSet(LAMBDA f : procs[f].wrote, Feeders(p))

(* The lines to come that output waits for. *)
Pending == {k \in Keys : NP_receiver_map[k] # NoPipe
                         /\ IF pc = "wait" THEN k > instr_cnt ELSE k >= instr_cnt}

(* Before it waits for the commands of a line, and between two lines, the   *)
(* shell holds the terminal and, for every line that output waits for, both *)
(* ends of that line's pipe; nothing leaks and nothing a later line needs   *)
(* has been closed.                                                         *)
ShellHolds ==
  pc \in {"wait", "prompt"} =>
    /\ \A k \in Pending : \E r \in 1 .. Len(buf) :
         /\ fds[NP_receiver_map[k].read_fd] = ReadEnd(r)
         /\ fds[NP_receiver_map[k].write_fd] = WriteEnd(r)
    /\ Cardinality({f \in Fd : fds[f] # Closed}) = 3 + 2 * Cardinality(Pending)

(* No command holds the write end of the pipe it reads, nor does the shell  *)
(* once the loop over the commands is done: the end of file would have to   *)
(* wait for the very process that waits for it.                             *)
ReaderNotWriter ==
  \A p \in Running : FromPipe(p) =>
    /\ WriteEnd(procs[p].in[2]) \notin procs[p].held
    /\ pc \in {"prompt", "wait"} => WriteEnd(procs[p].in[2]) \notin Held(fds)

(* Every line comes to an end and the shell to its next prompt, unless a    *)
(* command waits for the user to type.                                      *)
ReadsTty == \E p \in Running : procs[p].reads /\ procs[p].in = Tty

LineEnds == pc \in {"pipe", "fork", "retry", "release", "wait"} ~> pc = "prompt" \/ ReadsTty
=============================================================================
