---------------------------- MODULE Descriptors ----------------------------
(***************************************************************************)
(* The kernel's table of file descriptors as far as the shells of this     *)
(* repository use it: pipe() and open() take the lowest unused numbers,    *)
(* dup2() and close() work on numbers, and a number that is not open is    *)
(* an error without effect (EBADF), which the shells ignore.               *)
(***************************************************************************)
EXTENDS Integers, FiniteSets, FiniteSetsExt

CONSTANT MaxFd        \* the largest descriptor (RLIMIT_NOFILE - 1)

ASSUME MaxFdAssumption == MaxFd \in Nat /\ MaxFd >= 2

Fd == 0 .. MaxFd
STDIN_FILENO  == 0
STDOUT_FILENO == 1

(* What a descriptor refers to. *)
Closed      == <<"closed", 0>>
Tty         == <<"tty", 0>>          \* the user's terminal or socket
File        == <<"file", 0>>         \* the file of a redirection
ReadEnd(q)  == <<"read", q>>
WriteEnd(q) == <<"write", q>>

Unused(t) == {f \in Fd : t[f] = Closed}
Held(t)   == {t[f] : f \in Fd} \ {Closed}

Place(t, d)     == [t EXCEPT ![Min(Unused(t))] = d]
OpenPipe(t, q)  == Place(Place(t, ReadEnd(q)), WriteEnd(q))
Find(t, d)      == CHOOSE f \in Fd : t[f] = d

(* struct Pipe: the two numbers pipe() returned. *)
Ends(t, q) == [read_fd |-> Find(t, ReadEnd(q)), write_fd |-> Find(t, WriteEnd(q))]

Close(t, f)       == [t EXCEPT ![f] = Closed]
ClosePipe(t, p)   == Close(Close(t, p.read_fd), p.write_fd)
CloseAll(t, fs)   == [f \in Fd |-> IF f \in fs THEN Closed ELSE t[f]]
Dup2(t, from, to) == IF t[from] = Closed THEN t ELSE [t EXCEPT ![to] = t[from]]
=============================================================================
