---------------------------- MODULE SimpleServer ----------------------------
(***************************************************************************)
(* The processes of src/Project2/np_simple.cpp: the loop that accepts a    *)
(* client and forks, and the loop that serves the client, inside the first *)
(* one.  A process that comes to the end of its client's input leaves the  *)
(* inner loop and so becomes one that accepts, with its cin in a failed    *)
(* state that its own children inherit.                                    *)
(*                                                                         *)
(* What a line does with pipes and processes is NpShell; here a line says  *)
(* what it says and is followed by a prompt, and the commands of a line    *)
(* that ends in |N or !N, which say nothing to the client and are not      *)
(* waited for, keep the sockets they inherit until they end.               *)
(***************************************************************************)
EXTENDS Integers, Sequences, FiniteSets, FiniteSetsExt

CONSTANTS
  Clients,      \* connections; each connects at most once
  NoClient,     \* not a client
  Processes,    \* bound: process IDs, 0 for the one main() starts in
  ForkFailures, \* bound: failures of fork() in a behaviour
  Prompt        \* the characters of a prompt

(* What RemoteShell assumes of them. *)
ConstantsOK ==
  /\ NoClient \notin Clients /\ ForkFailures \in Nat
  /\ 0 \in Processes /\ Processes \subseteq Nat /\ IsFiniteSet(Processes)

VARIABLES
  at,           \* where a process is
  new_sock_fd,  \* the client it has accepted last
  io,           \* the client that is its stdin and stdout
  holds,        \* the clients whose sockets it has open
  cin_ok,       \* whether its cin is good()
  left,         \* what is still to be written to the client
  jobs,         \* the clients whose sockets commands it did not wait for have open
  failures,
  backlog, up, down, shut       \* the sockets: see ShellSession

Init ==
  /\ at = [p \in Processes |-> IF p = 0 THEN "accept" ELSE "none"]
  /\ new_sock_fd = [p \in Processes |-> NoClient]
  /\ io = [p \in Processes |-> NoClient]
  /\ holds = [p \in Processes |-> {}]
  /\ cin_ok = [p \in Processes |-> TRUE]
  /\ left = [p \in Processes |-> <<>>]
  /\ jobs = [p \in Processes |-> {}]
  /\ failures = 0

Goto(p, l) == at' = [at EXCEPT ![p] = l]

Unborn == {p \in Processes : at[p] = "none"}

Accepted == {new_sock_fd[p] : p \in Processes} \cup {io[p] : p \in Processes}
(* A socket is closed when the last process that has it closes it. *)
Ended == {c \in Accepted \ {NoClient} : \A p \in Processes : c \notin holds[p] \cup jobs[p]}

-----------------------------------------------------------------------------
(* Slips of the kind this code invites.  Each replaces the definition named  *)
(* beside it to see that a property notices; none is part of the model.      *)

KeepsSocket(p) == holds[p]      \* ParentHolds: close(new_sock_fd) forgotten

PromptFirst(q) == TRUE          \* LineDone: no wait for the commands

NoNewcomer == NoClient          \* Newcomer: the error of accept() is ignored

-----------------------------------------------------------------------------
(* The loop that accepts. *)

Newcomer == Head(backlog)

Accept(p) ==
  /\ at[p] = "accept" /\ backlog # <<>>
  /\ Goto(p, "fork")
  /\ new_sock_fd' = [new_sock_fd EXCEPT ![p] = Newcomer]
  /\ holds' = [holds EXCEPT ![p] = @ \cup {Newcomer}]
  /\ backlog' = Tail(backlog)
  /\ UNCHANGED <<io, cin_ok, left, jobs, failures, up, down, shut>>

ParentHolds(p) == holds[p] \ {new_sock_fd[p]}

(* The child has the descriptors of its parent, the state of its cin, and   *)
(* what is left in its cout.                                                 *)
Fork(p) ==
  /\ at[p] = "fork" /\ Unborn # {}
  /\ LET q == Min(Unborn) IN
     /\ at' = [at EXCEPT ![p] = "accept", ![q] = "prompt"]
     /\ io' = [io EXCEPT ![q] = new_sock_fd[p]]
     /\ holds' = [holds EXCEPT ![p] = ParentHolds(p), ![q] = holds[p]]
     /\ cin_ok' = [cin_ok EXCEPT ![q] = cin_ok[p]]
     /\ new_sock_fd' = [new_sock_fd EXCEPT ![q] = new_sock_fd[p]]
     /\ left' = [left EXCEPT ![q] = left[p]]
  /\ UNCHANGED <<jobs, failures, backlog, up, down, shut>>

(* A write to a client that has closed is swallowed or ends the writer. *)
Says(q, text) == [down EXCEPT ![io[q]] = @ \o text]

(* The client stays connected, and nobody serves it.  The message on cerr    *)
(* flushes cout, which is still the client of the process.                   *)
ForkFails(p) ==
  /\ at[p] = "fork" /\ failures < ForkFailures
  /\ Goto(p, "accept") /\ failures' = failures + 1
  /\ left' = [left EXCEPT ![p] = <<>>]
  /\ down' = IF left[p] = <<>> THEN down ELSE Says(p, left[p])
  /\ UNCHANGED <<new_sock_fd, io, holds, cin_ok, jobs, backlog, up, shut>>

-----------------------------------------------------------------------------
(* The loop that serves a client. *)

Gone(q) == Goto(q, "gone") /\ holds' = [holds EXCEPT ![q] = {}]

(* cout is flushed by getline(), unless cin has failed already; the loop is *)
(* left then, and the process accepts.                                      *)
PrintPrompt(q) ==
  /\ at[q] = "prompt"
  /\ \/ cin_ok[q] /\ io[q] \notin shut
        /\ down' = Says(q, Prompt) /\ Goto(q, "read") /\ UNCHANGED <<holds, left>>
     \/ cin_ok[q] /\ io[q] \in shut
        /\ (Gone(q) \/ (Goto(q, "read") /\ UNCHANGED holds)) /\ UNCHANGED <<down, left>>
     \/ ~cin_ok[q] /\ Goto(q, "accept") /\ left' = [left EXCEPT ![q] = @ \o Prompt]
        /\ UNCHANGED <<holds, down>>
  /\ UNCHANGED <<new_sock_fd, io, cin_ok, jobs, failures, backlog, up, shut>>

(* The commands of a line inherit all descriptors of the process. *)
ReadLine(q) ==
  /\ at[q] = "read" /\ up[io[q]] # <<>>
  /\ LET l == Head(up[io[q]]) IN
     /\ IF l.op = "exit" THEN Gone(q) ELSE Goto(q, "run") /\ UNCHANGED holds
     /\ left' = [left EXCEPT ![q] = l.says]
     /\ jobs' = IF l.op = "later" THEN [jobs EXCEPT ![q] = holds[q]] ELSE jobs
  /\ up' = [up EXCEPT ![io[q]] = Tail(@)]
  /\ UNCHANGED <<new_sock_fd, io, cin_ok, failures, backlog, down, shut>>

EndOfInput(q) ==
  /\ at[q] = "read" /\ up[io[q]] = <<>> /\ io[q] \in shut
  /\ Goto(q, "accept") /\ cin_ok' = [cin_ok EXCEPT ![q] = FALSE]
  /\ UNCHANGED <<new_sock_fd, io, holds, left, jobs, failures, backlog, up, down, shut>>

(* The commands of the line write to the client; one whose client has       *)
(* closed may be ended by SIGPIPE.                                          *)
Output(q) ==
  /\ at[q] = "run" /\ left[q] # <<>>
  /\ IF io[q] \in shut
     THEN left' \in {[left EXCEPT ![q] = Tail(@)], [left EXCEPT ![q] = <<>>]} /\ UNCHANGED down
     ELSE left' = [left EXCEPT ![q] = Tail(@)] /\ down' = Says(q, <<Head(left[q])>>)
  /\ UNCHANGED <<at, new_sock_fd, io, holds, cin_ok, jobs, failures, backlog, up, shut>>

(* The process waits for the commands that write to the client, and for no  *)
(* others: a line ... |N or ... !N leaves nothing to be written.            *)
LineDone(q) == left[q] = <<>>

Wait(q) ==
  /\ at[q] = "run" /\ LineDone(q)
  /\ Goto(q, "prompt")
  /\ UNCHANGED <<new_sock_fd, io, holds, cin_ok, left, jobs, failures, backlog, up, down, shut>>

(* Commands that were not waited for end, before or after the process.      *)
JobsEnd(q) ==
  /\ jobs[q] # {}
  /\ jobs' = [jobs EXCEPT ![q] = {}]
  /\ UNCHANGED <<at, new_sock_fd, io, holds, cin_ok, left, failures, backlog, up, down, shut>>

-----------------------------------------------------------------------------
Process(p) == \/ Accept(p) \/ Fork(p)
              \/ PrintPrompt(p) \/ ReadLine(p) \/ EndOfInput(p) \/ Output(p) \/ Wait(p)

Next == \E p \in Processes : Process(p) \/ ForkFails(p) \/ JobsEnd(p)

TypeOK ==
  /\ at \in [Processes -> {"none", "accept", "fork", "prompt", "read", "run", "gone"}]
  /\ new_sock_fd \in [Processes -> Clients \cup {NoClient}]
  /\ io \in [Processes -> Clients \cup {NoClient}]
  /\ holds \in [Processes -> SUBSET Clients] /\ jobs \in [Processes -> SUBSET Clients]
  /\ cin_ok \in [Processes -> BOOLEAN]
  /\ failures \in 0 .. ForkFailures
=============================================================================
