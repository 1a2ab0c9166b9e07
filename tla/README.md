# TLA+ models of the Network Programming 109F projects

The repository holds four course projects: a shell with numbered pipes
(`Project1`), two servers that put that shell behind a TCP port (`Project2`),
an HTTP server with CGI programs (`Project3`) and a SOCKS4 proxy with its own
CGI program (`Project4`).  This directory models the parts that carry state
and concurrency, checks them with TLC on small instances, and proves most of
the safety properties with TLAPS for every instance.

Contents: [Inventory](#1-inventory), [Plan](#2-plan),
[The models](#3-the-models), [Runs](#4-runs), [Proofs](#5-proofs),
[Disagreements found](#6-disagreements-found), [Not modelled](#7-not-modelled).

## 1. Inventory

| Component | State it keeps | Operations | Interacts with | Hard behaviour | What makes it correct |
|---|---|---|---|---|---|
| **npshell** `Project1/shell.cpp` | line counter `instr_cnt`, `NP_sender_map` / `NP_receiver_map` (line number to pipe), the descriptor table, children | one loop iteration per line: parse, `setenv` / `printenv` / `exit`, per stage `pipe`, `fork`, `dup2`, `close`, `exec`; at the end of the line close and wait | kernel descriptors and pipes, child processes | descriptor reuse after `close`, ends of pipes inherited by every child, fork failure and retry, full pipes | each stage reads and writes the pipe the line says; every reader sees end of file; nothing leaks; a line ends |
| **np_simple** `Project2/np_simple.cpp` | the same per client, in a forked child; `new_sock_fd`, the state of `cin` | accept, fork, shell loop over the socket | TCP clients | who holds a socket after `fork`; a child whose client leaves without `exit` becomes a second acceptor | as npshell; one child per client; after `exit` only the client's own commands of a line `\|N`, which nothing waits for, still have the connection |
| **np_single_proc** `Project2/np_single_proc.cpp` | `user_fds`, `max_fd`, `mapUser` by socket; `user_list`, `fd_table`, `vecUserNames`, `instr_cnt`, number-pipe maps, `env_map`, user pipes by ID | `select` loop; accept; `exit`, `setenv`, `printenv`, `yell`, `name`, `who`, `tell`, pipelines with `<n`, `>n`, `\|N` | TCP clients, kernel | tables changed while they are scanned; IDs and descriptors reused; early returns half-way; more users than IDs; disconnects | tables agree; a reused ID starts clean; user pipes connect the right sessions; every line is served |
| **HTTP server** `Project3/http_server.cpp` | one session object per connection; the environment | accept, read request, fork, parse into the environment, exec CGI | browser, CGI programs | sockets that programs inherit; `close` while the program writes; requests in parts | a browser gets the whole answer to its own request, and its end |
| **console.cgi** `Project3/console.cpp` | one shell session per host with a file of commands, `flg_exit` | resolve, connect, read, write one command per prompt, print HTML | np_simple / np_single servers | a prompt split across reads; reads and writes in turn | the page is the transcript of the session; the session ends |
| **Windows CGI server** `Project3/cgi_server.cpp` | HTTP sessions and shell sessions in one io_context; environment, `Host`, `Port`, `FileName`, `is_session` | as the two above, in one process | browser, shell servers | overlapping writes from dead buffers; globals shared by requests; exceptions; who keeps a session alive | a console has the sessions of its own query; its columns are in order; the response ends |
| **SOCKS4 proxy** `Project4/socks_server.cpp` | one `SocksSession` in a forked child: two sockets, buffers, request fields | read request, firewall, resolve, CONNECT or BIND, reply, relay both ways | client, destination, `socks.conf` | half-closed connections, two relays in flight, reply order | bytes arrive once and in order; a refused request gets one refusal |
| **SOCKS console.cgi** `Project4/console.cpp` | as console.cgi, plus the SOCKS handshake | connect to the proxy, request, reply, then as console.cgi | proxy, shell servers | buffers of pending writes, short reads | as console.cgi |

np_single_proc and np_simple are npshell behind a socket; the console programs
drive them; the proxy sits between the SOCKS console and them.

## 2. Plan

Most important behaviour first.  What is not marked done is the order in which
the project is extended.

1. `RwgTypes`, `RwgServer`, `RwgService` (done): the single-process server, which
   holds most shared state of the repository, and the service it implements.
   Theorems (done): the tables, the sessions, the refinement.
2. a. `Descriptors`, `NpShell` (done): the descriptor-level shell of npshell and
   np_simple, parameterised by where the two programs differ.
   Theorems (done): which pipe a command gets, that input is complete, and what
   the shell holds.
   b. `NumberPipe`: which line's output reaches which line, with `NpShell` shown
   to implement it.
3. `SimpleServer` (done): np_simple's two loops and its processes.
4. a. `SocksSession` (done): one proxy session of asynchronous handlers between
   two peers.
   b. theorems `Relayed`, `EndIsComplete`, `GrantsHold` (done); `Relay`, a pair of
   byte channels, which `SocksSession` is shown to implement; requests that
   arrive in pieces.
5. `ShellSession` (done): the sessions of both console programs; `RemoteShell`
   (done) composes them with `SimpleServer`.  Theorems (done): what a page shows,
   and who still has a connection after an exit.
6. `HttpServer`, `CgiServer` (done): the two HTTP servers, with theorems on whose
   answer a browser gets, that it is complete, and that columns are in order.
7. Theorems still to come: none of a property that holds now; those of
   the abstract specifications that 3b, 4b and 8 add.
8. `Framing`: the byte streams that `read()` of np_single_proc and the proxy's
   first read cut into lines and requests; user pipes of bounded capacity, whose
   writers np_single_proc waits for in its only thread.

## 3. The models

### RwgTypes, RwgServer: the remote working group server

`RwgTypes` is the vocabulary: IDs `0..MaxID` (30 in the code; index 0 exists in
every table and is nobody's ID), command lines after `split()` and
`find_command_type()`, and the texts written to clients, reduced to a kind, the
set of clients reached and what the wording depends on.

`RwgServer` is the process.  Its variables carry the names of the code's
globals; `conn`, `backlog`, `inbox` and `cli` are the sockets as the kernel and
the clients see them; `wrote` is what the last handler wrote.

| Actions | Code (`np_single_proc.cpp`) |
|---|---|
| `Accept` | 880-930: ID, tables, welcome, login broadcast, first prompt |
| `Select`, `ScanSkip`, `ScanEnd` | 861-879 and the loop 933-946, with the index `i` and the result `ready` kept across handlers |
| `Exit` | 219-281, with the erasure that shifts `user_fds` under the scan |
| `Empty` `Yell` `Name` `NameRefused` `Who` `Tell` `TellNobody` `Setenv` `Printenv` | one per branch of `shell()`, 282-422 |
| `Run`, `RunInputError`, `RunOutputError` | 424-816: a one- or two-stage pipeline, and its two kinds of early return, each with what has already happened by then |
| `RunRetried`, `RunStops`, `Fails` in the others | 779-784: `fork` fails, `pipe_table` loses its last element, and the stage is tried again with its checks and announcements: a `>n` then finds its own pipe and returns early; with no element left the process crashes; a last command left with the write end of its own input is waited for without end |
| `Connect`, `Type`, `HangUp` | the clients |

One iteration of the loop over `user_fds`, with its call of `shell()`, is one
step.  The process has one thread, so the only things that happen meanwhile are
in the clients, and those only add to the sockets' queues.

What is abstracted:

- A line is one message, and a user types the next one when the server has read
  the last.  `read()` of 512 bytes, which may split or join lines, is left out.
- The commands of a pipeline end while `shell()` waits for them, but for the case
  of `RunStops`, and their descriptors are not modelled; a number pipe is the pair (session, line), a user
  pipe the pair of sessions it joins.
- `accept()` returns any free descriptor, which includes the kernel's choice.
- With no free ID, `u.ID` is uninitialised: any index of the tables.  A value
  outside them writes outside the arrays and is left out.
- `max_fd` starts with any value of `Garbage`.  (A stack slot with the largest
  `int` would overflow in `max_fd+1`; left out.)
- `<n` stands in the first stage and `>n` in the last, as the course allows, and
  numbers are indices of the tables.  `>0` is left out: it leads to the
  dereference of `mapUser.end()`.
- A peer that closes answers the first write with a reset; the next write may
  raise SIGPIPE, which ends the process (`alive`).  A peer may also reset at once.
  `wrote` lists what the whole handler had to write, also when the process ends on
  the way; nothing is said of what was written by then.
- `fork` fails at most `ForkFailures` times in a behaviour.

### RwgService: what the server promises

A session per client, the user pipes that wait for a client, and the texts.  No
descriptors, no tables, no loop: `Login` gives the smallest unused ID,
`Command` answers a line.  `ServiceSpec` in `RwgServer` maps a client to the
session found through its socket and ID, and a set bit of `user_pipe_bool` to a
pipe that waits for the client that holds the receiver's ID.  Everything between
two answers is a stutter.  Some corners are promises of the service too: a single
command that cannot make its pipe has taken nothing yet while the first of several
has (`Left`), and a connection that breaks sends empty lines.  When the system has
no process for a command (`OutOfProcesses`), announcements may be repeated and the
line may end in an error or without a prompt, but what was announced holds, and no
session and no pipe of anybody else is touched.

The service says that nobody is `#0` and that `setenv` sets any variable.  The
code does neither (section 6), and so implements the service for users who keep to
`Promised`: no `tell 0`, no `<0`, no `setenv` but of PATH.  The service does not
speak of number pipes: `NumberPipesAreOwn` and `NumberPipeTarget` do, and what a
refused line leaves behind is in section 6.

### Descriptors, NpShell: one shell with its pipes

`Descriptors` is a table of descriptors with the kernel's rules: lowest unused
number first, `dup2`, `close`, and errors on closed numbers ignored, as the
shells ignore them.  `NpShell` is `main()` of `Project1/shell.cpp` and the
client's loop of `Project2/np_simple.cpp` on such a table, with the commands as
processes that run at their own speed against pipes of bounded capacity.  The
two programs differ in two constants: `CloseInLoop`, the kinds of line whose
pipes are closed inside the loop (all of them in npshell, not `|N` in
np_simple), and `UnknownTo`, the stream of "Unknown command".

| Actions | Code (`shell.cpp`; np_simple is the same 70 lines further down) |
|---|---|
| `Enter`, `Empty`, `Builtin`, `Exit` | 113-179: `getline`, what is handled before the pipeline, parsing, `open` |
| `MakePipe` | 202-227: the pipe of a stage, or the number pipe, found or made |
| `Fork` | 229-292: the child's `dup2` and `close` calls up to `exec`, the parent's `close` calls |
| `ForkFails`, `Retry` | 293-298 |
| `Release`, `Wait` | 301-316 |
| `Read`, `Write`, `Finish` | the commands and the kernel |

`pipe_table` and `size` are the vector's storage and its length: after
`pop_back` the code still indexes the element it dropped.

What is abstracted:

- `fork` and what parent and child close after it are one step.  A descriptor
  that closes later delays an end of file and changes nothing else.
- A process that ends is reaped at once: `waitpid` and the SIGCHLD handler
  compete for it in the code, and either outcome lets the shell go on.
- Commands are of two kinds, those that say some chunks and those that pass on
  what they read.  One that reads the terminal waits for the user.
- `!N` is `|N`: the second `dup2`, of stderr, is left out.  `open` succeeds.
- A `fork` failure with an empty `pipe_table` (undefined behaviour of
  `pop_back`) ends in the crash of the loop that follows.

### SocksSession: one session of the SOCKS4 proxy

The process forked for a client, its pending handlers, and the two peers it
stands between.  `pc` is the handler that waits, `reading` the relay loops whose
`async_read_some` is pending, `writing` the loop whose handler is inside
`write()`; `in` and `out` are the kernel's buffers of both sockets, `data` is
`cli_data` and `serv_data`.

| Actions | Code (`socks_server.cpp`) |
|---|---|
| `BadVersion`, `NoRequest`, `do_connect`, `do_bind`, `RefuseBind` | 59-112 and 175-226: the request, its version and command, the firewall for BIND |
| `Resolved`, `ResolveFails` | 227-243 |
| `Connected`, `ConnectFails` | 244-298: the connection, the firewall for CONNECT, the reply, the start of both loops |
| `Accepted`, `AcceptFails` | 326-346, 347-366: the connection that BIND waits for and the second reply, or the refusal when `accept` fails |
| `ReadSome`, `Write`, `WriteFails`, `Ends` | 370-431, for each direction |
| `SendRequest`, `Send`, `Receive`, `Shut`, `Close` | the peers |

What is abstracted:

- A request is read in one piece (62 reads what is there), and `socks.conf`
  with the address is reduced to `rules`, the commands permitted for this
  destination.  Addresses, SOCKS4A names and ports are reduced to the outcome of
  the resolver and of `connect`.
- The connection of the destination and the handler it starts are one step.
- Replies are short and always fit into the client's buffer; a write to a peer
  that has closed may be swallowed or fail.
- Closing a socket with unread input resets the connection, and a reset may cut
  off what the peer has not received yet (`Leave`).
- A client sends data when it has been granted its request, not before.

### SimpleServer, ShellSession, RemoteShell: consoles and the shells they drive

`SimpleServer` is `main()` of np_simple with its processes: the loop that accepts
and forks, and the loop that serves a client inside it.  `new_sock_fd`, `io` (what
is dup'ed to stdin and stdout) and `holds` are a process's descriptors,
`cin_ok` and `left` the state of its `cin` and the contents of its `cout`, which
a child inherits, and `jobs` the sockets that commands of a line `|N` or `!N` still
have, for which the process did not wait (364).  A line says what it says; how it gets
said is `NpShell`.

`ShellSession` is a session of a console program.  `st` is the handler that is
pending, `page` the session's column of the page.  A member of `Proxied` runs the
code of `Project4/console.cpp` with a SOCKS host, the others that of
`Project3/console.cpp`, which is the same without the handshake.

`RemoteShell` puts them together: `backlog`, `up`, `down` and `shut` are the
connections, `Ended` says which of them the server's processes have closed.

| Actions | Code |
|---|---|
| `Accept`, `Fork`, `ForkFails` | `np_simple.cpp` 137-175: the outer loop, the parent's `close`, what the child inherits |
| `PrintPrompt`, `ReadLine`, `Output`, `Wait` | 173-188, 362-372: the prompt, flushed by the next `getline`; a line, `exit`; its commands; the wait, or none after a line `\|N` |
| `JobsEnd` | the commands that were not waited for end, before or after the process |
| `EndOfInput` | 375: the client's process leaves its loop and is back at `accept` |
| `resolve_handler`, `connect_handler`, `send_socks4a_req`, `get_socks4_reply` | `Project4/console.cpp` 89-202; 80-103 of `Project3/console.cpp` |
| `do_read`, `do_write`, `Sent`, `Ends`, `Leave` | 203-275; 104-165 of `Project3/console.cpp` |
| `Grant`, `Refuse` | the proxy: see `SocksSession` |

What is abstracted:

- The text on a connection is a sequence of the two characters of a prompt and of
  pieces of output.  A read takes any number of them up to `MaxRead`, so that a
  prompt can be split, or found together with the output before it.
- `accept` succeeds.  A failing one sends the error message on and forks for the
  previous client's descriptor number; it needs descriptors to run out.
- The child of `fork`, its `dup2` calls and the parent's `close` are one step.
- The commands of a client's lines `|N` end together: while a process serves,
  what they inherit does not change, so only the last to end matters.  They
  write nothing to the client and do not read what it types.
- A relayed connection is the shell server's: the console asks the proxy for the
  address of the proxy itself (163), and the shell is taken to run there.
- A reply of the proxy split behind its code, whose rest would be read as text, is
  left out; one split before the code counts as a refusal, as in the code.
- A console that closes with unread input resets the connection, and what it sent
  before may be lost.

### HttpServer

One thread that accepts, reads and forks (`at`, `environ`), and a process per
connection (`child`, `env`, `holds`, `left`).  A program writes its name, its
query and a number, so that an answer tells whose it is.

| Actions | Code (`http_server.cpp`) |
|---|---|
| `Accept` | 167-182: `do_accept` |
| `Fork`, `ForkFails`, `ReadError` | 90-126: `do_read`, in the server |
| `Exec`, `Dies` | 101-121 and 33-87: the child: `parse_header`, `dup2`, `execl`; what throws or indexes past a vector |
| `Write`, `Finish` | the CGI programs |
| `Connect`, `Ask`, `Leave`, `Receive`, `SeeEnd` | the browsers and the kernel |

What is abstracted: of the environment `CGI_NAME` and `QUERY_STRING` are kept, the
two that decide anything.  A request fits the buffer, is longer (its rest stays
in the socket, which makes the kernel reset the connection in the end), or is torn
before what the parser needs, which ends the child at once, the common outcome of
indexing past the vector.  `LineBuffered` is whether the server's stdout is a
terminal: the status line the server prints is lost in `exec` if it is not, and
doubles the program's own if it is.

### CgiServer

The same in one process (`cgi_server.cpp`), with the console built in.  `environ`
and `Host` are the globals all requests pass through; `st`, `to`, `pos`, `told`
belong to the shell sessions of a console; `down` and `writing` are the stream to
a browser and the writes that wait for room in it.

| Actions | Code (`cgi_server.cpp`) |
|---|---|
| `Accept`, `Panel`, `Console`, `Unknown`, `Crash`, `ReadError` | 370-383, 72-217: `do_accept`, `do_read` of an HttpSession, `parse`, `send_html_content` |
| `Connects`, `do_read`, `Ends` | 225-345: the shell sessions |
| `async_write`, `Copy` | the writes to the browser: what finds room is copied at once, the rest is read from a buffer that no longer exists |
| `Connect`, `Ask`, `Leave`, `Receive` | the browsers |

What is abstracted:

- `Host` stands for `Host`, `Port`, `FileName` and `is_session`, which are set
  together.  A query has a field per column; more fields than columns, which the
  parser would write past its tables, are left out.
- The remote shell says `text` or `prompt`, at most `MaxTexts` texts more than its
  file has lines, or closes.  A prompt split over two reads is in `RemoteShell`.
- Of a file only the lines up to `exit` can be sent; it need not have one
  (`EndsInExit`).
- The handler of `async_send` to the shell only reads again and is part of `do_read`.
- A page that has shown freed memory (`spoilt`) may hold anything and is not
  followed any further.
- Any handler that throws ends the server (`alive`).

## 4. Runs

Deadlock checking is off in all of them: with every line typed the system may
rest.  Symmetry over the clients is used in runs of safety properties only.

| Run | Bounds | Question |
|---|---|---|
| `RwgChat` | 3 clients, 2 IDs, 3 online, hang-ups, 2 lines, `max_fd` garbage below, among and above the descriptors | Do the socket tables, the ID tables and `max_fd` agree while users come and go in any order, vanish, and outnumber the IDs? (`TypeOK` `FdsAgree` `MaxFdCovers` `ReadyIsReadable` `SlotsAgree`) |
| `RwgPipes` | 3 clients, 3 IDs, 4 lines, one failing `fork` | Do names, user pipes and reused IDs stay clean through failing lines, a failing `fork` and leaving users, and does a broadcast reach all? (`NamesDistinct` `SlotsClean` `PipeReceiverIsHolder` `UserFindsSlot` `BroadcastReachesAll`) |
| `RwgService` | 3 clients in turn, 2 online, 3 lines, both kinds of early return among them, one failing `fork` | Does the server implement `RwgService`? Is every line answered and every connection accepted? Do number pipes belong to their session, and does what a line `\|N` writes to go to the line it counts to, past lines that were refused? (`ServiceSpec` `LineServed` `ConnectionAccepted` `NumberPipesAreOwn` `NumberPipeTarget`) |
| `RwgHangup` | small | A disagreement, section 6 |
| `ShRoute` | np_simple; 3 lines, 4 commands, `\|1` and `\|2`, 15 descriptors, 2 chunks in a pipe, one failing `fork` | Does every command get its input, complete and nothing else? (`TypeOK` `Wired` `Delivered`) |
| `ShEnds` | 3 lines, 2 commands, output that fits a pipe, or is read by the next line | Does every line end, and does no descriptor leak? (`ShellHolds` `ReaderNotWriter` `LineEnds`) |
| `ShClose` `ShLarge` | 3 lines | One disagreement each, section 6 |
| `SocksRelay` | every version and command, every set of rules; streams of 2 pieces, reads of up to 2, 3 pieces per peer | Does data arrive in order and complete, do grants mean what they say, is every request answered, and does the session end with its peers? (`TypeOK` `Relayed` `EndIsComplete` `GrantsHold` `Answered` `Passes` `SessionEnds`) |
| `RemoteShell` | 3 sessions (one proxied with a line `\|N` before its exit, one whose command prints a prompt, one with an empty file), 5 processes, reads of up to 3, one failing `fork` | Does the page show what the shell did, who has a connection after `exit`, does every session end? (`TypeOK` `PageIsTranscript` `ExitCloses` `Finishes`) |
| `HttpServer` | 2 browsers; a console with and without a query, a panel in a long request, a missing program, a torn request; 2 pieces per program | Does every browser get the whole answer to its own request, and its end? (`TypeOK` `OwnAnswer` `EofIsComplete` `ResponseEnds`) |
| `CgiServer` | 2 browsers, 2 columns; files of two lines with `exit`, of one without, and of none; one text more; 2 pieces in a stream | Does a console have its own sessions, are the lines in its columns in order, does the response end? (`TypeOK` `OwnSessions` `PageInOrder` `ResponseEnds`) |

Three clients are enough for the tables: one that leaves, one that shifts into
its place, one that takes its ID.  Three lines are enough for a pipe to be made,
its party to leave and the ID to be used again; `RwgPipes` has one more.

Three lines are enough for a shell: two that send to the third, or one that is
overtaken by another.  Four commands are the fewest for which a pipe takes the
descriptor numbers of one the loop has closed.

Fairness: weak fairness of `Server`, the whole process.  The server is a loop
that never gives up a ready descriptor, so the scheduler alone justifies it.
Nothing is assumed of users, who need not type, leave or connect.  For
`NpShell`, weak fairness of the shell's own steps and of the commands taken
together: the kernel runs some process that can run.

For `SocksSession`, weak fairness of the request handlers, of what answers an
asynchronous call (the resolver and `connect` report back sometime), of each
relay loop, and of each peer's reading.  The last one is an assumption about the
peers: `Passes` needs it, because a write that blocks stops both loops.  Nobody
has to send, to close, or to connect to the port of a BIND.  Three pieces per
peer overfill a stream of two, so that a writer blocks while the other direction
has data, and a read can return part of what is there.

Five processes are enough for `RemoteShell`: three clients, the first process,
and one that has fallen into the accept loop and forks for a client itself.  Reads
of 3 hold a prompt and a piece of output, and split either.  Two browsers are
enough for one to inherit the other's socket or environment; a stream of 2 pieces
fills with the table and one text, so that the third write waits.

What three clients cannot show in `RemoteShell` is a prompt that was handed down
from one process with a failed `cin` to another, and sent (`Served`): that takes
four.  Four are too many for a run that also checks liveness; the theorem covers any
number.

For `RemoteShell`, `HttpServer` and `CgiServer`: weak fairness of every process,
of every connection's handlers and of every session, which the kernel and the
io_context give to whatever is ready; of programs and remote shells, which are
taken to end; of a proxy, which answers; of a browser that stays, which reads.
Nobody has to connect, ask or leave.

`LineServed` and `ConnectionAccepted` leave out a server that a failed `fork` has
stopped (`RunStops`).  `JobsEnd` is fair: commands end.

`Finishes` holds from every state of a session, the handshake with the proxy
included, and names its exceptions, each a state the code can really come to: the
prompt was split (`Overlooked`), the process that accepted the client has a
failed `cin` (`Mute`), or `fork` failed for it (`Abandoned`).  `ResponseEnds` of
`CgiServer` holds unless the server has died.

## 5. Proofs

Thirty-one theorems in seven modules, all machine-checked. Each
theorem module proves the inductive invariant of the table's last column (of the
shell three, of the chat server and the consoles two, one on top of the other): that it holds initially, that every action
preserves it (a step per action), and that the properties follow.  `DataFacts`
holds the lemmas about numbers, sequences, prefixes and finite sets that several of
them use.

| Module | Proved of every behaviour | Inductive invariant |
|---|---|---|
| `RwgServer_proofs` | `TypeOK` `FdsAgree` `SlotsAgree` `MaxFdCovers` `ReadyIsReadable`; `UserFindsSlot` `NamesDistinct` `SlotsClean` `PipeReceiverIsHolder` `NumberPipesAreOwn` `BroadcastReachesAll` and the action property `NumberPipeTarget` | `TablesInv`; `SessionInv` |
| `RwgService_proofs` | `ServiceSpec`: the server implements the service | `ServiceInv` |
| `SocksSession_proofs` | `TypeOK` `Relayed` `EndIsComplete` `GrantsHold` | `SocksInv` |
| `HttpServer_proofs` | `TypeOK` `OwnAnswer` `EofIsComplete` | `HttpInv` |
| `CgiServer_proofs` | `TypeOK` `OwnSessions` `PageInOrder` | `CgiInv` |
| `NpShell_proofs` | `TypeOK`; `Wired` `Delivered`; `ShellHolds` `ReaderNotWriter` | `Shape`; `Sound`; `Orderly` |
| `RemoteShell_proofs` | `TypeOK` `ExitCloses`; `PageIsTranscript` | `RemoteInv`; `PageInv` |

### The remote working group server

The theorems on the tables hold for every number of clients, IDs, descriptors and
lines, with hang-ups and with more users than IDs.  None of the four table
invariants is inductive alone.  `TablesInv` is their conjunction with `BacklogOK`
(a waiting client is in the backlog once and is not online).  `SlotsAgree` needs
`FdsAgree` when a user leaves, because the descriptor that is freed must not be
another ID's; `FdsAgree` needs `BacklogOK` when a client is accepted, because it
must not be online already; `MaxFdCovers` needs `FdsAgree` to recompute the
maximum from `user_fds`.  `SlotsAgree` survives an uninitialised `u.ID`: all
entries of the slot that is overwritten change together and still agree.  It is
the other user who has lost the slot.

That is why everything about sessions has the hypothesis `MaxOnline <= MaxID`: no
more clients are connected than there are IDs.  The tables have 30 IDs and the
course promises at most 30 users; with one more, the properties are false
(`new_user()` finds no free ID, `np_single_proc.cpp:880`).  `SessionInv` adds to
`TablesInv` that the clients in the backlog and online fit into the IDs
(`RoomLeft`, whose finite sets give that a free ID exists at every `Accept`), that
a user's socket finds the slot that names the user, and that what was entered
under a line number is that line's pipe (`ReceiverKeys`).  The pieces need each
other: names stay distinct because a freed ID loses its name (`SlotsClean`), which
needs that the ID freed is the leaver's own (`UserFindsSlot`).

`NumberPipesAreOwn` and `NumberPipeTarget` are about the two maps of number pipes.
`map::insert` never replaces an entry, so a line refused after it has entered a pipe
decides where the next line under its number writes, whatever that line's own N.
What remains true is that every pipe written to is read by a later line, that a line
has one to write to and one to read, and that without such an earlier line the pipe
is the one the receiver map has for the N-th line.

`ServiceCorrect` is the refinement.  The mapping reads a client's session from the
tables through its socket and ID, and the pipes that wait for it from
`user_pipe_bool`.  The initial states map to the service's, and each step maps to a
login, to the command that was read, with or without a process for it, or to a
stutter.  Besides `MaxOnline <= MaxID` its hypothesis is `Promised`, about the lines
users may type.  It needs, beyond `SessionInv`, that index 0 of the tables has no name
(`ZeroNameless`), that every environment has a PATH (`PathKnown`), and that what
waits in a socket is a line of the menu (`LinesWait`).

### The proxy's session

`SocksInv` follows one stream, to each peer: what the peer has received, what is in
its socket, what the running handler has yet to write, and what waits to be read
(`Flow`).  While the session relays, the whole is the replies the peer is owed and
then everything the other peer has sent, if the peer still receives, and what has
arrived is a prefix of it (`Carries`).  Before that, nothing but replies has been
written, and the request is one the rules permit as soon as a grant is on its way
(`Unanswered`, `Accepting`).  When the session ends the stream is cut, and it is
complete for a peer whose input had been read (`Served`); a session that never
relayed has said at most its refusals (`Refused`).  Buffers of any size, reads of
any length and any amount of data are covered.

### The HTTP servers

`HttpInv` holds that the server's own environment stays as it was, so that what a
child makes of it is what the request says, and that what a browser has seen, what
is on its way and what the program still has to write are, in this order, the
expected response (`Stream`).  `EofIsComplete` needs one fact more: a process that
runs holds the socket of its own connection (`OwnSocket`), so that an end of file
comes after its last piece.  One assumption is about requests: each that is
parsed to the end names a program (`HttpAssumption`), the value to which
`parse_header` sets `CGI_NAME` last of all (`http_server.cpp:85`).

`CgiInv` has no processes to separate requests: `OwnSessions` rests on the globals
being overwritten by `parse` and read by the same handler (`Own`), for a request that
has a query.  `PageInOrder` is a fact about every column: the commands shown and
those in the stream are the lines up to the session's counter, each once, each
behind a prompt (`Sorted`, `Coming`, `Counted`), as long as no byte of freed memory is
among them.  The assumptions are that a file has a number of lines, at least one
if it ends in `exit`, and that no host of a query is called "None", the code's own
mark of an unused column.

### The consoles and their server

`RemoteInv` is about sockets.  A session connects once (`ConnectsOnce`), so the
connections in the backlog are distinct and known to no process (`Queue`), and
from there a socket has one holder at a time: the process that accepted it, and
after `fork` the child that serves it (`HeldOnce`), because the parent closes its
copy.  Commands that are not waited for have the sockets of the process that ran
them, which are its client's and those it inherited and that nobody serves.  When the
child exits, only such commands of its own have its client's socket (`ExitCloses`).

`PageInv` is about one session's conversation.  Console and server take turns:
either the line is on its way, the page ends with it, and the process of the
session is at `getline` (`Asks`); or the answer is being given, and what of it is on
the page, what is in the socket and what is to come are together the answer
(`Answers`).  The console takes the turn when it sees a prompt, which is at the end
of the answer unless a command prints one (`PromptEnds`); what comes after it is
nothing, so that the page before the next line is the transcript up to there.  This
needs `Speaks`: each client has one process, and a process with a working `cin` has
nothing in its `cout` when it begins to serve.

The proof found that `PageIsTranscript`, as first stated, is false.  The processes
that descend from one with a failed `cin` inherit the prompts in its `cout`, and
when `fork` fails in one of them the message on `cerr` flushes `cout` (the two are
tied): its client gets as many prompts as there were such processes.  That takes
four clients and a failure of `fork`.  The run has three, for which the first
statement held.  The property now leaves out the client of a mute process once
`fork` has failed (`Served`), and the theorem has it for any number of clients and
failures.  No fold or recursion is evaluated: the two equations of `FlattenSeq` are
proved from its definition (`FlattenStep`) by induction on a set of numbers.

### The shell and its pipes

The theorems cover any lines, any number of stages, descriptors and commands, and
pipes of any capacity.  What holds depends on which of the two programs it is
and on the kernel, and each theorem states what it needs:

- `TypeOK` needs nothing: both programs, any failures of `fork`.
- `Wired` and `Delivered` need `Sparing`: every line `...|N` keeps its pipes until
  its loop is over, or has two commands at most.  np_simple meets it whatever the
  lines are (`np_simple.cpp:299`), npshell for such short lines, and `ShClose`
  (section 6) is a line of three for which it fails.  `fork` may fail as often as it
  likes.
- `ShellHolds` and `ReaderNotWriter` also need `ForkFailures = 0`: a failure drops a
  pipe from the table without closing it (`np_simple.cpp:351`), so that it leaks,
  and a last command that is retried reads from a pipe whose write end it keeps.

The argument is in layers, each an invariant that uses those before it.  `Shape`:
where the loop is and what the vector then holds; after a failure `pipe_table`
keeps the dropped entry while `size` says otherwise, so the two are related and
not equal.  `Wiring`: which descriptor numbers are open.  An end of a pipe has one
number (`OwnNumbers`); the pipe of a line that output waits for is open, nobody
reads it yet, and its writers are exactly the last commands of the lines that
number to it (`AwaitedPipes`); two such lines have different pipes (`KeysApart`);
and no number in the table of the line is one of theirs (`NumbersApart`), although
the table still mentions numbers that were closed and given out again.  That last
part is where npshell goes wrong: a third command's number pipe is made when the
numbers of the first pipe are free again.  Of two commands the only pipe is still
open then, np_simple keeps them all open (`TableOpen`), and the other kinds of line
make no number pipe.  `Linked`: from there, each forked command reads the pipe
its feeders write, and nobody else does.  `Flow`: the chunks in a pipe are those
written by its writers and not yet read, and a command that writes holds its end.
At end of file nobody holds the write end, so all writers have ended, and the pipe
is empty, so everything was read (`Delivery`).  `Tidy` is for the last two
theorems: what is open is in the table or awaited (`OnlyNeeded`), the table has
every pipe of the line (`TableWhole`), and no command keeps the write end of its
input (`NotOwn`).  The number of open descriptors then follows from three
disjoint sets: the terminal, and the images of the waiting lines under
`read_fd` and `write_fd`.

`Delivered` sums over the feeders of a command with a fold of the community
modules.  The recursion of that fold is unfolded once for all, by induction on the
size of a finite set (`SumExists`, `SumUnique`), and the proofs use its two
equations only.

### What is only model-checked

- Liveness (`LineServed`, `ConnectionAccepted`, `LineEnds`, `Answered`, `Passes`,
  `SessionEnds`, `Finishes`, `ResponseEnds`): temporal reasoning under fairness and
  `ENABLED` are out of the prover's reach.
- The two properties that section 6 shows violated.

## 6. Disagreements found

Each is a run that TLC must find violated, and a finding in `PROJECT.json`.

- `RwgHangup`: a client that disconnects without `exit` is never removed. `read()`
  returns 0, the comment at 939 expects -1; the prompt written to the closed
  socket ends in SIGPIPE.
- `ShClose`: in npshell the number pipe of `a | b | c |1` takes the descriptor
  numbers of a pipe closed in the loop, and the second `close` of those numbers
  closes it.
- `ShLarge`: children inherit the number pipes of other lines.  A writer blocked
  on one keeps the write end of another open, and the line that reads that one
  never ends.

Others that the models reproduce, without a run of their own:

- The proxy connects to a destination and asks the firewall then
  (`socks_server.cpp:254`); the course puts the firewall first.
- A process of np_simple whose client leaves without `exit` goes on in the accept
  loop (`np_simple.cpp:375`).  The clients it accepts get no prompt: `cin` is in a
  failed state (`Mute`).
- A prompt that arrives in two reads is not seen (`Project4/console.cpp:237`):
  console and shell wait for each other (`Overlooked`).
- A request to the proxy carries the name of the proxy, not of the shell's host
  (`Project4/console.cpp:163`); the models take the shell to run there.
- CGI programs keep the sockets of other browsers open (`http_server.cpp:124`
  closes one, in the server): a response that is complete may not end before
  theirs.
- The HTTP server prints a status line before `execl` (`http_server.cpp:119`): to a
  terminal's stdout it precedes the program's own, else it is lost in the buffer.
- A request of console.cgi without a query ends the Windows server when it is the
  first (`cgi_server.cpp:174`), and otherwise gets the hosts of an earlier browser.
- A line of np_single_proc that fails after entering its number pipe leaves the
  entry behind, under a line number that is used again (484, 526).  The next line counted
  writes to the pipe of the refused one, so a `|1` after a refused `... |2` is read by
  the second line after it (`NumberPipeTarget` says when).
- When `fork` fails in np_single_proc (779), a single command on a line crashes the
  server: `pop_back` of an empty vector makes its size wrap around.  A `>n` that is
  tried again is refused because of the pipe it has just announced, and `<n` is
  announced twice.
- A failed `fork` drops a pipe without closing it (`shell.cpp:296`), while the
  comment at 307 asks for all pipes to be released before the wait.
- A refused BIND is refused twice: `accept()` on the acceptor that was never
  opened fails, and a second 91 follows (`socks_server.cpp:180`, 326-369).
- A name that does not resolve is not answered at all (239).
- The end of one direction ends both: what the other peer sends after that is
  lost (391-398).
- `exit` in np_single_proc clears the user pipes to the user and not those from
  it (267-270), so a later reception names the newcomer with the sender's old ID.
- `cat <2 >3` with no user 3 is announced as received (529-546) although nothing
  is consumed.
- `tell 0` neither reaches anybody nor reports an error (411): `user_list[0]` is
  true.  `ServiceSpec` fails for it, which is why `Promised` leaves it out.
- `setenv` in np_single_proc of a variable that is not PATH does nothing (296);
  left out by `Promised`, too.
- After a line `|N` or `!N` the shell does not wait (`np_simple.cpp:364`): its
  commands keep the client's socket, and `exit` does not close the connection while
  they run (`ExitCloses` allows them).
- `setenv` and `printenv` are not counted as lines (`shell.cpp:125-142`), while
  the course's specification counts them.
- np_simple reports an unknown command on stdout, into the next command's input
  (`np_simple.cpp:73`); npshell uses stderr.

## 7. Not modelled

- The descriptors of np_single_proc's own pipelines, and the `read()` of 512 bytes
  that splits and joins its lines.
- `accept` that fails, in any server; np_simple's zombies, which nothing waits for.
- The proxy's accept loop, which forks a session per client, and the bytes of a
  request.  A destination that stops reading until its own output is read can
  stop a session for good: the peers of the model always read.
- The consoles' buffers: a read that fills `data` leaves it without a terminator,
  and `async_send` may read from a string that is gone when the socket's own buffer
  is full, which takes a command line longer than that buffer.
- The query string, character by character; the variables of the environment that
  nothing here reads; `HttpServer` with its stdout redirected (`LineBuffered`
  FALSE) has no run.
- `do_write` of `http_server.cpp` and `do_hello` of the SOCKS console, which nothing
  calls.
- The test commands (`number`, `removetag`, ...): filters that read stdin, write
  stdout and end.
- The panels and other `.cgi` scripts: they print HTML and keep no state.
- `boost_asio_example`: example code of the library.
- Wording, logging, HTML.
