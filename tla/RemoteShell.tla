---------------------------- MODULE RemoteShell ----------------------------
(***************************************************************************)
(* Console sessions (ShellSession) at work with the server of np_simple    *)
(* (SimpleServer): one connection per session, directly or through a SOCKS *)
(* server, carrying lines one way and text the other.                      *)
(***************************************************************************)
EXTENDS Integers, Sequences, FiniteSets, SequencesExt

CONSTANTS Sessions, File, Proxied, MaxRead, NoClient, Processes, ForkFailures

VARIABLES
  st, pos, flg_exit, page, reply,
  at, new_sock_fd, io, holds, cin_ok, left, jobs, failures,
  backlog, up, down, shut

Prompt == <<<<"%", 0>>, <<" ", 0>>>>

Server  == INSTANCE SimpleServer WITH Clients <- Sessions
Console == INSTANCE ShellSession WITH ended <- Server!Ended

ASSUME RemoteShellAssumption == Server!ConstantsOK /\ Console!ConstantsOK

console == <<st, pos, flg_exit, page, reply>>
server  == <<at, new_sock_fd, io, holds, cin_ok, left, jobs, failures>>
vars    == <<console, server, backlog, up, down, shut>>

Init ==
  /\ Console!Init /\ Server!Init
  /\ backlog = <<>> /\ shut = {}
  /\ up = [s \in Sessions |-> <<>>] /\ down = [s \in Sessions |-> <<>>]

Next ==
  \/ Console!Next /\ UNCHANGED server
  \/ Server!Next /\ UNCHANGED console

Spec == Init /\ [][Next]_vars

(* Every process, the console included, runs, a proxy answers, and commands *)
(* end.                                                                     *)
FairSpec ==
  /\ Spec
  /\ \A s \in Sessions : /\ WF_vars(Console!Session(s) /\ UNCHANGED server)
                         /\ WF_vars(Console!Proxy(s) /\ UNCHANGED server)
  /\ \A p \in Processes : /\ WF_vars(Server!Process(p) /\ UNCHANGED console)
                          /\ WF_vars(Server!JobsEnd(p) /\ UNCHANGED console)

-----------------------------------------------------------------------------
TypeOK ==
  /\ Console!TypeOK /\ Server!TypeOK
  /\ backlog \in Seq(Sessions) /\ shut \subseteq Sessions
  /\ up \in [Sessions -> Seq([k : Nat, op : {"run", "later", "exit"}, says : Seq(Console!Text)])]
  /\ down \in [Sessions -> Seq(Console!Text)]

(* The page of a session as its file and the shell would have it: a prompt, *)
(* the line, what the line prints, and the next prompt.                     *)
Answer(l) == IF l.op = "exit" THEN <<>> ELSE l.says \o Prompt

Transcript(s) ==
  Prompt \o FlattenSeq([k \in DOMAIN File[s] |-> <<Console!Cmd(k)>> \o Answer(File[s][k])])

(* A command that prints something that looks like a prompt. *)
Deceptive(s) == \E k \in DOMAIN File[s] : Console!HasPrompt(File[s][k].says)

(* The process that should serve the client has the failed cin of a process  *)
(* whose own client left without exit.                                       *)
Mute(s) == \E p \in Processes : io[p] = s /\ ~cin_ok[p]

(* The page shows each command right after its prompt and before its output, *)
(* each once and in the order of the file, with nothing missing in between.  *)
(* A mute process does not serve its client, and keeps the prompts for it,   *)
(* and those of the mute processes it comes from, in its cout: an error of   *)
(* fork() sends them all at once.                                            *)
Served(s) == failures = 0 \/ ~Mute(s)

PageIsTranscript ==
  \A s \in Sessions : ~Deceptive(s) /\ Served(s) => IsPrefix(page[s], Transcript(s))

(* A session waits for more although the prompt is on its page: the two      *)
(* characters came in two reads.                                             *)
Overlooked(s) == st[s] = "read" /\ Len(page[s]) > 1
                 /\ SubSeq(page[s], Len(page[s]) - 1, Len(page[s])) = Prompt

(* There is no process to serve the client: fork() failed.                   *)
Abandoned(s) == \E p \in Processes : at[p] = "accept" /\ s \in holds[p] /\ io[p] # s

(* Every session comes to its end, except when its prompt was split or when  *)
(* the server has nobody to serve it.                                        *)
Finishes ==
  \A s \in Sessions :
    st[s] # "done" ~> st[s] = "done" \/ Overlooked(s) \/ Mute(s) \/ Abandoned(s)

(* When the process that serves a client has exited, nobody has the client's *)
(* socket but commands of that client's own lines ... |N that have not ended *)
(* yet: no other process, and no command of another client.                  *)
ExitCloses ==
  \A p \in Processes : at[p] = "gone" =>
    \A q \in Processes : io[p] \notin holds[q] /\ (io[p] \in jobs[q] => q = p)
=============================================================================
