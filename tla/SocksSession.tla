---------------------------- MODULE SocksSession ----------------------------
(***************************************************************************)
(* One session of src/Project4/socks_server.cpp: the process forked for a  *)
(* client, its handlers, and the two peers it stands between.  The process *)
(* has one thread; a handler that writes blocks it until the kernel has    *)
(* taken everything, and BIND blocks it in accept().                       *)
(*                                                                         *)
(* A peer's k-th piece of data is the number k; replies are 90 and 91.     *)
(* Streams of bytes are sequences of these.                                *)
(***************************************************************************)
EXTENDS Integers, Sequences, FiniteSets, SequencesExt

CONSTANTS
  Requests,     \* the requests a client may send
  Capacity,     \* pieces a stream holds before its writer blocks
  MaxRead,      \* pieces that fit into cli_data or serv_data
  MaxData       \* bound: pieces of data a peer sends

Request == [VN : {4, 5}, CD : {1, 2}]
NoReq   == [VN |-> 0, CD |-> 0]

ASSUME SocksAssumption ==
  /\ Requests \subseteq Request
  /\ Capacity \in Nat \ {0} /\ MaxRead \in Nat \ {0} /\ MaxData \in 0 .. 89

Sides    == {"cli", "serv"}
Other(s) == IF s = "cli" THEN "serv" ELSE "cli"

VARIABLES
  pc,           \* the handler that is pending, or where the process blocks
  req,          \* VN and CD
  rules,        \* the CDs socks.conf permits for this destination
  reading,      \* the sides whose async_read_some is pending
  writing,      \* the side whose data the running handler writes, if any
  data,         \* cli_data and serv_data, what of them is not yet written
  in, out,      \* streams from a peer to its socket, and from there to the peer
  peer,         \* the peers: absent, open, shut (has sent its end), closed
  sent, got     \* how many pieces a peer has sent, and what it has received

proxy == <<pc, req, reading, writing, data>>
vars  == <<proxy, rules, in, out, peer, sent, got>>

Nobody == "nobody"

Init ==
  /\ pc = "request" /\ req = NoReq /\ rules \in SUBSET {1, 2}
  /\ reading = {} /\ writing = Nobody
  /\ data = [s \in Sides |-> <<>>]
  /\ in = [s \in Sides |-> <<>>] /\ out = [s \in Sides |-> <<>>]
  /\ peer = [s \in Sides |-> IF s = "cli" THEN "open" ELSE "absent"]
  /\ sent = [s \in Sides |-> 0] /\ got = [s \in Sides |-> <<>>]

Receiving(s) == peer[s] \in {"open", "shut"}

-----------------------------------------------------------------------------
(* Slips of the kind this code invites.  Each replaces the definition named  *)
(* beside it to see that a property notices; none is part of the model.      *)

WriteSome(s) == <<>>                 \* Unwritten: write_some() in place of write()

HungUp(s) == peer[s] # "open"        \* AtEnd: hang-up noticed before the data

SwappedRules == 3 - req.CD \notin rules     \* is_block: c taken for b

NotRearmed(s) == reading             \* Rearmed: no call of cli_to_serv

OneLoop == {"cli"}                   \* BothLoops: serv_to_cli forgotten

AlreadyReset(s) == reading \cup {writing'}   \* Rearmed: reads a variable too late

Silent == out                        \* FirstReply: only the second one sent

-----------------------------------------------------------------------------
(* Closing both sockets: what is under way still arrives, except that unread *)
(* input makes the kernel reset the connection, which may cut it short.      *)
Leave(written) ==
  /\ pc' = "exited" /\ reading' = {} /\ writing' = Nobody
  /\ data' = [s \in Sides |-> <<>>]
  /\ \E cut \in [Sides -> 0 .. Capacity + 2] :
       /\ \A s \in Sides : IF in[s] = <<>> THEN cut[s] = Len(written[s])
                                           ELSE cut[s] <= Len(written[s])
       /\ out' = [s \in Sides |-> SubSeq(written[s], 1, cut[s])]
  /\ UNCHANGED in

is_block == req.CD \notin rules

(* cli_to_serv() and serv_to_cli(). *)
BothLoops == Sides

Relay == pc' = "relay" /\ reading' = BothLoops /\ UNCHANGED <<writing, data, in>>

(* The stream to the client after a reply of some codes; a write to a client *)
(* that has closed may be swallowed or fail.                                 *)
Replied(codes) ==
  IF Receiving("cli") THEN [out EXCEPT !["cli"] = @ \o codes] ELSE out

MayFail(s) == ~Receiving(s)

-----------------------------------------------------------------------------
(* handle_request(), do_bind() and the resolver. *)

BadVersion ==
  /\ pc = "request" /\ req # NoReq /\ req.VN # 4
  /\ Leave(out)
  /\ UNCHANGED <<req, rules, peer, sent, got>>

(* The client is gone before its request: nothing is pending any more.      *)
NoRequest ==
  /\ pc = "request" /\ req = NoReq /\ peer["cli"] # "open"
  /\ Leave(out)
  /\ UNCHANGED <<req, rules, peer, sent, got>>

do_connect ==
  /\ pc = "request" /\ req.VN = 4 /\ req.CD = 1
  /\ pc' = "resolve"
  /\ UNCHANGED <<req, rules, reading, writing, data, in, out, peer, sent, got>>

(* A refused BIND: accept() on the acceptor that was never opened fails, and *)
(* the refusal is sent again.                                                *)
RefuseBind ==
  /\ pc = "request" /\ req.VN = 4 /\ req.CD = 2 /\ is_block
  /\ \/ Leave(Replied(<<91, 91>>))
     \/ MayFail("cli") /\ Leave(out)
  /\ UNCHANGED <<req, rules, peer, sent, got>>

(* BIND answers first when the port is bound, then when somebody connects.   *)
FirstReply == Replied(<<90>>)

do_bind ==
  /\ pc = "request" /\ req.VN = 4 /\ req.CD = 2 /\ ~is_block
  /\ \/ /\ pc' = "accept" /\ out' = FirstReply
        /\ UNCHANGED <<reading, writing, data, in>>
     \/ MayFail("cli") /\ Leave(out)
  /\ UNCHANGED <<req, rules, peer, sent, got>>

Resolved ==
  /\ pc = "resolve" /\ pc' = "connect"
  /\ UNCHANGED <<req, rules, reading, writing, data, in, out, peer, sent, got>>

(* No handler is pending after the error: the session goes away unanswered. *)
ResolveFails ==
  /\ pc = "resolve" /\ Leave(out)
  /\ UNCHANGED <<req, rules, peer, sent, got>>

-----------------------------------------------------------------------------
(* connect_handler() with do_reply(CONNECT), and the end of do_reply(BIND).  *)

Connects == peer' = [peer EXCEPT !["serv"] = "open"]

Connected ==
  /\ pc = "connect" /\ Connects
  /\ IF is_block
     THEN Leave(Replied(<<91>>)) \/ (MayFail("cli") /\ Leave(out))
     ELSE \/ Relay /\ out' = Replied(<<90>>)
          \/ MayFail("cli") /\ Leave(out)
  /\ UNCHANGED <<req, rules, sent, got>>

ConnectFails ==
  /\ pc = "connect"
  /\ Leave(Replied(<<91>>)) \/ (MayFail("cli") /\ Leave(out))
  /\ UNCHANGED <<req, rules, peer, sent, got>>

Accepted ==
  /\ pc = "accept" /\ Connects
  /\ \/ Relay /\ out' = Replied(<<90>>)
     \/ MayFail("cli") /\ Leave(out)
  /\ UNCHANGED <<req, rules, sent, got>>

(* accept() fails: after the first grant comes a refusal.                    *)
AcceptFails ==
  /\ pc = "accept"
  /\ Leave(Replied(<<91>>)) \/ (MayFail("cli") /\ Leave(out))
  /\ UNCHANGED <<req, rules, peer, sent, got>>

-----------------------------------------------------------------------------
(* The relay: cli_to_serv() for s = "cli", serv_to_cli() for s = "serv".     *)

Idle(s) == writing = Nobody

ReadSome(s) ==
  /\ pc = "relay" /\ s \in reading /\ Idle(s) /\ in[s] # <<>>
  /\ \E k \in 1 .. MaxRead :
       /\ k <= Len(in[s])
       /\ data' = [data EXCEPT ![s] = SubSeq(in[s], 1, k)]
       /\ in' = [in EXCEPT ![s] = SubSeq(@, k + 1, Len(@))]
  /\ reading' = reading \ {s} /\ writing' = s
  /\ UNCHANGED <<pc, req, rules, out, peer, sent, got>>

Rearmed(s) == reading \cup {s}

(* write() goes on until the kernel has taken everything. *)
Unwritten(s) == Tail(data[s])

Wrote(s) ==
  /\ data' = [data EXCEPT ![s] = Unwritten(s)]
  /\ IF Unwritten(s) = <<>>
     THEN writing' = Nobody /\ reading' = Rearmed(s)
     ELSE UNCHANGED <<writing, reading>>
  /\ UNCHANGED <<pc, req, rules, in, peer, sent, got>>

Write(s) ==
  /\ pc = "relay" /\ writing = s
  /\ \/ /\ Receiving(Other(s)) /\ Len(out[Other(s)]) < Capacity
        /\ out' = [out EXCEPT ![Other(s)] = Append(@, Head(data[s]))]
     \/ MayFail(Other(s)) /\ UNCHANGED out
  /\ Wrote(s)

WriteFails(s) ==
  /\ pc = "relay" /\ writing = s /\ MayFail(Other(s))
  /\ Leave(out)
  /\ UNCHANGED <<req, rules, peer, sent, got>>

(* The end of the peer's data, or a reset by a peer that has closed.        *)
AtEnd(s) == in[s] = <<>> /\ peer[s] # "open"

Ends(s) ==
  /\ pc = "relay" /\ s \in reading /\ Idle(s)
  /\ AtEnd(s) \/ peer[s] = "closed"
  /\ Leave(out)
  /\ UNCHANGED <<req, rules, peer, sent, got>>

-----------------------------------------------------------------------------
(* The peers.  A client sends data once its request is granted.              *)

(* CONNECT has one reply and BIND two.                                       *)
Grants       == [k \in 1 .. req.CD |-> 90]
Granted(seq) == req # NoReq /\ IsPrefix(Grants, seq)
Relaying(s)  == s = "serv" \/ Granted(got["cli"])

SendRequest(r) ==
  /\ peer["cli"] = "open" /\ req = NoReq /\ pc = "request"
  /\ req' = r
  /\ UNCHANGED <<pc, rules, reading, writing, data, in, out, peer, sent, got>>

Send(s) ==
  /\ pc # "exited" /\ peer[s] = "open" /\ Relaying(s)
  /\ sent[s] < MaxData /\ Len(in[s]) < Capacity
  /\ sent' = [sent EXCEPT ![s] = @ + 1]
  /\ in' = [in EXCEPT ![s] = Append(@, sent[s] + 1)]
  /\ UNCHANGED <<proxy, rules, out, peer, got>>

Receive(s) ==
  /\ Receiving(s) /\ out[s] # <<>>
  /\ got' = [got EXCEPT ![s] = Append(@, Head(out[s]))]
  /\ out' = [out EXCEPT ![s] = Tail(@)]
  /\ UNCHANGED <<proxy, rules, in, peer, sent>>

Shut(s) ==
  /\ pc # "exited" /\ peer[s] = "open"
  /\ peer' = [peer EXCEPT ![s] = "shut"]
  /\ UNCHANGED <<proxy, rules, in, out, sent, got>>

Close(s) ==
  /\ Receiving(s)
  /\ peer' = [peer EXCEPT ![s] = "closed"] /\ out' = [out EXCEPT ![s] = <<>>]
  /\ UNCHANGED <<proxy, rules, in, sent, got>>

-----------------------------------------------------------------------------
Request_ == BadVersion \/ NoRequest \/ do_connect \/ RefuseBind \/ do_bind
Opening  == Resolved \/ ResolveFails \/ Connected \/ ConnectFails
Loop(s)  == ReadSome(s) \/ Write(s) \/ WriteFails(s) \/ Ends(s)
Process  == Request_ \/ Opening \/ \E s \in Sides : Loop(s)

Peer(s) == Send(s) \/ Receive(s) \/ Shut(s) \/ Close(s)

Next ==
  \/ Process \/ Accepted \/ AcceptFails
  \/ \E r \in Requests : SendRequest(r)
  \/ \E s \in Sides : Peer(s)

Spec == Init /\ [][Next]_vars

(* The process runs, the resolver and connect() report back sometime, and    *)
(* what has arrived at a peer is read.  Nobody has to send, to close, or to  *)
(* connect to the port of a BIND.                                            *)
FairSpec ==
  /\ Spec /\ WF_vars(Request_) /\ WF_vars(Opening)
  /\ \A s \in Sides : WF_vars(Loop(s)) /\ WF_vars(Receive(s))

-----------------------------------------------------------------------------
Codes    == {90, 91}
Refusals == {<<91>>, <<91, 91>>, <<90, 91>>}
AllOf(s) == [k \in 1 .. sent[s] |-> k]
ToClient == got["cli"] \o out["cli"]

(* What is to come to o before the other's data; and all that has left s, in  *)
(* the order in which it is going to arrive.                                 *)
Before(o)  == IF o = "cli" THEN Grants ELSE <<>>
Arrived(o) == got[o] \o out[o]
Flow(s)    == (Arrived(Other(s)) \o data[s]) \o in[s]

Piece == 1 .. MaxData

(* Every variable stays within its type. *)
TypeOK ==
  /\ pc \in {"request", "resolve", "connect", "accept", "relay", "exited"}
  /\ req \in Requests \cup {NoReq} /\ rules \subseteq {1, 2}
  /\ reading \subseteq Sides /\ writing \in Sides \cup {Nobody}
  /\ data \in [Sides -> Seq(Piece)] /\ in \in [Sides -> Seq(Piece)]
  /\ out \in [Sides -> Seq(Piece \cup Codes)] /\ got \in [Sides -> Seq(Piece \cup Codes)]
  /\ peer \in [Sides -> {"absent", "open", "shut", "closed"}]
  /\ sent \in [Sides -> 0 .. MaxData]

(* What a peer has received is, in order and without gaps or repetitions,   *)
(* the beginning of what the other has sent (for the client, after all the  *)
(* grants of its request, if it has not been refused); while the session    *)
(* relays, and the receiver is there, nothing is lost on the way.           *)
Relayed ==
  \A s \in Sides :
    LET o == Other(s) IN
    /\ \/ IsPrefix(got[o], Before(o) \o AllOf(s))
       \/ o = "cli" /\ \E r \in Refusals : IsPrefix(got[o], r)
    /\ pc = "relay" /\ Receiving(o) => Flow(s) = Before(o) \o AllOf(s)

(* A session that ends because a peer has sent its end delivers all that    *)
(* this peer has sent, if the other one has neither closed nor sent data    *)
(* that was never read.                                                     *)
EndIsComplete ==
  \A s \in Sides :
    LET o == Other(s) IN
    pc = "exited" /\ peer[s] = "shut" /\ peer[o] = "open" /\ in[o] = <<>>
      => Arrived(o) = Before(o) \o AllOf(s)

(* The client is granted only what socks.conf permits, and in the end only a *)
(* connection that exists (for BIND the second grant); it receives data only *)
(* after the last grant, and never when it has been refused.                 *)
GrantsHold ==
  /\ 90 \in Range(ToClient) => req.CD \in rules
  /\ Granted(ToClient) => peer["serv"] # "absent" /\ 91 \notin Range(ToClient)
  /\ Range(ToClient) \subseteq Codes \/ Granted(ToClient)

(* A request is answered, or the client's connection is closed.             *)
Answered == req # NoReq ~> got["cli"] # <<>> \/ pc = "exited" \/ peer["cli"] = "closed"

(* Every piece of data a peer sends arrives, unless the session ends or the *)
(* receiver has closed; a full stream in one direction holds up the other   *)
(* one only for a time.                                                     *)
Passes ==
  \A s \in Sides : \A k \in Piece :
    (pc = "relay" /\ sent[s] >= k)
      ~> \/ k \in Range(got[Other(s)])
         \/ pc = "exited" \/ peer[Other(s)] = "closed"

(* When a peer closes, the session ends and the other peer sees it.         *)
SessionEnds == \A s \in Sides : pc = "relay" /\ peer[s] = "closed" ~> pc = "exited"
=============================================================================
