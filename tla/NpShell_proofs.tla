--------------------------- MODULE NpShell_proofs ---------------------------
(***************************************************************************)
(* The shell joins commands as the line numbering and the bars say, hands  *)
(* on every chunk, and neither leaks a descriptor nor closes one that a    *)
(* later line needs: for any lines, any number of stages and descriptors,  *)
(* pipes of any capacity.  What the code does of its own accord differs    *)
(* with the program and the kernel, and the theorems say which they need:  *)
(*   - a line ...|N keeps its pipes until the loop over its commands is    *)
(*     over, or has two commands at most (Sparing): np_simple's always do, *)
(*     npshell's only if they are as short as that;                        *)
(*   - fork() does not fail (ForkFailures = 0), where a failure leaks.     *)
(*                                                                         *)
(* The argument has a part about the shell's descriptors (which numbers    *)
(* are open, and that none is both in the table of the line and an end of  *)
(* a number pipe that waits), one about who reads and writes each pipe,    *)
(* and one about the chunks in it.                                         *)
(***************************************************************************)
EXTENDS NpShell, DataFacts, FiniteSetTheorems

Busy == {"pipe", "fork", "retry"}       \* in the loop over the commands
Live == pc \notin {"gone", "crashed"}

Descr == {Closed, Tty, File} \cup {ReadEnd(k) : k \in 1 .. Len(buf)}
                             \cup {WriteEnd(k) : k \in 1 .. Len(buf)}

ProcType == [st : {"none", "running", "ended"}, reads : BOOLEAN, in : Descr, out : Descr,
             held : SUBSET Descr, left : Nat, got : Nat, wrote : Nat, eof : BOOLEAN]

Types == TypeOK /\ procs \in [Proc -> ProcType]

(* No line ...|N of more than two commands has its pipes closed in the loop. *)
Sparing == \A l \in Lines : l.op = "run" /\ l.kind = "number" =>
             "number" \notin CloseInLoop \/ Len(l.cmds) <= 2

(* Where the loop is, and what the vector holds then.                       *)
Position ==
  /\ \A k \in 1 .. Len(lines) : /\ lines[k] \in Lines
                                /\ Len(lines[k].cmds) \in 1 .. MaxStages
                                /\ lines[k].num > 0 <=> lines[k].kind = "number"
  /\ Len(lines) <= counted
  /\ pc \in {"prompt", "gone"} => Len(lines) = instr_cnt
  /\ pc \notin {"prompt", "gone"} => Len(lines) = instr_cnt + 1
  /\ pc \in Busy \cup {"crashed"} => i \in 1 .. n
  /\ pc \in {"release", "wait"} => i = n + 1

Table ==
  /\ Len(pipe_table) <= MaxStages - 1
  /\ Live => size \in 0 .. Len(pipe_table)
  /\ pc \in Busy => i - 1 <= Len(pipe_table)
  /\ pc \in {"pipe", "retry"} => /\ size <= i - 1
                                 /\ Between => size = i - 1
  /\ pc = "fork" => IF Between THEN size = i /\ Len(pipe_table) = i ELSE size <= n - 1
  /\ pc \in {"release", "wait"} => size <= n - 1

(* The descriptors that the next child will use are numbers.                *)
FileFd   == pc \in Busy /\ Line.kind = "file" => file_fd \in Fd
SenderFd == pc = "fork" /\ LastNumber => NP_sender_map[instr_cnt] # NoPipe

Shape == Types /\ Position /\ Table /\ FileFd /\ SenderFd

(* The commands forked so far are those before command i.                   *)
Done(p) == \/ p[1] < instr_cnt /\ p[2] <= Len(lines[p[1] + 1].cmds)
           \/ p[1] = instr_cnt /\ pc \in Busy \cup {"release", "wait"} /\ p[2] < i

ForkedSoFar == Live => \A p \in Proc : p \in Forked <=> Done(p)

-----------------------------------------------------------------------------
(* The shell's descriptors. *)

(* 0, 1 and 2 are the terminal, and nothing else is; an end of a pipe has    *)
(* one number; the file of a redirection is open until the last command.    *)
OwnNumbers == Live =>
  /\ \A f \in Fd : fds[f] = Tty <=> f <= 2
  /\ \A f \in Fd, g \in Fd : fds[f] = fds[g] /\ fds[f] \notin {Closed, Tty} => f = g
  /\ pc \in Busy /\ Line.kind = "file" => fds[file_fd] = File
  /\ \A f \in Fd : fds[f] = File => pc \in Busy /\ Line.kind = "file" /\ f = file_fd

(* q is pipe r. *)
Is(q, r) == fds[q.read_fd] = ReadEnd(r) /\ fds[q.write_fd] = WriteEnd(r)

Fds(q) == {q.read_fd, q.write_fd}

(* The lines whose input still waits in a number pipe.                      *)
Untaken    == pc = "prompt" \/ (pc \in Busy /\ i = 1)
Awaited(k) == NP_receiver_map[k] # NoPipe /\ (k > instr_cnt \/ (k = instr_cnt /\ Untaken))

NoReader(r) == \A p \in Forked : procs[p].in # ReadEnd(r)
Writers(r)  == {p \in Forked : procs[p].out = WriteEnd(r)}

(* p is the last command of a line that numbers to line k.                   *)
NumbersTo(p, k) ==
  LET l == lines[p[1] + 1] IN
  l.kind = "number" /\ p[1] + l.num = k /\ p = LastCommand(p[1])

AwaitedPipes == Live => \A k \in Keys : Awaited(k) =>
  \E r \in 1 .. Len(buf) :
    /\ Is(NP_receiver_map[k], r) /\ NoReader(r)
    /\ Writers(r) = {p \in Forked : NumbersTo(p, k)}

(* There is an entry for a line just when another one numbers to it.        *)
Entered == Live => \A p \in Forked :
  lines[p[1] + 1].kind = "number" /\ p = LastCommand(p[1]) =>
    NP_receiver_map[p[1] + lines[p[1] + 1].num] # NoPipe

Meant == Live => \A k \in Keys : NP_receiver_map[k] # NoPipe =>
  \E m \in 0 .. Len(lines) - 1 :
    /\ lines[m + 1].kind = "number" /\ m + lines[m + 1].num = k
    /\ m < instr_cnt \/ NP_sender_map[m] # NoPipe

KeysApart == Live => \A k \in Keys, j \in Keys :
  Awaited(k) /\ Awaited(j) /\ NP_receiver_map[k] = NP_receiver_map[j] => k = j

Sending == Live => \A k \in Keys : NP_sender_map[k] # NoPipe =>
  \/ k < instr_cnt
  \/ /\ k = instr_cnt /\ pc # "prompt" /\ Line.kind = "number" /\ i >= n
     /\ NP_receiver_map[Key] = NP_sender_map[k]

(* Closing what the table of the line mentions closes no number pipe.       *)
NumbersApart == Live => \A k \in Keys : Awaited(k) =>
  \A j \in 1 .. Len(pipe_table) : Fds(NP_receiver_map[k]) \cap Fds(pipe_table[j]) = {}

(* The pipes between the commands of the line.                              *)
TableNumbers == \A j \in 1 .. Len(pipe_table) : \A f \in Fds(pipe_table[j]) : f > 2

TableOpen == pc \in Busy /\ Line.kind = "number" =>
  \A j \in 1 .. Len(pipe_table) : \A f \in Fds(pipe_table[j]) : fds[f] # Closed

PipeBefore == pc \in Busy /\ i > 1 =>
  \E r \in 1 .. Len(buf) :
    Is(pipe_table[i - 1], r) /\ NoReader(r) /\ Writers(r) = {<<instr_cnt, i - 1>>}

PipeAfter == pc = "fork" /\ Between =>
  \E r \in 1 .. Len(buf) : Is(pipe_table[i], r) /\ NoReader(r) /\ Writers(r) = {}

-----------------------------------------------------------------------------
(* The commands. *)

(* Who writes to a pipe that somebody reads.                                *)
Joined == \A p \in Forked : FromPipe(p) => Writers(procs[p].in[2]) = Feeders(p)

(* What was written to a pipe and not read is in it.                        *)
Written(v, S) == MapThenSumSet(LAMBDA f : v[f].wrote, S)

Balanced == \A r \in 1 .. Len(buf) :
  /\ NoReader(r) => buf[r] = Written(procs, Writers(r))
  /\ \A p \in Forked : procs[p].in = ReadEnd(r) =>
       buf[r] + procs[p].got = Written(procs, Writers(r))

HeldOut == \A p \in Running : ToPipe(p) => procs[p].out \in procs[p].held

-----------------------------------------------------------------------------
(* Without failures of fork(). *)

OnlyNeeded == Live => \A f \in Fd : fds[f] \notin {Closed, Tty, File} =>
  \/ \E k \in Keys : Awaited(k) /\ f \in Fds(NP_receiver_map[k])
  \/ pc \in Busy \cup {"release"} /\ f \in TableFds(pipe_table, size)

TableWhole == pc \in Busy /\ i > 1 => size >= i - 1

NotOwn == \A p \in Running : FromPipe(p) => WriteEnd(procs[p].in[2]) \notin procs[p].held

-----------------------------------------------------------------------------
(* Sums over sets of commands. *)
Chosen(s) == CHOOSE x \in s : TRUE

Unfolding(v, S, g) ==
  [s \in SUBSET S |-> IF s = {} THEN 0 ELSE v[Chosen(s)].wrote + g[s \ {Chosen(s)}]]

(* g is the sum on the sets with up to k elements.                          *)
SumUpto(v, S, g, k) ==
  /\ g = [s \in SUBSET S |-> g[s]]
  /\ \A s \in SUBSET S : Cardinality(s) <= k => g[s] = Unfolding(v, S, g)[s]

(* Taking the chosen element away leaves a smaller set.                     *)
LEMMA ChosenAway ==
  ASSUME NEW S, IsFiniteSet(S), NEW s \in SUBSET S, s # {}
  PROVE  /\ Chosen(s) \in s /\ s \ {Chosen(s)} \in SUBSET S
         /\ Cardinality(s) \in Nat \ {0}
         /\ Cardinality(s \ {Chosen(s)}) = Cardinality(s) - 1
<1>1. Chosen(s) \in s
  BY DEF Chosen
<1>2. IsFiniteSet(s) /\ Cardinality(s) \in Nat
  BY FS_Subset, FS_CardinalityType
<1>3. Cardinality(s) # 0
  BY <1>2, FS_EmptySet
<1>4. Cardinality(s \ {Chosen(s)}) = Cardinality(s) - 1
  BY <1>1, <1>2, FS_RemoveElement
<1> QED BY <1>1, <1>2, <1>3, <1>4

LEMMA NoElements ==
  ASSUME NEW S, IsFiniteSet(S), NEW s \in SUBSET S, Cardinality(s) <= 0
  PROVE  s = {}
<1> SUFFICES ASSUME s # {} PROVE FALSE
  OBVIOUS
<1>1. Cardinality(s) \in Nat \ {0}
  BY ChosenAway
<1> QED BY <1>1

(* The recursion of the sum has a solution.                                 *)
LEMMA SumExists ==
  ASSUME NEW v, NEW S, IsFiniteSet(S)
  PROVE  \E g : g = Unfolding(v, S, g)
<1> DEFINE M == {k \in Nat : \E g : SumUpto(v, S, g, k)}
<1>1. 0 \in M
  <2> DEFINE g == [s \in SUBSET S |-> 0]
  <2>1. \A s \in SUBSET S : Cardinality(s) <= 0 => s = {}
    BY NoElements
  <2>2. SumUpto(v, S, g, 0)
    BY <2>1 DEF Unfolding, SumUpto
  <2> HIDE DEF g
  <2> QED BY <2>2
<1>2. \A k \in M : k + 1 \in M
  <2> SUFFICES ASSUME NEW k \in Nat, NEW g, SumUpto(v, S, g, k)
               PROVE  \E h : SumUpto(v, S, h, k + 1)
    OBVIOUS
  <2> DEFINE h == Unfolding(v, S, g)
  <2>2. ASSUME NEW s \in SUBSET S, Cardinality(s) <= k + 1 PROVE h[s] = Unfolding(v, S, h)[s]
    <3>1. CASE s = {}
      BY <3>1 DEF Unfolding
    <3>2. CASE s # {}
      <4> DEFINE t == s \ {Chosen(s)}
      <4>1. t \in SUBSET S /\ Cardinality(t) <= k
        BY <2>2, <3>2, ChosenAway
      <4>2. g[t] = h[t]
        BY <4>1 DEF SumUpto
      <4> HIDE DEF t
      <4> QED BY <3>2, <4>2 DEF Unfolding, t
    <3> QED BY <3>1, <3>2
  <2>3. h = [s \in SUBSET S |-> h[s]]
    BY DEF Unfolding
  <2> HIDE DEF h
  <2>4. SumUpto(v, S, h, k + 1)
    BY <2>2, <2>3 DEF SumUpto
  <2> QED BY <2>4
<1>3. Cardinality(S) \in M
  <2>1. M \in SUBSET Nat /\ Cardinality(S) \in Nat
    BY FS_CardinalityType
  <2> HIDE DEF M
  <2> QED BY <1>1, <1>2, <2>1, SetInduction
<1>5. PICK g : SumUpto(v, S, g, Cardinality(S))
  BY <1>3
<1>6. \A s \in SUBSET S : g[s] = Unfolding(v, S, g)[s]
  BY <1>5, FS_Subset DEF SumUpto
<1>7. g = [s \in SUBSET S |-> g[s]]
  BY <1>5 DEF SumUpto
<1>8. Unfolding(v, S, g) = [s \in SUBSET S |-> Unfolding(v, S, g)[s]]
  BY DEF Unfolding
<1>9. g = Unfolding(v, S, g)
  BY <1>6, <1>7, <1>8
<1> QED BY <1>9

(* And only one, which looks at the elements alone.                         *)
LEMMA SumUnique ==
  ASSUME NEW v, NEW w, NEW S, NEW T, IsFiniteSet(S), NEW g, NEW h,
         g = Unfolding(v, S, g), h = Unfolding(w, T, h),
         NEW t \in SUBSET (S \cap T), \A x \in t : v[x].wrote = w[x].wrote
  PROVE  g[t] = h[t]
<1> DEFINE Same(k) == \A s \in SUBSET t : Cardinality(s) <= k => g[s] = h[s]
           M == {k \in Nat : Same(k)}
<1>1. g[{}] = 0 /\ h[{}] = 0
  BY DEF Unfolding
<1>2. 0 \in M
  <2>1. IsFiniteSet(t) /\ \A s \in SUBSET t : Cardinality(s) <= 0 => s = {}
    BY NoElements, FS_Subset
  <2> QED BY <1>1, <2>1
<1>3. ASSUME NEW k \in Nat, Same(k) PROVE Same(k + 1)
  <2> SUFFICES ASSUME NEW s \in SUBSET t, Cardinality(s) <= k + 1, s # {}
               PROVE  g[s] = h[s]
    BY <1>1
  <2> DEFINE r == s \ {Chosen(s)}
  <2>1. Chosen(s) \in s /\ r \in SUBSET t /\ Cardinality(r) <= k
    <3>1. s \in SUBSET S
      OBVIOUS
    <3>2. /\ Chosen(s) \in s /\ Cardinality(s) \in Nat
          /\ Cardinality(r) = Cardinality(s) - 1
      BY <3>1, ChosenAway
    <3> QED BY <3>2
  <2>2. g[r] = h[r] /\ v[Chosen(s)].wrote = w[Chosen(s)].wrote
    BY <1>3, <2>1
  <2>3. g[s] = v[Chosen(s)].wrote + g[r]
    BY DEF Unfolding
  <2>4. h[s] = w[Chosen(s)].wrote + h[r]
    BY DEF Unfolding
  <2> QED BY <2>2, <2>3, <2>4
<1>4. IsFiniteSet(t) /\ Cardinality(t) \in M
  <2>1. IsFiniteSet(t) /\ M \in SUBSET Nat /\ Cardinality(t) \in Nat
    BY FS_CardinalityType, FS_Subset
  <2>2. \A k \in M : k + 1 \in M
    BY <1>3
  <2> HIDE DEF M
  <2> QED BY <1>2, <2>1, <2>2, SetInduction
<1> QED BY <1>4

LEMMA WrittenIs ==
  ASSUME NEW v, NEW S, IsFiniteSet(S)
  PROVE  \E g : g = Unfolding(v, S, g) /\ Written(v, S) = g[S]
<1>1. Written(v, S) = (CHOOSE g : g = Unfolding(v, S, g))[S]
  BY DEF Written, MapThenSumSet, MapThenFoldSet, Unfolding, Chosen
<1> QED BY <1>1, SumExists

(* The sum of no numbers is 0, and otherwise one of them and the others'.   *)
LEMMA WrittenStep ==
  ASSUME NEW v, NEW S, IsFiniteSet(S)
  PROVE  /\ S = {} => Written(v, S) = 0
         /\ S # {} => Written(v, S) = v[Chosen(S)].wrote + Written(v, S \ {Chosen(S)})
<1>1. PICK g : g = Unfolding(v, S, g) /\ Written(v, S) = g[S]
  BY WrittenIs
<1>2. CASE S = {}
  BY <1>1, <1>2 DEF Unfolding
<1>3. CASE S # {}
  <2> DEFINE T == S \ {Chosen(S)}
  <2>1. IsFiniteSet(T) /\ T \in SUBSET S
    BY FS_Subset
  <2>2. PICK h : h = Unfolding(v, T, h) /\ Written(v, T) = h[T]
    BY <2>1, WrittenIs
  <2>3. g[T] = h[T]
    <3>1. T \in SUBSET (S \cap T) /\ \A x \in T : v[x].wrote = v[x].wrote
      OBVIOUS
    <3> HIDE DEF T
    <3> QED BY <1>1, <2>2, <3>1, SumUnique
  <2>4. g[S] = v[Chosen(S)].wrote + g[T]
    BY <1>1, <1>3 DEF Unfolding
  <2> QED BY <1>1, <1>3, <2>2, <2>3, <2>4
<1> QED BY <1>2, <1>3

LEMMA WrittenSame ==
  ASSUME NEW v, NEW w, NEW S, IsFiniteSet(S), \A x \in S : v[x].wrote = w[x].wrote
  PROVE  Written(v, S) = Written(w, S)
<1>1. PICK g : g = Unfolding(v, S, g) /\ Written(v, S) = g[S]
  BY WrittenIs
<1>2. PICK h : h = Unfolding(w, S, h) /\ Written(w, S) = h[S]
  BY WrittenIs
<1>3. S \in SUBSET (S \cap S)
  OBVIOUS
<1> QED BY <1>1, <1>2, <1>3, SumUnique

(* The order does not matter.                                               *)
SumGood(v, s) == /\ Written(v, s) \in Nat
                 /\ \A x \in s : Written(v, s) = v[x].wrote + Written(v, s \ {x})

LEMMA WrittenGood ==
  ASSUME NEW v, NEW S, IsFiniteSet(S), \A x \in S : v[x].wrote \in Nat
  PROVE  SumGood(v, S)
<1> DEFINE Upto(k) == \A s \in SUBSET S : Cardinality(s) <= k => SumGood(v, s)
           M == {k \in Nat : Upto(k)}
<1>0. \A s \in SUBSET S : IsFiniteSet(s) /\ Cardinality(s) \in Nat
  BY FS_Subset, FS_CardinalityType
<1>1. SumGood(v, {})
  <2>1. Written(v, {}) = 0
    BY WrittenStep, FS_EmptySet
  <2> QED BY <2>1 DEF SumGood
<1>2. 0 \in M
  <2>1. \A s \in SUBSET S : Cardinality(s) <= 0 => s = {}
    BY NoElements
  <2> QED BY <1>1, <2>1
<1>3. ASSUME NEW k \in Nat, Upto(k) PROVE Upto(k + 1)
  <2> SUFFICES ASSUME NEW s \in SUBSET S, Cardinality(s) <= k + 1, s # {}
               PROVE  SumGood(v, s)
    BY <1>1
  <2> DEFINE c == Chosen(s)
  <2>1. c \in s /\ Written(v, s) = v[c].wrote + Written(v, s \ {c}) /\ v[c].wrote \in Nat
    BY <1>0, ChosenAway, WrittenStep
  <2>2. \A x \in s : s \ {x} \in SUBSET S /\ Cardinality(s \ {x}) <= k
    BY <1>0, FS_RemoveElement
  <2>3. \A x \in s : SumGood(v, s \ {x})
    BY <1>3, <2>2
  <2>4. Written(v, s) \in Nat
    BY <2>1, <2>3 DEF SumGood
  <2>5. ASSUME NEW x \in s, x # c PROVE Written(v, s) = v[x].wrote + Written(v, s \ {x})
    <3> DEFINE r == (s \ {c}) \ {x}
    <3>1. Written(v, s \ {c}) = v[x].wrote + Written(v, r)
      BY <2>1, <2>3, <2>5 DEF SumGood
    <3>2. r = (s \ {x}) \ {c} /\ c \in s \ {x}
      BY <2>1, <2>5
    <3>3. Written(v, s \ {x}) = v[c].wrote + Written(v, r)
      BY <2>3, <3>2 DEF SumGood
    <3>4. Cardinality(r) <= k /\ r \in SUBSET S
      <4>1. Cardinality(r) <= Cardinality(s \ {c}) /\ Cardinality(r) \in Nat
        BY <1>0, <2>1, <2>2, FS_Subset
      <4>2. Cardinality(s \ {c}) \in Nat
        BY <1>0, <2>2, <2>1
      <4> QED BY <2>1, <2>2, <4>1, <4>2
    <3>5. Written(v, r) \in Nat /\ v[x].wrote \in Nat
      BY <1>3, <3>4 DEF SumGood
    <3> HIDE DEF r
    <3> QED BY <2>1, <3>1, <3>3, <3>5
  <2> QED BY <2>1, <2>4, <2>5 DEF SumGood
<1>4. Cardinality(S) \in M
  <2>1. M \in SUBSET Nat /\ Cardinality(S) \in Nat
    BY <1>0
  <2>2. \A k \in M : k + 1 \in M
    BY <1>3
  <2> HIDE DEF M
  <2> QED BY <1>2, <2>1, <2>2, SetInduction
<1> QED BY <1>0, <1>4

-----------------------------------------------------------------------------
(* The operators. *)

LEMMA DescrFacts ==
  /\ \A q, r : /\ ReadEnd(q) = ReadEnd(r) => q = r
               /\ WriteEnd(q) = WriteEnd(r) => q = r
               /\ ReadEnd(q) # WriteEnd(r)
  /\ \A q : /\ ReadEnd(q) \notin {Closed, Tty, File} /\ WriteEnd(q) \notin {Closed, Tty, File}
            /\ ReadEnd(q)[1] = "read" /\ ReadEnd(q)[2] = q
            /\ WriteEnd(q)[1] = "write" /\ WriteEnd(q)[2] = q
  /\ Closed # Tty /\ Closed # File /\ Tty # File
  /\ \A d \in {Closed, Tty, File} : d[1] # "read" /\ d[1] # "write"
BY DEF ReadEnd, WriteEnd, Closed, Tty, File

(* A descriptor that says it is an end of a pipe is one.                     *)
LEMMA EndFacts ==
  ASSUME NEW d \in Descr
  PROVE  /\ d[1] = "read" <=> \E r \in 1 .. Len(buf) : d = ReadEnd(r)
         /\ d[1] = "write" <=> \E r \in 1 .. Len(buf) : d = WriteEnd(r)
         /\ d[1] = "read" => d = ReadEnd(d[2]) /\ d[2] \in 1 .. Len(buf)
         /\ d[1] = "write" => d = WriteEnd(d[2]) /\ d[2] \in 1 .. Len(buf)
BY DescrFacts DEF Descr

LEMMA FdFacts ==
  /\ 0 \in Fd /\ 1 \in Fd /\ 2 \in Fd /\ STDIN_FILENO = 0 /\ STDOUT_FILENO = 1
  /\ Fd \subseteq Nat /\ -1 \notin Fd /\ IsFiniteSet(Fd)
<1>1. MaxFd \in Nat /\ MaxFd >= 2
  BY MaxFdAssumption
<1>2. IsFiniteSet(Fd)
  BY <1>1, FS_Interval DEF Fd
<1> QED BY <1>1, <1>2 DEF Fd, STDIN_FILENO, STDOUT_FILENO

LEMMA PipeFacts ==
  /\ NoPipe \notin Pipe
  /\ \A q \in Pipe : q.read_fd \in Fd /\ q.write_fd \in Fd
  /\ \A q \in Pipe, r \in Pipe : q.read_fd = r.read_fd /\ q.write_fd = r.write_fd => q = r
<1>1. NoPipe \notin Pipe
  BY FdFacts DEF NoPipe, Pipe
<1> QED BY <1>1 DEF Pipe

(* The lowest unused number.                                                *)
LEMMA PlaceFacts ==
  ASSUME NEW t, Unused(t) # {}
  PROVE  /\ Min(Unused(t)) \in Fd /\ t[Min(Unused(t))] = Closed
         /\ \A d : Place(t, d) = [t EXCEPT ![Min(Unused(t))] = d]
<1>1. Unused(t) \in SUBSET Nat
  BY FdFacts DEF Unused
<1>2. Min(Unused(t)) \in Unused(t)
  BY <1>1, NatMin
<1> QED BY <1>2 DEF Unused, Place

(* pipe() takes two unused numbers.                                         *)
LEMMA OpenFacts ==
  ASSUME NEW t, t = [f \in Fd |-> t[f]], Cardinality(Unused(t)) >= 2, NEW r,
         \A f \in Fd : t[f] # ReadEnd(r) /\ t[f] # WriteEnd(r)
  PROVE  \E a \in Fd, b \in Fd :
           /\ a # b /\ t[a] = Closed /\ t[b] = Closed
           /\ OpenPipe(t, r) = [t EXCEPT ![a] = ReadEnd(r), ![b] = WriteEnd(r)]
           /\ Ends(OpenPipe(t, r), r) = [read_fd |-> a, write_fd |-> b]
<1> DEFINE a == Min(Unused(t))
           u == [t EXCEPT ![a] = ReadEnd(r)]
           b == Min(Unused(u))
<1>1. IsFiniteSet(Unused(t)) /\ Unused(t) # {}
  <2>1. IsFiniteSet(Unused(t))
    BY FdFacts, FS_Subset DEF Unused
  <2> QED BY <2>1, FS_EmptySet
<1>2. a \in Fd /\ t[a] = Closed /\ Place(t, ReadEnd(r)) = u
  BY <1>1, PlaceFacts
<1>3. Unused(u) = Unused(t) \ {a}
  BY <1>2, DescrFacts DEF Unused
<1>4. Unused(u) # {}
  <2>1. a \in Unused(t)
    BY <1>2 DEF Unused
  <2> HIDE DEF a, u
  <2>2. Cardinality(Unused(t) \ {a}) = Cardinality(Unused(t)) - 1 /\ Cardinality(Unused(t)) \in Nat
    BY <1>1, <2>1, FS_RemoveElement, FS_CardinalityType
  <2>3. Cardinality(Unused(t) \ {a}) # 0
    BY <2>2
  <2> QED BY <1>3, <2>3, FS_EmptySet
<1>5. b \in Fd /\ u[b] = Closed /\ Place(u, WriteEnd(r)) = [u EXCEPT ![b] = WriteEnd(r)]
  BY <1>4, PlaceFacts
<1> HIDE DEF b
<1>6. b # a /\ t[b] = Closed
  BY <1>2, <1>5, DescrFacts
<1> DEFINE w == [t EXCEPT ![a] = ReadEnd(r), ![b] = WriteEnd(r)]
<1>7. OpenPipe(t, r) = w
  BY <1>2, <1>5 DEF OpenPipe
<1> HIDE DEF a, u
<1>8. /\ w[a] = ReadEnd(r) /\ w[b] = WriteEnd(r)
      /\ \A f \in Fd : f # a => w[f] # ReadEnd(r)
      /\ \A f \in Fd : f # b => w[f] # WriteEnd(r)
  BY <1>2, <1>5, <1>6, DescrFacts
<1>9. Find(w, ReadEnd(r)) = a /\ Find(w, WriteEnd(r)) = b
  <2> HIDE DEF w
  <2> QED BY <1>2, <1>5, <1>8 DEF Find
<1>10. Ends(w, r) = [read_fd |-> a, write_fd |-> b]
  BY <1>9 DEF Ends
<1> QED BY <1>2, <1>5, <1>6, <1>7, <1>10

-----------------------------------------------------------------------------
(* What the steps do, said once. *)

NewPipe(a, b) == [read_fd |-> a, write_fd |-> b]

Opened(a, b) ==
  /\ a \in Fd /\ b \in Fd /\ a # b /\ fds[a] = Closed /\ fds[b] = Closed
  /\ fds' = [fds EXCEPT ![a] = ReadEnd(fresh), ![b] = WriteEnd(fresh)]
  /\ buf' = Append(buf, 0)

LEMMA OpensFacts ==
  ASSUME TypeOK, Opens
  PROVE  \E a, b : Opened(a, b) /\ Ends(fds', fresh) = NewPipe(a, b)
<1>1. fds = [f \in Fd |-> fds[f]] /\ Len(buf) \in Nat
  BY DEF TypeOK
<1>2. \A f \in Fd : fds[f] # ReadEnd(fresh) /\ fds[f] # WriteEnd(fresh)
  <2>1. \A f \in Fd : fds[f] \in Descr
    BY DEF TypeOK, Descr
  <2>2. fresh \notin 1 .. Len(buf)
    BY <1>1 DEF fresh
  <2> QED BY <2>1, <2>2, DescrFacts DEF Descr
<1>3. Cardinality(Unused(fds)) >= 2 /\ fds' = OpenPipe(fds, fresh) /\ buf' = Append(buf, 0)
  BY DEF Opens
<1>4. PICK a \in Fd, b \in Fd :
        /\ a # b /\ fds[a] = Closed /\ fds[b] = Closed
        /\ OpenPipe(fds, fresh) = [fds EXCEPT ![a] = ReadEnd(fresh), ![b] = WriteEnd(fresh)]
        /\ Ends(OpenPipe(fds, fresh), fresh) = [read_fd |-> a, write_fd |-> b]
  BY <1>1, <1>2, <1>3, OpenFacts
<1> QED BY <1>3, <1>4 DEF Opened, NewPipe

MakesBetween(a, b) ==
  /\ Between /\ Opened(a, b)
  /\ pipe_table' = Append(SubSeq(pipe_table, 1, size), NewPipe(a, b)) /\ size' = size + 1
  /\ UNCHANGED <<NP_sender_map, NP_receiver_map>>

MakesNumber(a, b) ==
  /\ LastNumber /\ NP_receiver_map[Key] = NoPipe /\ Opened(a, b)
  /\ NP_sender_map' = Insert(NP_sender_map, instr_cnt, NewPipe(a, b))
  /\ NP_receiver_map' = Insert(NP_receiver_map, Key, NewPipe(a, b))
  /\ UNCHANGED <<pipe_table, size>>

FindsNumber ==
  /\ LastNumber /\ NP_receiver_map[Key] # NoPipe
  /\ NP_sender_map' = Insert(NP_sender_map, instr_cnt, NP_receiver_map[Key])
  /\ UNCHANGED <<NP_receiver_map, pipe_table, size, fds, buf>>

MakesNone ==
  /\ i = n /\ ~LastNumber
  /\ UNCHANGED <<NP_sender_map, NP_receiver_map, pipe_table, size, fds, buf>>

(* The four things a pass of the loop does about pipes before it forks.     *)
LEMMA MakeFacts ==
  ASSUME TypeOK, MakePipe
  PROVE  /\ pc = "pipe" /\ pc' = "fork"
         /\ UNCHANGED <<i, instr_cnt, lines, counted, file_fd, procs, blocked, failures>>
         /\ \/ \E a, b : MakesBetween(a, b) \/ MakesNumber(a, b)
            \/ FindsNumber \/ MakesNone
<1>1. pc = "pipe" /\ pc' = "fork"
      /\ UNCHANGED <<i, instr_cnt, lines, counted, file_fd, procs, blocked, failures>>
  BY DEF MakePipe
<1>2. CASE /\ Between /\ Opens
           /\ pipe_table' = Append(SubSeq(pipe_table, 1, size), Ends(fds', fresh))
           /\ size' = size + 1
           /\ UNCHANGED <<NP_sender_map, NP_receiver_map>>
  <2>1. PICK a, b : Opened(a, b) /\ Ends(fds', fresh) = NewPipe(a, b)
    BY <1>2, OpensFacts
  <2>2. MakesBetween(a, b)
    BY <1>2, <2>1 DEF MakesBetween
  <2> QED BY <1>1, <2>2
<1>3. CASE /\ LastNumber /\ ~Joins /\ Opens
           /\ NP_sender_map' = Insert(NP_sender_map, instr_cnt, Ends(fds', fresh))
           /\ NP_receiver_map' = Insert(NP_receiver_map, Key, Ends(fds', fresh))
           /\ UNCHANGED <<pipe_table, size>>
  <2>1. PICK a, b : Opened(a, b) /\ Ends(fds', fresh) = NewPipe(a, b)
    BY <1>3, OpensFacts
  <2>2. MakesNumber(a, b)
    BY <1>3, <2>1 DEF MakesNumber, Joins
  <2> QED BY <1>1, <2>2
<1>4. CASE /\ Joins
           /\ NP_sender_map' = Insert(NP_sender_map, instr_cnt, NP_receiver_map[Key])
           /\ UNCHANGED <<NP_receiver_map, pipe_table, size, fds, buf>>
  <2>1. FindsNumber
    BY <1>4 DEF FindsNumber, Joins
  <2> QED BY <1>1, <2>1
<1>5. CASE /\ i = n /\ ~LastNumber
           /\ UNCHANGED <<NP_sender_map, NP_receiver_map, pipe_table, size, fds, buf>>
  <2>1. MakesNone
    BY <1>5 DEF MakesNone
  <2> QED BY <1>1, <2>1
<1> QED BY <1>2, <1>3, <1>4, <1>5 DEF MakePipe

(* A step of a command: what it is joined to stays, and the shell does not   *)
(* move.                                                                     *)
Moves(p) ==
  /\ p \in Running /\ UNCHANGED shell
  /\ Len(buf') = Len(buf)
  /\ \A q \in Proc : q # p => procs'[q] = procs[q]
  /\ procs'[p].st \in {"running", "ended"} /\ procs'[p].reads = procs[p].reads
  /\ procs'[p].in = procs[p].in /\ procs'[p].out = procs[p].out
  /\ procs'[p].held \in {procs[p].held, {}}
  /\ procs'[p].st = "running" => procs'[p].held = procs[p].held

LEMMA NatSteps == \A x \in Nat : x + 1 \in Nat /\ (x > 0 => x - 1 \in Nat)
OBVIOUS

(* What the steps of a command have in common.                              *)
LEMMA Stepped ==
  ASSUME procs \in [Proc -> ProcType], NEW p \in Running, UNCHANGED shell, Len(buf') = Len(buf),
         NEW e,
         \/ procs[p].got \in Nat /\ e = [procs[p] EXCEPT !.got = @ + 1, !.left = 1]
         \/ procs[p].left > 0 /\ e = [procs[p] EXCEPT !.left = @ - 1, !.wrote = @ + 1]
         \/ \E b \in BOOLEAN : e = [procs[p] EXCEPT !.st = "ended", !.held = {}, !.eof = b],
         procs' = [procs EXCEPT ![p] = e]
  PROVE  Moves(p) /\ Forked' = Forked /\ procs' \in [Proc -> ProcType']
<1>1. p \in Proc /\ procs[p] \in ProcType /\ procs[p].st = "running"
  BY DEF Running
<1>2. e \in ProcType
  <2> DEFINE Of(st, held, left, got, wrote, eof) ==
        [st |-> st, reads |-> procs[p].reads, in |-> procs[p].in, out |-> procs[p].out,
         held |-> held, left |-> left, got |-> got, wrote |-> wrote, eof |-> eof]
  <2>1. /\ procs[p].reads \in BOOLEAN /\ procs[p].in \in Descr /\ procs[p].out \in Descr
        /\ procs[p].held \in SUBSET Descr /\ procs[p].left \in Nat /\ procs[p].got \in Nat
        /\ procs[p].wrote \in Nat /\ procs[p].eof \in BOOLEAN
    BY <1>1, Zenon DEF ProcType
  <2>0. procs[p] = Of(procs[p].st, procs[p].held, procs[p].left, procs[p].got,
                      procs[p].wrote, procs[p].eof)
    BY <1>1, Zenon DEF ProcType
  <2>2. \A st \in {"none", "running", "ended"}, held \in SUBSET Descr, left \in Nat, got \in Nat,
           wrote \in Nat, eof \in BOOLEAN : Of(st, held, left, got, wrote, eof) \in ProcType
    BY <2>1, Zenon DEF ProcType
  <2>3. CASE e = [procs[p] EXCEPT !.got = @ + 1, !.left = 1]
    <3>1. procs[p].got + 1 \in Nat /\ 1 \in Nat
      BY <2>1, NatSteps
    <3>2. e = Of(procs[p].st, procs[p].held, 1, procs[p].got + 1, procs[p].wrote, procs[p].eof)
      BY <2>0, <2>3
    <3> HIDE DEF Of
    <3> QED BY <1>1, <2>1, <2>2, <3>1, <3>2
  <2>4. CASE procs[p].left > 0 /\ e = [procs[p] EXCEPT !.left = @ - 1, !.wrote = @ + 1]
    <3>1. PICK l \in Nat, w \in Nat : l = procs[p].left /\ w = procs[p].wrote
      BY <2>1
    <3>2. l - 1 \in Nat /\ w + 1 \in Nat
      BY <2>4, NatSteps, <3>1
    <3>3. e = Of(procs[p].st, procs[p].held, l - 1, procs[p].got, w + 1, procs[p].eof)
      BY <2>0, <2>4, <3>1
    <3> HIDE DEF Of
    <3> QED BY <1>1, <2>1, <2>2, <3>2, <3>3
  <2>5. CASE \E b \in BOOLEAN : e = [procs[p] EXCEPT !.st = "ended", !.held = {}, !.eof = b]
    <3>1. PICK b \in BOOLEAN : e = [procs[p] EXCEPT !.st = "ended", !.held = {}, !.eof = b]
      BY <2>5
    <3>2. e = Of("ended", {}, procs[p].left, procs[p].got, procs[p].wrote, b)
      BY <2>0, <3>1
    <3>3. {} \in SUBSET Descr
      OBVIOUS
    <3> HIDE DEF Of
    <3> QED BY <2>1, <2>2, <3>2, <3>3
  <2> QED BY <2>3, <2>4, <2>5
<1>3. ProcType' = ProcType
  BY DEF ProcType, Descr
<1>4. procs' \in [Proc -> ProcType'] /\ \A q \in Proc : procs'[q] = IF q = p THEN e ELSE procs[q]
  BY <1>1, <1>2, <1>3
<1>5. /\ e.st \in {"running", "ended"} /\ e.reads = procs[p].reads
      /\ e.in = procs[p].in /\ e.out = procs[p].out /\ e.held \in {procs[p].held, {}}
      /\ e.st = "running" => e.held = procs[p].held
  BY <1>1 DEF ProcType
<1>6. Forked' = Forked
  BY <1>1, <1>4, <1>5 DEF Forked
<1> QED BY <1>1, <1>4, <1>5, <1>6 DEF Moves

(* Every step of a command is such a move.                                  *)
LEMMA RunFacts ==
  ASSUME Types, NEW p \in Proc, Run(p)
  PROVE  Moves(p) /\ Forked' = Forked /\ procs' \in [Proc -> ProcType']
         /\ buf' \in Seq(0 .. Capacity)
<1>1. procs \in [Proc -> ProcType] /\ buf \in Seq(0 .. Capacity) /\ Capacity \in Nat
      /\ p \in Proc
  BY ShellAssumption DEF Types, TypeOK
<1>2. p \in Running
  BY DEF Run, Read, Write, Finish
<1>3. CASE Read(p)
  <2> DEFINE in == procs[p].in[2]
  <2>1. /\ procs' = [procs EXCEPT ![p].got = @ + 1, ![p].left = 1]
        /\ buf' = [buf EXCEPT ![in] = @ - 1] /\ UNCHANGED shell /\ FromPipe(p) /\ buf[in] > 0
    BY <1>3 DEF Read
  <2>2. in \in 1 .. Len(buf)
    BY <1>1, <2>1, EndFacts DEF FromPipe, ProcType
  <2>3. Len(buf') = Len(buf) /\ buf' \in Seq(0 .. Capacity)
    BY <1>1, <2>1, <2>2
  <2>4. procs' = [procs EXCEPT ![p] = [procs[p] EXCEPT !.got = @ + 1, !.left = 1]]
    BY <2>1
  <2>5. procs[p].got \in Nat
    BY <1>1 DEF ProcType
  <2> QED BY <1>1, <1>2, <2>1, <2>3, <2>4, <2>5, Stepped
<1>4. CASE Write(p)
  <2> DEFINE out == procs[p].out[2]
  <2>1. /\ procs' = [procs EXCEPT ![p].left = @ - 1, ![p].wrote = @ + 1]
        /\ UNCHANGED shell /\ procs[p].left > 0
        /\ IF ToPipe(p) THEN buf[out] < Capacity /\ buf' = [buf EXCEPT ![out] = @ + 1]
                        ELSE buf' = buf
    BY <1>4 DEF Write
  <2>2. ToPipe(p) => out \in 1 .. Len(buf)
    BY <1>1, EndFacts DEF ToPipe, ProcType
  <2>3. Len(buf') = Len(buf) /\ buf' \in Seq(0 .. Capacity)
    BY <1>1, <2>1, <2>2
  <2>4. procs' = [procs EXCEPT ![p] = [procs[p] EXCEPT !.left = @ - 1, !.wrote = @ + 1]]
    BY <2>1
  <2> QED BY <1>1, <1>2, <2>1, <2>3, <2>4, Stepped
<1>5. CASE Finish(p)
  <2>1. /\ procs' = [procs EXCEPT ![p].st = "ended", ![p].held = {},
                            ![p].eof = procs[p].left = 0 /\ procs[p].reads /\ AtEOF(p)]
        /\ UNCHANGED <<shell, buf>>
    BY <1>5 DEF Finish
  <2>2. (procs[p].left = 0 /\ procs[p].reads /\ AtEOF(p)) \in BOOLEAN
    BY <1>1 DEF AtEOF, ProcType, Holds, FromPipe
  <2>3. PICK e \in BOOLEAN : e = (procs[p].left = 0 /\ procs[p].reads /\ AtEOF(p))
    BY <2>2
  <2>4. procs' = [procs EXCEPT ![p] = [procs[p] EXCEPT !.st = "ended", !.held = {}, !.eof = e]]
    BY <2>1, <2>3
  <2>5. Len(buf') = Len(buf) /\ buf' \in Seq(0 .. Capacity)
    BY <1>1, <2>1
  <2> QED BY <1>1, <1>2, <2>1, <2>4, <2>5, Stepped
<1> QED BY <1>3, <1>4, <1>5 DEF Run

-----------------------------------------------------------------------------
(* The shape of the state. *)

LEMMA ConstantTypes ==
  /\ MaxLines \in Nat /\ MaxStages \in Nat /\ MaxStages >= 1 /\ MaxNum \in Nat
  /\ Capacity \in Nat /\ ForkFailures \in Nat
BY ShellAssumption

LEMMA RunLines ==
  ASSUME NEW l \in Lines, l.op = "run"
  PROVE  /\ l \in RunLine /\ Len(l.cmds) \in 1 .. MaxStages
         /\ l.num > 0 <=> l.kind = "number"
BY ShellLineAssumption

(* The current line is one of those that may be entered.                    *)
LEMMA LineFacts ==
  ASSUME TypeOK, Position, pc \notin {"prompt", "gone"}
  PROVE  /\ instr_cnt \in 0 .. MaxLines - 1 /\ instr_cnt + 1 = Len(lines)
         /\ Line \in RunLine /\ Line.kind \in Kinds /\ n \in 1 .. MaxStages
         /\ Line.num \in 0 .. MaxNum /\ (Line.num > 0 <=> Line.kind = "number")
         /\ instr_cnt \in Keys /\ Key \in Keys
         /\ \A j \in 1 .. n : Line.cmds[j] \in Command
<1>1. /\ lines \in Seq(RunLine) /\ counted \in 0 .. MaxLines /\ instr_cnt \in 0 .. MaxLines
      /\ Len(lines) = instr_cnt + 1 /\ Len(lines) <= counted
  BY DEF TypeOK, Position
<1>2. instr_cnt \in 0 .. MaxLines - 1 /\ instr_cnt + 1 \in 1 .. Len(lines)
  BY <1>1, ConstantTypes
<1>3. Line \in RunLine
  BY <1>1, <1>2 DEF Line
<1>4. /\ Line.kind \in Kinds /\ Line.num \in 0 .. MaxNum /\ Line.cmds \in Seq(Command)
  BY <1>3 DEF RunLine
<1>5. n \in 1 .. MaxStages /\ (Line.num > 0 <=> Line.kind = "number")
  BY <1>2 DEF Position, Line, n
<1>6. \A j \in 1 .. n : Line.cmds[j] \in Command
  BY <1>4 DEF n
<1>7. instr_cnt \in Keys /\ Key \in Keys
  BY <1>2, <1>4, ConstantTypes DEF Keys, Key
<1> QED BY <1>1, <1>2, <1>3, <1>4, <1>5, <1>6, <1>7

(* The table's entries and the maps' are pipes.                              *)
LEMMA TableFacts ==
  ASSUME TypeOK, NEW j \in 1 .. Len(pipe_table)
  PROVE  pipe_table[j] \in Pipe /\ Fds(pipe_table[j]) \subseteq Fd
<1>1. pipe_table[j] \in Pipe
  BY DEF TypeOK
<1> QED BY <1>1, PipeFacts DEF Fds

LEMMA MapFacts ==
  ASSUME TypeOK, NEW k \in Keys
  PROVE  /\ NP_receiver_map[k] # NoPipe =>
              NP_receiver_map[k] \in Pipe /\ Fds(NP_receiver_map[k]) \subseteq Fd
         /\ NP_sender_map[k] # NoPipe =>
              NP_sender_map[k] \in Pipe /\ Fds(NP_sender_map[k]) \subseteq Fd
<1>1. NP_receiver_map[k] \in Pipe \cup {NoPipe} /\ NP_sender_map[k] \in Pipe \cup {NoPipe}
  BY DEF TypeOK
<1> QED BY <1>1, PipeFacts DEF Fds

LEMMA FdsType == TypeOK <=> TypeOK /\ fds \in [Fd -> Descr]
BY DEF TypeOK, Descr

LEMMA Dup2Type ==
  ASSUME NEW t \in [Fd -> Descr], NEW a \in Fd, NEW b \in Fd
  PROVE  Dup2(t, a, b) \in [Fd -> Descr]
BY DEF Dup2

LEMMA CloseType ==
  ASSUME NEW t \in [Fd -> Descr], NEW a
  PROVE  Close(t, a) \in [Fd -> Descr]
BY DEF Close, Descr

LEMMA CloseAllType ==
  ASSUME NEW t \in [Fd -> Descr], NEW A
  PROVE  CloseAll(t, A) \in [Fd -> Descr]
BY DEF CloseAll, Descr

(* The child, case by case.                                                  *)
LEMMA StdinIs ==
  ASSUME NEW t
  PROVE  /\ i > 1 => WithStdin(t) = Dup2(t, pipe_table[i - 1].read_fd, 0)
         /\ ~(i > 1) /\ NP_receiver_map[instr_cnt] # NoPipe =>
              LET q == NP_receiver_map[instr_cnt] IN
              WithStdin(t) = Close(Dup2(Close(t, q.write_fd), q.read_fd, 0), q.read_fd)
         /\ ~(i > 1) /\ NP_receiver_map[instr_cnt] = NoPipe => WithStdin(t) = t
BY FdFacts DEF WithStdin, TakeNumberPipe

LEMMA StdoutIs ==
  ASSUME NEW t, i \in Nat, n \in Nat
  PROVE  /\ Between => WithStdout(t) = Dup2(t, pipe_table[i].write_fd, 1)
         /\ i = n /\ Line.kind = "file" =>
              WithStdout(t) = Close(Dup2(t, file_fd, 1), file_fd)
         /\ LastNumber =>
              LET q == NP_sender_map[instr_cnt] IN
              WithStdout(t) = Close(Dup2(Close(t, q.read_fd), q.write_fd, 1), q.write_fd)
         /\ ~Between /\ ~(i = n /\ Line.kind = "file") /\ ~LastNumber => WithStdout(t) = t
<1>1. CASE Between
  <2>1. ~(i = n)
    BY <1>1 DEF Between
  <2> QED BY <1>1, <2>1, FdFacts DEF WithStdout, LastNumber
<1>2. CASE i = n /\ Line.kind = "file"
  <2>1. ~Between /\ ~LastNumber
    BY <1>2 DEF Between, LastNumber
  <2> QED BY <1>2, <2>1, FdFacts DEF WithStdout
<1>3. CASE LastNumber
  <2>1. ~Between /\ ~(i = n /\ Line.kind = "file")
    BY <1>3 DEF Between, LastNumber
  <2> QED BY <1>3, <2>1, FdFacts DEF WithStdout, GiveNumberPipe
<1>4. CASE ~Between /\ ~(i = n /\ Line.kind = "file") /\ ~LastNumber
  BY <1>4 DEF WithStdout
<1> QED BY <1>1, <1>2, <1>3, <1>4

LEMMA ChildType ==
  ASSUME Shape, pc = "fork"
  PROVE  ChildFds \in [Fd -> Descr]
<1>1. fds \in [Fd -> Descr] /\ 0 \in Fd /\ 1 \in Fd /\ STDIN_FILENO = 0 /\ STDOUT_FILENO = 1
  BY FdsType, FdFacts DEF Shape, Types
<1>2. /\ i \in 1 .. n /\ n \in Nat /\ instr_cnt \in Keys /\ Len(pipe_table) \in Nat
      /\ i - 1 <= Len(pipe_table) /\ (Between => i = Len(pipe_table))
  <2>1. /\ TypeOK /\ Position /\ Table
    BY DEF Shape, Types
  <2>2. i \in 1 .. n /\ n \in Nat /\ instr_cnt \in Keys
    BY <2>1, LineFacts DEF Position, Busy
  <2>3. Len(pipe_table) \in Nat
    BY <2>1 DEF TypeOK
  <2> QED BY <2>1, <2>2, <2>3 DEF Table, Busy
<1>3. WithStdin(fds) \in [Fd -> Descr]
  <2>1. CASE i > 1
    <3>1. i - 1 \in 1 .. Len(pipe_table)
      BY <1>2, <2>1
    <3>2. pipe_table[i - 1].read_fd \in Fd
      BY <3>1, TableFacts DEF Shape, Types, Fds
    <3> QED BY <1>1, <2>1, <3>2, Dup2Type DEF WithStdin
  <2>2. CASE i <= 1 /\ NP_receiver_map[instr_cnt] # NoPipe
    <3>1. NP_receiver_map[instr_cnt].read_fd \in Fd
      BY <1>2, <2>2, MapFacts DEF Shape, Types, Fds
    <3>2. ~(i > 1)
      BY <1>2, <2>2
    <3> QED BY <1>1, <2>2, <3>1, <3>2, Dup2Type, CloseType DEF WithStdin, TakeNumberPipe
  <2>3. CASE i <= 1 /\ NP_receiver_map[instr_cnt] = NoPipe
    BY <1>1, <1>2, <2>3 DEF WithStdin
  <2> QED BY <1>2, <2>1, <2>2, <2>3
<1> DEFINE t == WithStdin(fds)
<1>4. WithStdout(t) \in [Fd -> Descr]
  <2> HIDE DEF t
  <2>0. i \in Nat /\ n \in Nat /\ t \in [Fd -> Descr]
    BY <1>2, <1>3 DEF t
  <2>1. CASE Between
    <3>1. pipe_table[i].write_fd \in Fd
      BY <1>2, <2>1, TableFacts DEF Shape, Types, Fds
    <3> QED BY <1>1, <2>0, <2>1, <3>1, Dup2Type, StdoutIs
  <2>2. CASE i = n /\ Line.kind = "file"
    <3>1. file_fd \in Fd
      BY <2>2 DEF Shape, FileFd, Busy
    <3>2. Dup2(t, file_fd, 1) \in [Fd -> Descr]
      BY <1>1, <2>0, <3>1, Dup2Type
    <3> QED BY <2>0, <2>2, <3>2, CloseType, StdoutIs
  <2>3. CASE LastNumber
    <3> DEFINE q == NP_sender_map[instr_cnt]
    <3>1. q.write_fd \in Fd
      BY <1>2, <2>3, MapFacts DEF Shape, Types, SenderFd, Fds
    <3>2. Dup2(Close(t, q.read_fd), q.write_fd, 1) \in [Fd -> Descr]
      BY <1>1, <2>0, <3>1, Dup2Type, CloseType
    <3> QED BY <2>0, <2>3, <3>2, CloseType, StdoutIs
  <2>4. CASE ~Between /\ ~(i = n /\ Line.kind = "file") /\ ~LastNumber
    BY <2>0, <2>4, StdoutIs
  <2> QED BY <2>1, <2>2, <2>3, <2>4
<1> QED BY <1>4, CloseAllType DEF ChildFds

(* The process that exec() starts.                                          *)
LEMMA ExecType ==
  ASSUME NEW cmd \in Command, NEW t \in [Fd -> Descr]
  PROVE  /\ Exec(cmd, t) \in ProcType
         /\ Exec(cmd, t).st = "running" /\ Exec(cmd, t).in = t[0] /\ Exec(cmd, t).out = t[1]
         /\ Exec(cmd, t).held = Held(t) /\ Exec(cmd, t).got = 0 /\ Exec(cmd, t).wrote = 0
         /\ Exec(cmd, t).eof = FALSE
<1>1. cmd.reads \in BOOLEAN /\ cmd.says \in Nat /\ cmd.known \in BOOLEAN
  BY DEF Command
<1>2. Held(t) \in SUBSET Descr /\ t[0] \in Descr /\ t[1] \in Descr
  BY FdFacts DEF Held
<1>3. (IF cmd.known THEN cmd.says ELSE IF UnknownTo = "stdout" THEN 1 ELSE 0) \in Nat
  BY <1>1
<1>4. (cmd.reads /\ cmd.known) \in BOOLEAN
  BY <1>1
<1> QED BY <1>2, <1>3, <1>4, FdFacts DEF Exec, ProcType

-----------------------------------------------------------------------------
(* Shape is inductive by itself. *)

LEMMA SameLine ==
  ASSUME UNCHANGED <<lines, instr_cnt>>
  PROVE  Line' = Line /\ n' = n /\ Key' = Key
BY DEF Line, n, Key

LEMMA ShapeEnter ==
  ASSUME Shape, NEW l \in Lines, Enter(l)
  PROVE  Shape'
<1>1. /\ pc = "prompt" /\ pc' = "pipe" /\ i' = 1 /\ l.op = "run" /\ counted < MaxLines
      /\ lines' = Append(lines, l) /\ counted' = counted + 1
      /\ pipe_table' = <<>> /\ size' = 0
      /\ UNCHANGED <<instr_cnt, NP_sender_map, NP_receiver_map, buf, procs, blocked, failures>>
  BY DEF Enter, EmptyTable
<1>2. /\ TypeOK /\ Position /\ lines \in Seq(RunLine) /\ counted \in 0 .. MaxLines
      /\ instr_cnt \in 0 .. MaxLines
  BY DEF Shape, Types, TypeOK
<1>3. /\ l \in RunLine /\ Len(l.cmds) \in 1 .. MaxStages
      /\ l.num > 0 <=> l.kind = "number"
  BY <1>1, RunLines
<1>4. /\ lines' \in Seq(RunLine) /\ Len(lines') = Len(lines) + 1 /\ lines'[Len(lines')] = l
      /\ \A k \in 1 .. Len(lines) : lines'[k] = lines[k]
  BY <1>1, <1>2, <1>3
<1>5. Len(lines) = instr_cnt /\ Line' = l /\ n' = Len(l.cmds) /\ Len(lines) \in Nat
  BY <1>1, <1>2, <1>4 DEF Position, Line, n
<1>6. fds' \in [Fd -> Descr] /\ file_fd' \in Fd \cup {-1} /\ (l.kind = "file" => file_fd' \in Fd)
  <2>1. CASE l.kind = "file"
    <3>1. Unused(fds) # {} /\ fds' = Place(fds, File) /\ file_fd' = Min(Unused(fds))
      BY <2>1 DEF Enter
    <3> QED BY <1>2, <3>1, PlaceFacts, FdsType DEF Descr
  <2>2. CASE l.kind # "file"
    BY <1>2, <2>2, FdsType DEF Enter, TypeOK
  <2> QED BY <2>1, <2>2
<1>7. Types'
  <2>1. counted' \in 0 .. MaxLines /\ i' \in 1 .. MaxStages + 1 /\ size' \in -1 .. MaxStages - 1
        /\ pipe_table' \in Seq(Pipe)
    BY <1>1, <1>2, ConstantTypes
  <2> QED BY <1>1, <1>2, <1>4, <1>6, <2>1 DEF Shape, Types, TypeOK, Descr, ProcType
<1>8. Position'
  <2>1. \A k \in 1 .. Len(lines') : /\ lines'[k] \in Lines
                                    /\ Len(lines'[k].cmds) \in 1 .. MaxStages
                                    /\ lines'[k].num > 0 <=> lines'[k].kind = "number"
    BY <1>2, <1>3, <1>4, <1>5 DEF Position
  <2>2. Len(lines') <= counted'
    BY <1>1, <1>2, <1>4, <1>5 DEF Position
  <2>3. i' \in 1 .. n'
    BY <1>1, <1>3, <1>5
  <2> QED BY <1>1, <1>4, <1>5, <2>1, <2>2, <2>3 DEF Position
<1>9. Table' /\ FileFd' /\ SenderFd'
  <2>1. Len(pipe_table') = 0
    BY <1>1
  <2> QED BY <1>1, <1>5, <1>6, <2>1, ConstantTypes DEF Table, FileFd, SenderFd, Live, Busy, Between
<1> QED BY <1>7, <1>8, <1>9 DEF Shape

LEMMA ShapeMake ==
  ASSUME Shape, MakePipe
  PROVE  Shape'
<1>1. /\ pc = "pipe" /\ pc' = "fork"
      /\ UNCHANGED <<i, instr_cnt, lines, counted, file_fd, procs, blocked, failures>>
      /\ \/ \E a, b : MakesBetween(a, b) \/ MakesNumber(a, b)
         \/ FindsNumber \/ MakesNone
  BY MakeFacts DEF Shape, Types
<1>2. /\ TypeOK /\ Position /\ Table
      /\ fds \in [Fd -> Descr] /\ procs \in [Proc -> ProcType]
      /\ pipe_table \in Seq(Pipe) /\ buf \in Seq(0 .. Capacity) /\ size \in Nat
      /\ size <= i - 1 /\ (Between => size = i - 1) /\ Len(pipe_table) \in Nat
      /\ size <= Len(pipe_table) /\ i - 1 <= Len(pipe_table)
      /\ Len(pipe_table) <= MaxStages - 1
  <2>1. /\ TypeOK /\ Position /\ Table
        /\ fds \in [Fd -> Descr] /\ procs \in [Proc -> ProcType]
        /\ pipe_table \in Seq(Pipe) /\ buf \in Seq(0 .. Capacity)
    BY FdsType DEF Shape, Types, TypeOK
  <2> QED BY <1>1, <2>1 DEF Table, Live, Busy
<1>3. /\ i \in 1 .. n /\ n \in 1 .. MaxStages /\ instr_cnt \in Keys /\ Key \in Keys
      /\ Line.kind \in Kinds
  BY <1>1, <1>2, LineFacts DEF Position, Busy
<1>4. Line' = Line /\ n' = n
  BY <1>1, SameLine
<1>5. Position' /\ FileFd'
  BY <1>1, <1>2, <1>4 DEF Shape, Position, FileFd, Busy
<1>6. ASSUME NEW a, NEW b, Opened(a, b)
      PROVE  /\ fds' \in [Fd -> Descr'] /\ procs' \in [Proc -> ProcType']
             /\ buf' \in Seq(0 .. Capacity) /\ NewPipe(a, b) \in Pipe /\ NewPipe(a, b) # NoPipe
  <2>1. /\ a \in Fd /\ b \in Fd /\ buf' = Append(buf, 0)
        /\ fds' = [fds EXCEPT ![a] = ReadEnd(fresh), ![b] = WriteEnd(fresh)]
    BY <1>6 DEF Opened
  <2>2. buf' \in Seq(0 .. Capacity) /\ Len(buf') = Len(buf) + 1 /\ Len(buf) \in Nat
    BY <1>2, <2>1, ConstantTypes
  <2>3. Descr \subseteq Descr' /\ ReadEnd(fresh) \in Descr' /\ WriteEnd(fresh) \in Descr'
    <3>1. \A k \in 1 .. Len(buf) : k \in 1 .. Len(buf')
      BY <2>2
    <3>2. fresh \in 1 .. Len(buf')
      BY <2>2 DEF fresh
    <3> QED BY <3>1, <3>2 DEF Descr
  <2>4. fds' \in [Fd -> Descr']
    BY <1>2, <2>1, <2>3
  <2>5. ProcType \subseteq ProcType'
    BY <2>3, Zenon DEF ProcType
  <2>6. NewPipe(a, b) \in Pipe
    BY <2>1 DEF NewPipe, Pipe
  <2> QED BY <1>1, <1>2, <2>2, <2>4, <2>5, <2>6, PipeFacts
<1>7. ASSUME NEW a, NEW b, MakesBetween(a, b)
      PROVE  Types' /\ Table' /\ SenderFd'
  <2>1. /\ Between /\ Opened(a, b)
        /\ pipe_table' = Append(SubSeq(pipe_table, 1, size), NewPipe(a, b)) /\ size' = size + 1
        /\ UNCHANGED <<NP_sender_map, NP_receiver_map>>
    BY <1>7 DEF MakesBetween
  <2>2. /\ pipe_table' \in Seq(Pipe) /\ Len(pipe_table') = size + 1
    BY <1>2, <1>6, <2>1
  <2>3. i < n /\ size = i - 1
    BY <1>2, <2>1 DEF Between
  <2>4. Types'
    <3>1. size' \in -1 .. MaxStages - 1
      BY <1>2, <1>3, <2>1, <2>3, ConstantTypes
    <3> QED BY <1>1, <1>2, <1>6, <2>1, <2>2, <3>1 DEF Types, TypeOK, Descr
  <2>5. Table'
    BY <1>1, <1>2, <1>3, <1>4, <2>1, <2>2, <2>3, ConstantTypes DEF Table, Live, Busy, Between
  <2>6. SenderFd'
    BY <1>1, <1>3, <1>4, <2>3 DEF SenderFd, LastNumber
  <2> QED BY <2>4, <2>5, <2>6
<1>8. ASSUME size' = size, pipe_table' = pipe_table, ~Between
      PROVE  Table'
  BY <1>1, <1>2, <1>3, <1>4, <1>8 DEF Table, Live, Busy, Between
<1>9. ASSUME NEW a, NEW b, MakesNumber(a, b)
      PROVE  Types' /\ Table' /\ SenderFd'
  <2>1. /\ LastNumber /\ Opened(a, b) /\ UNCHANGED <<pipe_table, size>>
        /\ NP_sender_map' = Insert(NP_sender_map, instr_cnt, NewPipe(a, b))
        /\ NP_receiver_map' = Insert(NP_receiver_map, Key, NewPipe(a, b))
    BY <1>9 DEF MakesNumber
  <2>2. Types'
    BY <1>1, <1>2, <1>6, <2>1 DEF Types, TypeOK, Descr, Insert
  <2>3. SenderFd'
    BY <1>2, <1>3, <1>6, <1>1, <2>1 DEF SenderFd, Insert, TypeOK
  <2>4. ~Between
    BY <1>3, <2>1 DEF Between, LastNumber
  <2> QED BY <1>8, <2>1, <2>2, <2>3, <2>4
<1>10. ASSUME FindsNumber
       PROVE  Types' /\ Table' /\ SenderFd'
  <2>1. /\ LastNumber /\ NP_receiver_map[Key] # NoPipe
        /\ NP_sender_map' = Insert(NP_sender_map, instr_cnt, NP_receiver_map[Key])
        /\ UNCHANGED <<NP_receiver_map, pipe_table, size, fds, buf>>
    BY <1>10 DEF FindsNumber
  <2>2. NP_receiver_map[Key] \in Pipe
    BY <1>2, <1>3, <2>1, MapFacts
  <2>3. Types'
    BY <1>1, <1>2, <2>1, <2>2 DEF Types, TypeOK, Descr, Insert, ProcType
  <2>4. SenderFd'
    BY <1>1, <1>2, <1>3, <2>1 DEF SenderFd, Insert, TypeOK
  <2>5. ~Between
    BY <1>3, <2>1 DEF Between, LastNumber
  <2> QED BY <1>8, <2>1, <2>3, <2>4, <2>5
<1>11. ASSUME MakesNone
       PROVE  Types' /\ Table' /\ SenderFd'
  <2>1. /\ i = n /\ ~LastNumber
        /\ UNCHANGED <<NP_sender_map, NP_receiver_map, pipe_table, size, fds, buf>>
    BY <1>11 DEF MakesNone
  <2>2. Types'
    BY <1>1, <1>2, <2>1 DEF Types, TypeOK, Descr, ProcType
  <2>3. SenderFd'
    BY <1>1, <1>4, <2>1 DEF SenderFd, LastNumber
  <2>4. ~Between
    BY <1>3, <2>1 DEF Between
  <2> QED BY <1>8, <2>1, <2>2, <2>3, <2>4
<1> QED BY <1>1, <1>5, <1>7, <1>9, <1>10, <1>11 DEF Shape

(* Dropping the pipe and forking again.                                      *)
LEMMA ShapeFork ==
  ASSUME Shape, Fork
  PROVE  Shape'
<1>1. /\ pc = "fork" /\ pc' = IF i = n THEN "release" ELSE "pipe"
      /\ i' = i + 1 /\ fds' = ParentFds
      /\ procs' = [procs EXCEPT ![<<instr_cnt, i>>] = Exec(Line.cmds[i], ChildFds)]
      /\ UNCHANGED <<instr_cnt, lines, counted, file_fd, pipe_table, size,
                     NP_sender_map, NP_receiver_map, buf, blocked, failures>>
  BY DEF Fork
<1>2. /\ TypeOK /\ Position /\ Table
      /\ fds \in [Fd -> Descr] /\ procs \in [Proc -> ProcType]
  BY FdsType DEF Shape, Types
<1>3. /\ i \in 1 .. n /\ n \in 1 .. MaxStages /\ Line.cmds[i] \in Command
      /\ Len(pipe_table) \in Nat
  <2>1. i \in 1 .. n
    BY <1>1, <1>2 DEF Position, Busy
  <2> QED BY <1>1, <1>2, <2>1, LineFacts DEF TypeOK
<1>4. Line' = Line /\ n' = n /\ Descr' = Descr /\ ProcType' = ProcType
  BY <1>1, SameLine DEF Descr, ProcType
<1>5. fds' \in [Fd -> Descr]
  <2>1. ParentFds \in [Fd -> Descr]
    BY <1>2, CloseType, Zenon DEF ParentFds, Receives, ClosePipe
  <2> QED BY <1>1, <2>1
<1>6. procs' \in [Proc -> ProcType]
  <2>1. Exec(Line.cmds[i], ChildFds) \in ProcType
    BY <1>1, <1>3, ChildType, ExecType
  <2> QED BY <1>1, <1>2, <2>1
<1>7. Types'
  <2>1. i' \in 1 .. MaxStages + 1
    BY <1>1, <1>3, ConstantTypes
  <2>2. TypeOK'
    BY <1>1, <1>2, <1>4, <1>5, <2>1 DEF TypeOK, Descr
  <2> QED BY <1>4, <1>6, <2>2 DEF Types
<1>8. Position'
  <2>1. IF i = n THEN i' = n + 1 /\ pc' = "release" ELSE i' \in 1 .. n /\ pc' = "pipe"
    BY <1>1, <1>3
  <2> QED BY <1>1, <1>2, <1>4, <2>1 DEF Position, Busy
<1>9. Table'
  <2>1. IF Between THEN size = i /\ Len(pipe_table) = i ELSE size <= n - 1
    BY <1>1, <1>2 DEF Table
  <2>2. size \in 0 .. Len(pipe_table) /\ i - 1 <= Len(pipe_table)
        /\ Len(pipe_table) <= MaxStages - 1
    BY <1>1, <1>2 DEF Table, Live, Busy
  <2>3. CASE i = n
    BY <1>1, <1>3, <1>4, <2>1, <2>2, <2>3 DEF Table, Live, Busy, Between
  <2>4. CASE i # n
    <3>1. Between
      BY <1>3, <2>4 DEF Between
    <3> QED BY <1>1, <1>3, <1>4, <2>1, <2>2, <2>4, <3>1 DEF Table, Live, Busy, Between
  <2> QED BY <2>3, <2>4
<1>10. FileFd' /\ SenderFd'
  BY <1>1, <1>4 DEF Shape, FileFd, SenderFd, Busy
<1> QED BY <1>7, <1>8, <1>9, <1>10 DEF Shape

LEMMA ShapeForkFails ==
  ASSUME Shape, ForkFails
  PROVE  Shape'
<1>1. /\ pc = "fork" /\ failures < ForkFailures /\ failures' = failures + 1 /\ size' = size - 1
      /\ IF size = 0 THEN pc' = "crashed" /\ fds' = AllClosed /\ blocked' = blocked
                     ELSE pc' = "retry" /\ blocked' = Running /\ fds' = fds
      /\ UNCHANGED <<i, instr_cnt, lines, counted, file_fd, pipe_table,
                     NP_sender_map, NP_receiver_map, buf, procs>>
  BY DEF ForkFails
<1>2. /\ TypeOK /\ Position /\ Table
      /\ fds \in [Fd -> Descr] /\ procs \in [Proc -> ProcType]
  BY FdsType DEF Shape, Types
<1>3. i \in 1 .. n /\ n \in 1 .. MaxStages /\ Len(pipe_table) \in Nat
  <2>1. i \in 1 .. n
    BY <1>1, <1>2 DEF Position, Busy
  <2> QED BY <1>1, <1>2, <2>1, LineFacts DEF TypeOK
<1>4. Line' = Line /\ n' = n /\ Descr' = Descr /\ ProcType' = ProcType
  BY <1>1, SameLine DEF Descr, ProcType
<1>5. size \in 0 .. Len(pipe_table) /\ size <= MaxStages - 1 /\ i - 1 <= Len(pipe_table)
      /\ IF Between THEN size = i /\ Len(pipe_table) = i ELSE size <= n - 1
      /\ Len(pipe_table) <= MaxStages - 1
  BY <1>1, <1>2, <1>3, ConstantTypes DEF Table, Live, Busy
<1>6. Types'
  <2>1. fds' \in [Fd -> Descr] /\ blocked' \subseteq Proc
    BY <1>1, <1>2 DEF AllClosed, Running, TypeOK, Descr
  <2>2. size' \in -1 .. MaxStages - 1 /\ failures' \in 0 .. ForkFailures
    BY <1>1, <1>2, <1>5, ConstantTypes DEF TypeOK
  <2>3. pc' \in {"crashed", "retry"}
    BY <1>1
  <2>4. TypeOK'
    BY <1>1, <1>2, <1>4, <2>1, <2>2, <2>3 DEF TypeOK, Descr
  <2> QED BY <1>1, <1>2, <1>4, <2>4 DEF Types
<1>7. Position'
  BY <1>1, <1>2, <1>4 DEF Position, Busy
<1>8. Table'
  <2>1. CASE size = 0
    BY <1>1, <1>4, <1>5, <2>1 DEF Table, Live, Busy
  <2>2. CASE size # 0
    BY <1>1, <1>3, <1>4, <1>5, <2>2 DEF Table, Live, Busy, Between
  <2> QED BY <2>1, <2>2
<1>9. FileFd' /\ SenderFd'
  BY <1>1, <1>4 DEF Shape, FileFd, SenderFd, Busy
<1> QED BY <1>6, <1>7, <1>8, <1>9 DEF Shape

LEMMA ShapeRetry ==
  ASSUME Shape, Retry
  PROVE  Shape'
<1>1. /\ pc = "retry" /\ pc' = "pipe" /\ blocked' = {}
      /\ UNCHANGED <<i, instr_cnt, lines, counted, fds, file_fd, pipe_table, size,
                     NP_sender_map, NP_receiver_map, buf, procs, failures>>
  BY DEF Retry
<1>2. Line' = Line /\ n' = n /\ Descr' = Descr /\ ProcType' = ProcType
  BY <1>1, SameLine DEF Descr, ProcType
<1>3. Types' /\ Position'
  BY <1>1, <1>2 DEF Shape, Types, TypeOK, Position, Busy
<1> QED BY <1>1, <1>2, <1>3 DEF Shape, Table, FileFd, SenderFd, Live, Busy, Between

LEMMA ShapeRelease ==
  ASSUME Shape, Release
  PROVE  Shape'
<1>1. /\ pc = "release" /\ pc' = "wait" /\ fds' = Released
      /\ UNCHANGED <<i, instr_cnt, lines, counted, file_fd, pipe_table, size,
                     NP_sender_map, NP_receiver_map, buf, procs, blocked, failures>>
  BY DEF Release
<1>2. Line' = Line /\ n' = n /\ Descr' = Descr /\ ProcType' = ProcType
  BY <1>1, SameLine DEF Descr, ProcType
<1>3. fds' \in [Fd -> Descr]
  BY <1>1, FdsType, CloseAllType DEF Shape, Types, Released
<1>4. Types' /\ Position'
  BY <1>1, <1>2, <1>3 DEF Shape, Types, TypeOK, Position, Busy, Descr
<1> QED BY <1>1, <1>2, <1>4 DEF Shape, Table, FileFd, SenderFd, Live, Busy, Between

LEMMA ShapeWait ==
  ASSUME Shape, Wait
  PROVE  Shape'
<1>1. /\ pc = "wait" /\ pc' = "prompt" /\ instr_cnt' = instr_cnt + 1
      /\ UNCHANGED <<i, lines, counted, fds, file_fd, pipe_table, size,
                     NP_sender_map, NP_receiver_map, buf, procs, blocked, failures>>
  BY DEF Wait
<1>2. Descr' = Descr /\ ProcType' = ProcType /\ instr_cnt + 1 \in 0 .. MaxLines
      /\ Len(lines) = instr_cnt + 1
  <2>1. TypeOK /\ Position
    BY DEF Shape, Types
  <2>2. instr_cnt \in 0 .. MaxLines - 1 /\ Len(lines) = instr_cnt + 1
    BY <1>1, <2>1, LineFacts
  <2> QED BY <1>1, <2>2, ConstantTypes DEF Descr, ProcType
<1>3. Types' /\ Position'
  BY <1>1, <1>2 DEF Shape, Types, TypeOK, Position, Busy
<1> QED BY <1>1, <1>3 DEF Shape, Table, FileFd, SenderFd, Live, Busy

LEMMA ShapePrompt ==
  ASSUME Shape, NEW l, Builtin(l) \/ Exit(l)
  PROVE  Shape'
<1>1. /\ pc = "prompt" /\ pc' \in {"prompt", "gone"} /\ fds' \in {fds, AllClosed}
      /\ counted' \in {counted, counted + 1} /\ (counted' # counted => counted < MaxLines)
      /\ UNCHANGED <<i, instr_cnt, lines, file_fd, pipe_table, size,
                     NP_sender_map, NP_receiver_map, buf, procs, blocked, failures>>
  BY DEF Builtin, Exit
<1>2. Descr' = Descr /\ ProcType' = ProcType /\ fds' \in [Fd -> Descr]
  BY <1>1, FdsType DEF Descr, ProcType, AllClosed, Shape, Types
<1>3. counted' \in 0 .. MaxLines /\ Len(lines) <= counted'
  BY <1>1, ConstantTypes DEF Shape, Types, TypeOK, Position
<1>4. Types' /\ Position'
  BY <1>1, <1>2, <1>3 DEF Shape, Types, TypeOK, Position, Busy, Descr
<1> QED BY <1>1, <1>4 DEF Shape, Table, FileFd, SenderFd, Live, Busy

LEMMA ShapeSame ==
  ASSUME Shape, UNCHANGED shell, Types'
  PROVE  Shape'
<1>1. Line' = Line /\ n' = n
  BY SameLine DEF shell
<1>2. Position'
  BY <1>1 DEF Shape, Position, Busy, shell
<1> QED BY <1>1, <1>2 DEF Shape, Table, FileFd, SenderFd, Live, Busy, Between, LastNumber, shell

LEMMA ShapeRun ==
  ASSUME Shape, NEW p \in Proc, Run(p)
  PROVE  Shape'
<1>1. Moves(p) /\ procs' \in [Proc -> ProcType'] /\ buf' \in Seq(0 .. Capacity)
  BY RunFacts DEF Shape
<1>2. Types'
  BY <1>1 DEF Shape, Types, TypeOK, Moves, shell
<1> QED BY <1>1, <1>2, ShapeSame DEF Moves

LEMMA ShapeInit == Init => Shape
<1> SUFFICES ASSUME Init PROVE Shape
  OBVIOUS
<1>1. /\ pc = "prompt" /\ i = 1 /\ instr_cnt = 0 /\ lines = <<>> /\ counted = 0
      /\ fds = [f \in Fd |-> IF f <= 2 THEN Tty ELSE Closed] /\ file_fd = -1
      /\ pipe_table = <<>> /\ size = 0 /\ buf = <<>> /\ blocked = {} /\ failures = 0
      /\ NP_sender_map = [k \in Keys |-> NoPipe] /\ NP_receiver_map = [k \in Keys |-> NoPipe]
      /\ procs = [p \in Proc |-> NoProc]
  BY DEF Init
<1>2. procs \in [Proc -> ProcType]
  <2>1. Closed \in Descr
    BY DEF Descr
  <2> QED BY <1>1, <2>1 DEF NoProc, ProcType
<1>3. i \in 1 .. MaxStages + 1 /\ size \in -1 .. MaxStages - 1 /\ counted \in 0 .. MaxLines
      /\ failures \in 0 .. ForkFailures /\ instr_cnt \in 0 .. MaxLines
  BY <1>1, ConstantTypes
<1>4. TypeOK
  <2>1. /\ lines \in Seq(RunLine) /\ pipe_table \in Seq(Pipe) /\ buf \in Seq(0 .. Capacity)
    BY <1>1
  <2> QED BY <1>1, <1>3, <2>1 DEF TypeOK
<1>5. Position /\ Table /\ FileFd /\ SenderFd
  <2>1. Len(lines) = 0 /\ Len(pipe_table) = 0
    BY <1>1
  <2> QED BY <1>1, <2>1, ConstantTypes DEF Position, Table, FileFd, SenderFd, Live, Busy
<1> QED BY <1>2, <1>4, <1>5 DEF Shape, Types

LEMMA ShapeNext ==
  ASSUME Shape, [Next]_vars
  PROVE  Shape'
<1>1. CASE Shell
  BY <1>1, ShapeMake, ShapeFork, ShapeRetry, ShapeRelease, ShapeWait DEF Shell
<1>2. CASE User
  <2>1. PICK l \in Lines : Enter(l) \/ Empty(l) \/ Builtin(l) \/ Exit(l)
    BY <1>2 DEF User
  <2>2. CASE Empty(l)
    BY <2>2 DEF Empty, vars, Shape, Types, TypeOK, ProcType, Descr, Position, Table, FileFd,
               SenderFd, Live, Busy, Between, LastNumber, Line, n, shell
  <2> QED BY <2>1, <2>2, ShapeEnter, ShapePrompt
<1>3. CASE ForkFails
  BY <1>3, ShapeForkFails
<1>4. CASE \E p \in Proc : Run(p)
  BY <1>4, ShapeRun
<1>5. CASE UNCHANGED vars
  BY <1>5 DEF vars, Shape, Types, TypeOK, ProcType, Descr, Position, Table, FileFd,
               SenderFd, Live, Busy, Between, LastNumber, Line, n, shell
<1> QED BY <1>1, <1>2, <1>3, <1>4, <1>5 DEF Next

(* Types, control and table hold for every program and any failures.        *)
THEOREM TypesCorrect == Spec => []TypeOK
<1>1. Init => Shape
  BY ShapeInit
<1>2. Shape /\ [Next]_vars => Shape'
  BY ShapeNext
<1>3. Shape => TypeOK
  BY DEF Shape, Types
<1> QED BY <1>1, <1>2, <1>3, PTL DEF Spec

-----------------------------------------------------------------------------
(* The descriptors. *)

Wiring == /\ ForkedSoFar /\ OwnNumbers /\ AwaitedPipes /\ Entered /\ Meant /\ KeysApart
          /\ Sending /\ NumbersApart /\ TableNumbers /\ TableOpen /\ PipeBefore /\ PipeAfter

LEMMA LinesKeys ==
  ASSUME Shape
  PROVE  \A m \in 0 .. Len(lines) - 1 : m \in Keys
<1>1. Len(lines) \in Nat /\ Len(lines) <= MaxLines
  <2>1. lines \in Seq(RunLine) /\ counted \in 0 .. MaxLines /\ Len(lines) <= counted
    BY DEF Shape, Types, TypeOK, Position
  <2> QED BY <2>1, ConstantTypes
<1> QED BY <1>1, ConstantTypes DEF Keys

(* Nobody has come or gone, and nobody's input or output has changed.       *)
SameCommands ==
  /\ Forked' = Forked
  /\ \A p \in Forked : procs'[p].in = procs[p].in /\ procs'[p].out = procs[p].out

LEMMA SameReaders ==
  ASSUME SameCommands
  PROVE  \A r : (NoReader(r)' <=> NoReader(r)) /\ Writers(r)' = Writers(r)
BY DEF SameCommands, NoReader, Writers

LEMMA MovesSame ==
  ASSUME Types, NEW p \in Proc, Run(p)
  PROVE  SameCommands /\ UNCHANGED shell /\ Len(buf') = Len(buf)
BY RunFacts DEF SameCommands, Moves, Forked

LEMMA StillSame ==
  ASSUME UNCHANGED procs
  PROVE  SameCommands
BY DEF SameCommands, Forked

(* A forked command belongs to a line that was entered.                     *)
LEMMA ForkedLine ==
  ASSUME Shape, Wiring, Live, NEW p \in Forked
  PROVE  /\ p \in Proc /\ p[1] \in Nat /\ p[2] \in Nat /\ p[2] >= 1
         /\ p[1] + 1 \in 1 .. Len(lines) /\ p[1] <= instr_cnt
         /\ lines[p[1] + 1] \in RunLine
         /\ p[2] <= Len(lines[p[1] + 1].cmds)
         /\ pc = "prompt" => p[1] < instr_cnt
<1>1. p \in Proc /\ p[1] \in Nat /\ p[2] \in Nat /\ p[2] >= 1
  BY ConstantTypes DEF Forked, Proc
<1>2. Done(p)
  BY <1>1 DEF Wiring, ForkedSoFar
<1>3. TypeOK /\ Position /\ instr_cnt \in Nat /\ i \in Nat /\ lines \in Seq(RunLine)
  BY DEF Shape, Types, TypeOK
<1>4. CASE p[1] < instr_cnt /\ p[2] <= Len(lines[p[1] + 1].cmds)
  <2>1. Len(lines) \in {instr_cnt, instr_cnt + 1}
    BY <1>3 DEF Position
  <2>2. p[1] + 1 \in 1 .. Len(lines)
    BY <1>1, <1>3, <1>4, <2>1
  <2> QED BY <1>1, <1>3, <1>4, <2>2
<1>5. CASE p[1] = instr_cnt /\ pc \in Busy \cup {"release", "wait"} /\ p[2] < i
  <2>1. pc \notin {"prompt", "gone"} /\ i <= n + 1
    BY <1>3, <1>5, LineFacts DEF Position, Busy
  <2>2. instr_cnt + 1 = Len(lines) /\ n \in Nat
    BY <1>3, <2>1, LineFacts
  <2>3. p[2] <= n
    BY <1>1, <1>3, <1>5, <2>1, <2>2
  <2> QED BY <1>1, <1>3, <1>5, <2>1, <2>2, <2>3 DEF n, Line
<1> QED BY <1>2, <1>4, <1>5 DEF Done

(* Steps that change no descriptor.                                         *)
LEMMA Quiet ==
  ASSUME Shape, Wiring, SameCommands, Len(buf') = Len(buf),
         UNCHANGED <<i, instr_cnt, lines, fds, file_fd, pipe_table, NP_receiver_map>>,
         pc' = pc \/ (pc \in Busy /\ pc' \in Busy /\ (pc' = "fork" => ~Between)),
         \A k \in Keys :
           /\ NP_sender_map[k] # NoPipe => NP_sender_map'[k] # NoPipe
           /\ NP_sender_map'[k] # NoPipe =>
                \/ NP_sender_map'[k] = NP_sender_map[k]
                \/ /\ k = instr_cnt /\ LastNumber /\ pc \in Busy
                   /\ NP_sender_map'[k] = NP_receiver_map[Key]
  PROVE  Wiring'
<1>1. Line' = Line /\ n' = n /\ Key' = Key
  BY SameLine
<1>2. \A r : (NoReader(r)' <=> NoReader(r)) /\ Writers(r)' = Writers(r)
  BY SameReaders
<1>3. Forked' = Forked
  BY DEF SameCommands
<1>4. Live' <=> Live
  BY DEF Live, Busy
<1>5. \A k : Awaited(k)' <=> Awaited(k)
  BY DEF Awaited, Untaken, Busy
<1>6. i \in Nat /\ \A m \in 0 .. Len(lines) - 1 : m \in Keys
  BY LinesKeys DEF Shape, Types, TypeOK
<1>7. ForkedSoFar'
  BY <1>1, <1>3, <1>4 DEF Wiring, ForkedSoFar, Done, Busy
<1>8. OwnNumbers'
  BY <1>1, <1>4 DEF Wiring, OwnNumbers, Busy
<1>9. AwaitedPipes'
  BY <1>2, <1>3, <1>4, <1>5 DEF Wiring, AwaitedPipes, Is, NumbersTo, LastCommand
<1>10. Entered' /\ KeysApart' /\ NumbersApart' /\ TableNumbers'
  BY <1>3, <1>4, <1>5 DEF Wiring, Entered, LastCommand, KeysApart, NumbersApart, TableNumbers, Fds
<1>11. Meant'
  BY <1>4, <1>6 DEF Wiring, Meant
<1>12. Sending'
  BY <1>1, <1>4, <1>6 DEF Wiring, Sending, LastNumber, Busy
<1>13. TableOpen' /\ PipeBefore' /\ PipeAfter'
  BY <1>1, <1>2 DEF Wiring, TableOpen, PipeBefore, PipeAfter, Between, Is, Busy, Fds
<1> QED BY <1>7, <1>8, <1>9, <1>10, <1>11, <1>12, <1>13 DEF Wiring

(* A new pipe is apart from everything.                                     *)
LEMMA NewPipeFacts ==
  ASSUME Shape, Wiring, pc = "pipe", pc' = "fork", UNCHANGED <<i, instr_cnt, lines, file_fd, procs>>,
         NEW a, NEW b, Opened(a, b)
  PROVE  /\ a \in Fd /\ b \in Fd /\ a > 2 /\ b > 2 /\ a # b /\ fds[a] = Closed /\ fds[b] = Closed
         /\ Len(buf) \in Nat /\ Len(buf') = Len(buf) + 1 /\ fresh \in 1 .. Len(buf')
         /\ \A r \in 1 .. Len(buf) : r \in 1 .. Len(buf') /\ r # fresh
         /\ fds'[a] = ReadEnd(fresh) /\ fds'[b] = WriteEnd(fresh)
         /\ \A f \in Fd : f \notin {a, b} => fds'[f] = fds[f]
         /\ SameCommands
         /\ \A p \in Forked : procs[p].in # ReadEnd(fresh) /\ procs[p].out # WriteEnd(fresh)
         /\ \A q \in Pipe : \A r : Is(q, r) =>
              a \notin Fds(q) /\ b \notin Fds(q) /\ fds'[q.read_fd] = ReadEnd(r)
              /\ fds'[q.write_fd] = WriteEnd(r)
         /\ OwnNumbers'
<1>1. /\ a \in Fd /\ b \in Fd /\ a # b /\ fds[a] = Closed /\ fds[b] = Closed
      /\ fds' = [fds EXCEPT ![a] = ReadEnd(fresh), ![b] = WriteEnd(fresh)]
      /\ buf' = Append(buf, 0)
  BY DEF Opened
<1>2. /\ fds \in [Fd -> Descr] /\ procs \in [Proc -> ProcType] /\ buf \in Seq(0 .. Capacity)
      /\ Len(buf) \in Nat
  BY FdsType DEF Shape, Types, TypeOK
<1>3. /\ Len(buf') = Len(buf) + 1 /\ fresh \in 1 .. Len(buf') /\ fresh \notin 1 .. Len(buf)
      /\ \A r \in 1 .. Len(buf) : r \in 1 .. Len(buf')
  BY <1>1, <1>2 DEF fresh
<1>4. /\ fds'[a] = ReadEnd(fresh) /\ fds'[b] = WriteEnd(fresh)
      /\ \A f \in Fd : f \notin {a, b} => fds'[f] = fds[f]
  BY <1>1, <1>2
<1>5. \A d \in Descr : d # ReadEnd(fresh) /\ d # WriteEnd(fresh)
  BY <1>3, DescrFacts DEF Descr
<1>6. \A p \in Forked : procs[p].in \in Descr /\ procs[p].out \in Descr
  BY <1>2 DEF Forked, ProcType
<1>7. Live /\ OwnNumbers
  BY DEF Live, Wiring
<1>8. a > 2 /\ b > 2
  BY <1>1, <1>7, FdFacts, DescrFacts DEF OwnNumbers
<1>9. \A q \in Pipe : \A r : Is(q, r) =>
        a \notin Fds(q) /\ b \notin Fds(q) /\ fds'[q.read_fd] = ReadEnd(r)
        /\ fds'[q.write_fd] = WriteEnd(r)
  <2> TAKE q \in Pipe
  <2> TAKE r
  <2> HAVE Is(q, r)
  <2>1. q.read_fd \in Fd /\ q.write_fd \in Fd
        /\ fds[q.read_fd] = ReadEnd(r) /\ fds[q.write_fd] = WriteEnd(r)
    BY PipeFacts DEF Is
  <2>2. q.read_fd \notin {a, b} /\ q.write_fd \notin {a, b}
    BY <1>1, <2>1, DescrFacts
  <2> QED BY <1>4, <2>1, <2>2 DEF Fds
<1>10. OwnNumbers'
  <2>1. Line' = Line
    BY SameLine
  <2>2. \A f \in Fd : fds[f] # ReadEnd(fresh) /\ fds[f] # WriteEnd(fresh)
    BY <1>2, <1>5
  <2>3. \A f \in Fd : fds'[f] = Tty <=> f <= 2
    BY <1>4, <1>7, <1>8, FdFacts, DescrFacts DEF OwnNumbers
  <2>4. \A f \in Fd, g \in Fd : fds'[f] = fds'[g] /\ fds'[f] \notin {Closed, Tty} => f = g
    BY <1>1, <1>4, <1>7, <2>2, DescrFacts DEF OwnNumbers
  <2>5. pc \in Busy /\ pc' \in Busy
    BY DEF Busy
  <2>6. \A f \in Fd : fds'[f] = File <=> fds[f] = File
    BY <1>1, <1>4, DescrFacts
  <2>7. Line.kind = "file" => file_fd \in Fd /\ fds'[file_fd] = File
    BY <1>7, <2>5, <2>6 DEF OwnNumbers, Shape, FileFd
  <2> QED BY <1>7, <2>1, <2>3, <2>4, <2>5, <2>6, <2>7 DEF OwnNumbers
<1>11. SameCommands
  BY StillSame
<1> QED BY <1>1, <1>2, <1>3, <1>4, <1>5, <1>6, <1>8, <1>9, <1>10, <1>11

LEMMA ForkedStays ==
  ASSUME Wiring, Live, pc \in Busy, pc' \in Busy,
         UNCHANGED <<i, instr_cnt, lines>>, Forked' = Forked
  PROVE  ForkedSoFar'
BY DEF Wiring, ForkedSoFar, Done, Live, Busy

(* A pipe is made between two commands of the line.                         *)
LEMMA WiringBetween ==
  ASSUME Shape, Wiring, MakePipe, NEW a, NEW b, MakesBetween(a, b)
  PROVE  Wiring'
<1>1. /\ pc = "pipe" /\ pc' = "fork"
      /\ UNCHANGED <<i, instr_cnt, lines, counted, file_fd, procs, blocked, failures>>
  BY MakeFacts DEF Shape, Types
<1>2. /\ Between /\ Opened(a, b)
      /\ pipe_table' = Append(SubSeq(pipe_table, 1, size), NewPipe(a, b)) /\ size' = size + 1
      /\ UNCHANGED <<NP_sender_map, NP_receiver_map>>
  BY DEF MakesBetween
<1>3. /\ a \in Fd /\ b \in Fd /\ a > 2 /\ b > 2 /\ a # b /\ fds[a] = Closed /\ fds[b] = Closed
      /\ Len(buf) \in Nat /\ Len(buf') = Len(buf) + 1 /\ fresh \in 1 .. Len(buf')
      /\ \A r \in 1 .. Len(buf) : r \in 1 .. Len(buf') /\ r # fresh
      /\ fds'[a] = ReadEnd(fresh) /\ fds'[b] = WriteEnd(fresh)
      /\ \A f \in Fd : f \notin {a, b} => fds'[f] = fds[f]
      /\ SameCommands
      /\ \A p \in Forked : procs[p].in # ReadEnd(fresh) /\ procs[p].out # WriteEnd(fresh)
      /\ \A q \in Pipe : \A r : Is(q, r) =>
           a \notin Fds(q) /\ b \notin Fds(q) /\ fds'[q.read_fd] = ReadEnd(r)
           /\ fds'[q.write_fd] = WriteEnd(r)
      /\ OwnNumbers'
  BY <1>1, <1>2, NewPipeFacts
<1>4. /\ TypeOK /\ Position /\ Table /\ pipe_table \in Seq(Pipe) /\ Len(pipe_table) \in Nat
      /\ size \in 0 .. Len(pipe_table) /\ size = i - 1 /\ i \in Nat /\ i >= 1 /\ i < n
  <2>1. TypeOK /\ Position /\ Table /\ pipe_table \in Seq(Pipe) /\ i \in 1 .. MaxStages + 1
    BY DEF Shape, Types, TypeOK
  <2>2. size \in 0 .. Len(pipe_table) /\ size = i - 1 /\ Len(pipe_table) \in Nat
    BY <1>1, <1>2, <2>1 DEF Table, Live, Busy
  <2> QED BY <1>2, <2>1, <2>2 DEF Between
<1>5. /\ Len(pipe_table') = i /\ pipe_table'[i] = NewPipe(a, b) /\ NewPipe(a, b) \in Pipe
      /\ \A j \in 1 .. i - 1 : pipe_table'[j] = pipe_table[j] /\ j \in 1 .. Len(pipe_table)
  <2>1. NewPipe(a, b) \in Pipe
    BY <1>3 DEF NewPipe, Pipe
  <2> QED BY <1>2, <1>4, <2>1
<1>6. Line' = Line /\ n' = n /\ Key' = Key /\ Forked' = Forked
      /\ \A r : (NoReader(r)' <=> NoReader(r)) /\ Writers(r)' = Writers(r)
  BY <1>1, <1>3, SameLine, SameReaders DEF SameCommands
<1>7. Live /\ Live' /\ pc \in Busy /\ pc' \in Busy /\ \A k : Awaited(k)' <=> Awaited(k)
  BY <1>1, <1>2 DEF Live, Busy, Awaited, Untaken
<1>8. ForkedSoFar'
  BY <1>1, <1>6, <1>7, ForkedStays
<1>9. \A k \in Keys : Awaited(k) => NP_receiver_map[k] \in Pipe
  BY <1>4, MapFacts DEF Awaited
<1>10. AwaitedPipes'
  BY <1>1, <1>2, <1>3, <1>6, <1>7, <1>9 DEF Wiring, AwaitedPipes, Is, NumbersTo, LastCommand
<1>11. Entered' /\ KeysApart' /\ Meant' /\ Sending'
  BY <1>1, <1>2, <1>6, <1>7 DEF Wiring, Entered, LastCommand, KeysApart, Meant, Sending
<1>12. NumbersApart'
  <2>1. ASSUME NEW k \in Keys, Awaited(k)
        PROVE  a \notin Fds(NP_receiver_map[k]) /\ b \notin Fds(NP_receiver_map[k])
    BY <1>3, <1>7, <1>9, <2>1 DEF Wiring, AwaitedPipes
  <2>2. ASSUME NEW k \in Keys, Awaited(k), NEW j \in 1 .. i
        PROVE  Fds(NP_receiver_map[k]) \cap Fds(pipe_table'[j]) = {}
    <3>1. CASE j = i
      BY <1>5, <2>1, <2>2, <3>1 DEF Fds, NewPipe
    <3>2. CASE j # i
      <4>1. j \in 1 .. i - 1
        BY <1>4, <3>2
      <4>2. pipe_table'[j] = pipe_table[j] /\ j \in 1 .. Len(pipe_table)
        BY <1>5, <4>1
      <4> QED BY <1>7, <2>2, <4>2 DEF Wiring, NumbersApart
    <3> QED BY <3>1, <3>2
  <2> QED BY <1>2, <1>5, <1>7, <2>2 DEF NumbersApart, Fds
<1>13. TableNumbers'
  <2>1. ASSUME NEW j \in 1 .. i, NEW f \in Fds(pipe_table'[j])
        PROVE  f > 2
    <3>1. CASE j = i
      BY <1>3, <1>5, <3>1 DEF Fds, NewPipe
    <3>2. CASE j # i
      <4>1. j \in 1 .. i - 1
        BY <1>4, <3>2
      <4> QED BY <1>5, <4>1 DEF Wiring, TableNumbers
    <3> QED BY <3>1, <3>2
  <2> QED BY <1>5, <2>1 DEF TableNumbers, Fds
<1>14. TableOpen'
  <2>1. ASSUME Line.kind = "number", NEW j \in 1 .. i, NEW f \in Fds(pipe_table'[j])
        PROVE  fds'[f] # Closed
    <3>1. CASE j = i
      BY <1>3, <1>5, <3>1, DescrFacts DEF Fds, NewPipe
    <3>2. CASE j # i
      <4>1. j \in 1 .. i - 1
        BY <1>4, <3>2
      <4>2. fds[f] # Closed /\ f \in Fd
        BY <1>4, <1>5, <1>7, <2>1, <4>1, TableFacts DEF Wiring, TableOpen
      <4> QED BY <1>3, <4>2, DescrFacts
    <3> QED BY <3>1, <3>2
  <2> QED BY <1>5, <1>6, <2>1 DEF TableOpen, Fds
<1>15. PipeBefore'
  <2>1. SUFFICES ASSUME i > 1
                 PROVE  \E r \in 1 .. Len(buf') :
                          /\ fds'[pipe_table'[i - 1].read_fd] = ReadEnd(r)
                          /\ fds'[pipe_table'[i - 1].write_fd] = WriteEnd(r)
                          /\ NoReader(r) /\ Writers(r) = {<<instr_cnt, i - 1>>}
    BY <1>1, <1>6 DEF PipeBefore, Is
  <2>2. PICK r \in 1 .. Len(buf) :
          Is(pipe_table[i - 1], r) /\ NoReader(r) /\ Writers(r) = {<<instr_cnt, i - 1>>}
    BY <1>7, <2>1 DEF Wiring, PipeBefore
  <2>3. i - 1 \in 1 .. i - 1
    BY <1>4, <2>1
  <2>4. pipe_table'[i - 1] = pipe_table[i - 1] /\ pipe_table[i - 1] \in Pipe
    BY <1>4, <1>5, <2>3, TableFacts
  <2> QED BY <1>3, <2>2, <2>4
<1>16. PipeAfter'
  <2>1. /\ fds'[pipe_table'[i].read_fd] = ReadEnd(fresh)
        /\ fds'[pipe_table'[i].write_fd] = WriteEnd(fresh)
    BY <1>3, <1>5 DEF NewPipe
  <2>2. NoReader(fresh) /\ Writers(fresh) = {}
    BY <1>3 DEF NoReader, Writers
  <2> QED BY <1>1, <1>3, <1>6, <2>1, <2>2 DEF PipeAfter, Is
<1> QED BY <1>3, <1>8, <1>10, <1>11, <1>12, <1>13, <1>14, <1>15, <1>16 DEF Wiring

(* A number pipe is made for a line nobody has numbered to yet.             *)
LEMMA WiringNumber ==
  ASSUME Shape, Wiring, MakePipe, NEW a, NEW b, MakesNumber(a, b)
  PROVE  Wiring'
<1>1. /\ pc = "pipe" /\ pc' = "fork"
      /\ UNCHANGED <<i, instr_cnt, lines, counted, file_fd, procs, blocked, failures>>
  BY MakeFacts DEF Shape, Types
<1>2. /\ LastNumber /\ NP_receiver_map[Key] = NoPipe /\ Opened(a, b)
      /\ NP_sender_map' = Insert(NP_sender_map, instr_cnt, NewPipe(a, b))
      /\ NP_receiver_map' = Insert(NP_receiver_map, Key, NewPipe(a, b))
      /\ UNCHANGED <<pipe_table, size>>
  BY DEF MakesNumber
<1>3. /\ a \in Fd /\ b \in Fd /\ a > 2 /\ b > 2 /\ a # b /\ fds[a] = Closed /\ fds[b] = Closed
      /\ Len(buf) \in Nat /\ Len(buf') = Len(buf) + 1 /\ fresh \in 1 .. Len(buf')
      /\ \A r \in 1 .. Len(buf) : r \in 1 .. Len(buf') /\ r # fresh
      /\ fds'[a] = ReadEnd(fresh) /\ fds'[b] = WriteEnd(fresh)
      /\ \A f \in Fd : f \notin {a, b} => fds'[f] = fds[f]
      /\ SameCommands
      /\ \A p \in Forked : procs[p].in # ReadEnd(fresh) /\ procs[p].out # WriteEnd(fresh)
      /\ \A q \in Pipe : \A r : Is(q, r) =>
           a \notin Fds(q) /\ b \notin Fds(q) /\ fds'[q.read_fd] = ReadEnd(r)
           /\ fds'[q.write_fd] = WriteEnd(r)
      /\ OwnNumbers'
  BY <1>1, <1>2, NewPipeFacts
<1>4. /\ TypeOK /\ Position /\ i = n /\ Line.kind = "number" /\ Line.num > 0
      /\ instr_cnt \in Keys /\ Key \in Keys /\ instr_cnt \in Nat /\ Key > instr_cnt
      /\ i \in Nat /\ n \in Nat /\ instr_cnt + 1 = Len(lines)
      /\ NP_receiver_map \in [Keys -> Pipe \cup {NoPipe}]
      /\ NP_sender_map \in [Keys -> Pipe \cup {NoPipe}]
  <2>1. TypeOK /\ Position
    BY DEF Shape, Types
  <2>2. /\ instr_cnt \in 0 .. MaxLines - 1 /\ instr_cnt + 1 = Len(lines)
        /\ Line.kind \in Kinds /\ n \in 1 .. MaxStages
        /\ Line.num \in 0 .. MaxNum /\ (Line.num > 0 <=> Line.kind = "number")
        /\ instr_cnt \in Keys /\ Key \in Keys
    BY <1>1, <2>1, LineFacts
  <2>3. i = n /\ Line.kind = "number"
    BY <1>2 DEF LastNumber
  <2>4. Key > instr_cnt
    BY <2>2, <2>3, ConstantTypes DEF Key
  <2> QED BY <2>1, <2>2, <2>3, <2>4, ConstantTypes DEF TypeOK
<1>5. Line' = Line /\ n' = n /\ Key' = Key /\ Forked' = Forked
      /\ \A r : (NoReader(r)' <=> NoReader(r)) /\ Writers(r)' = Writers(r)
  BY <1>1, <1>3, SameLine, SameReaders DEF SameCommands
<1>6. Live /\ Live' /\ pc \in Busy /\ pc' \in Busy
  BY <1>1 DEF Live, Busy
<1>7. /\ NewPipe(a, b) \in Pipe /\ NewPipe(a, b) # NoPipe
      /\ NewPipe(a, b).read_fd = a /\ NewPipe(a, b).write_fd = b /\ Fds(NewPipe(a, b)) = {a, b}
  BY <1>3, PipeFacts DEF NewPipe, Pipe, Fds
<1>8. NP_sender_map[instr_cnt] = NoPipe
  BY <1>2, <1>4, <1>6 DEF Wiring, Sending
<1>9. /\ NP_sender_map'[instr_cnt] = NewPipe(a, b)
      /\ \A k \in Keys : k # instr_cnt => NP_sender_map'[k] = NP_sender_map[k]
      /\ NP_receiver_map'[Key] = NewPipe(a, b)
      /\ \A k \in Keys : k # Key => NP_receiver_map'[k] = NP_receiver_map[k]
  BY <1>2, <1>4, <1>8 DEF Insert
<1>10. /\ \A k \in Keys : k # Key => (Awaited(k)' <=> Awaited(k))
       /\ ~ Awaited(Key)
       /\ \A k \in Keys : Awaited(k) => NP_receiver_map[k] \in Pipe /\ k # Key
  BY <1>1, <1>2, <1>4, <1>9, MapFacts DEF Awaited, Untaken, Busy
<1>11. ForkedSoFar'
  BY <1>1, <1>5, <1>6, ForkedStays
<1>12. AwaitedPipes'
  <2>1. ASSUME NEW k \in Keys, Awaited(k)'
        PROVE  \E r \in 1 .. Len(buf') :
                 /\ fds'[NP_receiver_map'[k].read_fd] = ReadEnd(r)
                 /\ fds'[NP_receiver_map'[k].write_fd] = WriteEnd(r)
                 /\ NoReader(r)
                 /\ Writers(r) = {p \in Forked : NumbersTo(p, k)}
    <3>1. CASE k = Key
      <4>1. NoReader(fresh) /\ Writers(fresh) = {}
        BY <1>3 DEF NoReader, Writers
      <4>2. \A p \in Forked : ~ NumbersTo(p, k)
        BY <1>2, <1>6, <3>1 DEF Wiring, Entered, NumbersTo
      <4> QED BY <1>3, <1>7, <1>9, <3>1, <4>1, <4>2
    <3>2. CASE k # Key
      <4>1. Awaited(k) /\ NP_receiver_map'[k] = NP_receiver_map[k] /\ NP_receiver_map[k] \in Pipe
        BY <1>9, <1>10, <2>1, <3>2
      <4>2. PICK r \in 1 .. Len(buf) :
              /\ Is(NP_receiver_map[k], r) /\ NoReader(r)
              /\ Writers(r) = {p \in Forked : NumbersTo(p, k)}
        BY <1>6, <4>1 DEF Wiring, AwaitedPipes
      <4> QED BY <1>3, <4>1, <4>2
    <3> QED BY <3>1, <3>2
  <2>2. \A p, k : NumbersTo(p, k)' <=> NumbersTo(p, k)
    BY <1>1 DEF NumbersTo, LastCommand
  <2> QED BY <1>5, <1>6, <2>1, <2>2 DEF AwaitedPipes, Is
<1>13. Entered'
  <2>1. \A k \in Keys : NP_receiver_map[k] # NoPipe => NP_receiver_map'[k] # NoPipe
    BY <1>7, <1>9
  <2>2. ASSUME NEW p \in Forked, lines[p[1] + 1].kind = "number", p = LastCommand(p[1])
        PROVE  NP_receiver_map'[p[1] + lines[p[1] + 1].num] # NoPipe
    <3>1. p[1] + lines[p[1] + 1].num \in Keys
      <4>1. p[1] \in 0 .. MaxLines - 1
        BY ConstantTypes DEF Forked, Proc
      <4>2. lines[p[1] + 1] \in RunLine
        BY <1>6, ForkedLine
      <4>3. lines[p[1] + 1].num \in 0 .. MaxNum
        BY <4>2 DEF RunLine
      <4> QED BY <4>1, <4>3, ConstantTypes DEF Keys
    <3>2. NP_receiver_map[p[1] + lines[p[1] + 1].num] # NoPipe
      BY <1>6, <2>2 DEF Wiring, Entered
    <3> QED BY <2>1, <3>1, <3>2
  <2> QED BY <1>1, <1>5, <2>2 DEF Entered, LastCommand
<1>14. Meant'
  <2>1. ASSUME NEW k \in Keys, NP_receiver_map'[k] # NoPipe
        PROVE  \E m \in 0 .. Len(lines) - 1 :
                 /\ lines[m + 1].kind = "number" /\ m + lines[m + 1].num = k
                 /\ m < instr_cnt \/ NP_sender_map'[m] # NoPipe
    <3>1. CASE k = Key
      <4>1. instr_cnt \in 0 .. Len(lines) - 1 /\ lines[instr_cnt + 1] = Line
        BY <1>4 DEF Line
      <4> QED BY <1>4, <1>7, <1>9, <3>1, <4>1 DEF Key
    <3>2. CASE k # Key
      <4>1. PICK m \in 0 .. Len(lines) - 1 :
              /\ lines[m + 1].kind = "number" /\ m + lines[m + 1].num = k
              /\ m < instr_cnt \/ NP_sender_map[m] # NoPipe
        BY <1>6, <1>9, <2>1, <3>2 DEF Wiring, Meant
      <4>2. m \in Keys
        BY LinesKeys
      <4>3. NP_sender_map[m] # NoPipe => NP_sender_map'[m] # NoPipe
        BY <1>7, <1>9, <4>2
      <4> QED BY <4>1, <4>3
    <3> QED BY <3>1, <3>2
  <2> QED BY <1>1, <1>6, <2>1 DEF Meant
(* An awaited pipe is open, and a and b were not.                           *)
<1>15. ASSUME NEW k \in Keys, Awaited(k)
       PROVE  a \notin Fds(NP_receiver_map[k]) /\ b \notin Fds(NP_receiver_map[k])
  BY <1>3, <1>6, <1>10, <1>15 DEF Wiring, AwaitedPipes
<1>16. KeysApart'
  <2>1. ASSUME NEW k \in Keys, Awaited(k)', k # Key
        PROVE  NP_receiver_map'[k] # NewPipe(a, b)
    <3>1. Awaited(k) /\ NP_receiver_map'[k] = NP_receiver_map[k]
      BY <1>9, <1>10, <2>1
    <3> QED BY <1>7, <1>15, <3>1
  <2>2. \A k \in Keys, j \in Keys :
          Awaited(k)' /\ Awaited(j)' /\ NP_receiver_map'[k] = NP_receiver_map'[j] => k = j
    BY <1>6, <1>9, <1>10, <2>1 DEF Wiring, KeysApart
  <2> QED BY <2>2 DEF KeysApart
<1>17. Sending'
  BY <1>1, <1>4, <1>5, <1>6, <1>9 DEF Wiring, Sending
<1>18. NumbersApart'
  <2>1. ASSUME NEW k \in Keys, Awaited(k)', NEW j \in 1 .. Len(pipe_table)
        PROVE  Fds(NP_receiver_map'[k]) \cap Fds(pipe_table[j]) = {}
    <3>1. CASE k = Key
      <4>1. \A f \in Fds(pipe_table[j]) : fds[f] # Closed
        BY <1>4, <1>6 DEF Wiring, TableOpen
      <4> QED BY <1>3, <1>7, <1>9, <3>1, <4>1
    <3>2. CASE k # Key
      BY <1>6, <1>9, <1>10, <2>1, <3>2 DEF Wiring, NumbersApart
    <3> QED BY <3>1, <3>2
  <2> QED BY <1>2, <2>1 DEF NumbersApart, Fds
<1>19. TableNumbers' /\ TableOpen'
  <2>1. \A j \in 1 .. Len(pipe_table) : Fds(pipe_table[j]) \subseteq Fd
    BY <1>4, TableFacts
  <2> QED BY <1>2, <1>3, <1>4, <1>6, <2>1, DescrFacts DEF Wiring, TableNumbers, TableOpen, Fds
<1>20. PipeBefore'
  <2>1. SUFFICES ASSUME i > 1
                 PROVE  \E r \in 1 .. Len(buf') :
                          /\ fds'[pipe_table[i - 1].read_fd] = ReadEnd(r)
                          /\ fds'[pipe_table[i - 1].write_fd] = WriteEnd(r)
                          /\ NoReader(r) /\ Writers(r) = {<<instr_cnt, i - 1>>}
    BY <1>1, <1>2, <1>5 DEF PipeBefore, Is
  <2>2. PICK r \in 1 .. Len(buf) :
          Is(pipe_table[i - 1], r) /\ NoReader(r) /\ Writers(r) = {<<instr_cnt, i - 1>>}
    BY <1>6, <2>1 DEF Wiring, PipeBefore
  <2>3. i - 1 \in 1 .. Len(pipe_table)
    BY <1>4, <1>6, <2>1 DEF Shape, Table, TypeOK
  <2>4. pipe_table[i - 1] \in Pipe
    BY <1>4, <2>3, TableFacts
  <2> QED BY <1>3, <2>2, <2>4
<1>21. PipeAfter'
  <2>1. ~ Between'
    BY <1>1, <1>4, <1>5 DEF Between
  <2> QED BY <2>1 DEF PipeAfter
<1> QED BY <1>3, <1>11, <1>12, <1>13, <1>14, <1>16, <1>17, <1>18, <1>19, <1>20, <1>21 DEF Wiring

LEMMA WiringMake ==
  ASSUME Shape, Wiring, MakePipe
  PROVE  Wiring'
<1>1. /\ pc = "pipe" /\ pc' = "fork"
      /\ UNCHANGED <<i, instr_cnt, lines, counted, file_fd, procs, blocked, failures>>
      /\ \/ \E a, b : MakesBetween(a, b) \/ MakesNumber(a, b)
         \/ FindsNumber \/ MakesNone
  BY MakeFacts DEF Shape, Types
<1>2. pc \in Busy /\ pc' \in Busy /\ SameCommands
  BY <1>1, StillSame DEF Busy
<1>3. instr_cnt \in Keys /\ NP_sender_map \in [Keys -> Pipe \cup {NoPipe}] /\ i \in Nat
  BY <1>1, LineFacts DEF Shape, Types, TypeOK
<1>4. CASE FindsNumber
  <2>1. /\ LastNumber /\ NP_receiver_map[Key] # NoPipe /\ ~Between
        /\ NP_sender_map' = Insert(NP_sender_map, instr_cnt, NP_receiver_map[Key])
        /\ UNCHANGED <<NP_receiver_map, pipe_table, size, fds, buf>>
    BY <1>3, <1>4 DEF FindsNumber, LastNumber, Between
  <2>2. \A k \in Keys :
          /\ NP_sender_map[k] # NoPipe => NP_sender_map'[k] # NoPipe
          /\ NP_sender_map'[k] # NoPipe =>
               \/ NP_sender_map'[k] = NP_sender_map[k]
               \/ /\ k = instr_cnt /\ LastNumber /\ pc \in Busy
                  /\ NP_sender_map'[k] = NP_receiver_map[Key]
    BY <1>2, <1>3, <2>1 DEF Insert
  <2> QED BY <1>1, <1>2, <2>1, <2>2, Quiet
<1>5. CASE MakesNone
  <2>1. /\ i = n /\ ~Between
        /\ UNCHANGED <<NP_sender_map, NP_receiver_map, pipe_table, size, fds, buf>>
    BY <1>3, <1>5 DEF MakesNone, Between
  <2> QED BY <1>1, <1>2, <2>1, Quiet
<1> QED BY <1>1, <1>4, <1>5, WiringBetween, WiringNumber

(* A line is entered: the file of a redirection gets an unused number.      *)
LEMMA WiringEnter ==
  ASSUME Shape, Wiring, NEW l \in Lines, Enter(l)
  PROVE  Wiring'
<1>1. /\ pc = "prompt" /\ pc' = "pipe" /\ i' = 1 /\ lines' = Append(lines, l) /\ l.op = "run"
      /\ pipe_table' = <<>> /\ size' = 0
      /\ UNCHANGED <<instr_cnt, NP_sender_map, NP_receiver_map, buf, procs, blocked, failures>>
  BY DEF Enter, EmptyTable
<1>2. /\ TypeOK /\ Position /\ fds \in [Fd -> Descr] /\ lines \in Seq(RunLine)
      /\ Len(lines) = instr_cnt /\ instr_cnt \in Nat /\ l \in RunLine
  <2>1. TypeOK /\ Position /\ fds \in [Fd -> Descr]
    BY FdsType DEF Shape, Types
  <2>2. instr_cnt \in 0 .. MaxLines /\ lines \in Seq(RunLine)
    BY <2>1 DEF TypeOK
  <2>3. Len(lines) = instr_cnt /\ l \in RunLine
    BY <1>1, <2>1, RunLines DEF Position
  <2> QED BY <2>1, <2>2, <2>3
<1>3. /\ Len(lines') = instr_cnt + 1 /\ lines'[instr_cnt + 1] = l
      /\ \A k \in 1 .. instr_cnt : lines'[k] = lines[k]
  BY <1>1, <1>2
<1>4. Live /\ Live' /\ pc' \in Busy /\ Line' = l /\ Len(pipe_table') = 0 /\ instr_cnt' = instr_cnt
  BY <1>1, <1>3 DEF Live, Busy, Line
<1>5. SameCommands /\ Forked' = Forked
      /\ \A r : (NoReader(r)' <=> NoReader(r)) /\ Writers(r)' = Writers(r)
  BY <1>1, StillSame, SameReaders DEF SameCommands
<1>6. \A k : Awaited(k)' <=> Awaited(k)
  BY <1>1 DEF Awaited, Untaken, Busy
<1>7. \A p \in Forked : /\ p[1] \in Nat /\ p[2] \in Nat /\ p[2] >= 1 /\ p[1] < instr_cnt
                        /\ p[1] + 1 \in 1 .. instr_cnt
  BY <1>1, <1>2, <1>4, ForkedLine
<1>8. \A p \in Forked : lines'[p[1] + 1] = lines[p[1] + 1]
  BY <1>3, <1>7
<1>9. \A f \in Fd : fds[f] # Closed => fds'[f] = fds[f]
  <2>1. CASE l.kind = "file"
    <3>1. Unused(fds) # {} /\ fds' = Place(fds, File)
      BY <2>1 DEF Enter
    <3> QED BY <1>2, <3>1, PlaceFacts
  <2>2. CASE l.kind # "file"
    BY <2>2 DEF Enter
  <2> QED BY <2>1, <2>2
<1>10. ForkedSoFar'
  <2>1. ASSUME NEW p \in Proc
        PROVE  Done(p)' <=> Done(p)
    <3>1. p[1] \in Nat /\ p[2] \in Nat /\ p[2] >= 1
      BY ConstantTypes DEF Proc
    <3>2. Done(p) <=> p[1] < instr_cnt /\ p[2] <= Len(lines[p[1] + 1].cmds)
      BY <1>1 DEF Done, Busy
    <3>3. Done(p)' <=> p[1] < instr_cnt /\ p[2] <= Len(lines'[p[1] + 1].cmds)
      <4>1. ~ (p[2] < i')
        BY <1>1, <3>1
      <4> QED BY <1>1, <4>1 DEF Done
    <3>4. p[1] < instr_cnt => p[1] + 1 \in 1 .. instr_cnt
      BY <1>2, <3>1
    <3> QED BY <1>3, <3>2, <3>3, <3>4
  <2> QED BY <1>4, <1>5, <2>1 DEF Wiring, ForkedSoFar
<1>11. OwnNumbers'
  <2>1. /\ \A f \in Fd : fds[f] = Tty <=> f <= 2
        /\ \A f \in Fd, g \in Fd : fds[f] = fds[g] /\ fds[f] \notin {Closed, Tty} => f = g
        /\ \A f \in Fd : fds[f] # File
    BY <1>1, <1>4 DEF Wiring, OwnNumbers, Busy
  <2>2. CASE l.kind = "file"
    <3>1. Unused(fds) # {} /\ fds' = Place(fds, File) /\ file_fd' = Min(Unused(fds))
      BY <2>2 DEF Enter
    <3>2. /\ file_fd' \in Fd /\ fds[file_fd'] = Closed
          /\ fds' = [fds EXCEPT ![file_fd'] = File]
      BY <3>1, PlaceFacts
    <3>3. fds'[file_fd'] = File /\ \A f \in Fd : f # file_fd' => fds'[f] = fds[f]
      BY <1>2, <3>2
    <3>4. \A f \in Fd : fds'[f] = Tty <=> f <= 2
      BY <2>1, <3>2, <3>3, DescrFacts
    <3>5. \A f \in Fd, g \in Fd : fds'[f] = fds'[g] /\ fds'[f] \notin {Closed, Tty} => f = g
      BY <2>1, <3>2, <3>3, DescrFacts
    <3> QED BY <1>4, <2>1, <2>2, <3>3, <3>4, <3>5 DEF OwnNumbers
  <2>3. CASE l.kind # "file"
    <3>1. fds' = fds
      BY <2>3 DEF Enter
    <3> QED BY <1>4, <2>1, <2>3, <3>1 DEF OwnNumbers
  <2> QED BY <2>2, <2>3
<1>12. \A p, k : p \in Forked => (NumbersTo(p, k)' <=> NumbersTo(p, k))
  BY <1>8 DEF NumbersTo, LastCommand
<1>13. AwaitedPipes'
  <2>1. ASSUME NEW k \in Keys, Awaited(k)
        PROVE  \E r \in 1 .. Len(buf) :
                 /\ fds'[NP_receiver_map[k].read_fd] = ReadEnd(r)
                 /\ fds'[NP_receiver_map[k].write_fd] = WriteEnd(r)
                 /\ NoReader(r) /\ Writers(r) = {p \in Forked : NumbersTo(p, k)}
    <3>1. PICK r \in 1 .. Len(buf) :
            /\ Is(NP_receiver_map[k], r) /\ NoReader(r)
            /\ Writers(r) = {p \in Forked : NumbersTo(p, k)}
      BY <1>4, <2>1 DEF Wiring, AwaitedPipes
    <3>2. NP_receiver_map[k].read_fd \in Fd /\ NP_receiver_map[k].write_fd \in Fd
      BY <1>2, <2>1, MapFacts DEF Awaited, Fds
    <3>3. fds'[NP_receiver_map[k].read_fd] = ReadEnd(r)
          /\ fds'[NP_receiver_map[k].write_fd] = WriteEnd(r)
      BY <1>9, <3>1, <3>2, DescrFacts DEF Is
    <3> QED BY <3>1, <3>3
  <2>2. \A k : {p \in Forked' : NumbersTo(p, k)'} = {p \in Forked : NumbersTo(p, k)}
    BY <1>5, <1>12
  <2> QED BY <1>1, <1>5, <1>6, <2>1, <2>2 DEF AwaitedPipes, Is
<1>14. Entered'
  BY <1>1, <1>4, <1>5, <1>8 DEF Wiring, Entered, LastCommand
<1>15. Meant'
  <2>1. ASSUME NEW k \in Keys, NP_receiver_map[k] # NoPipe
        PROVE  \E m \in 0 .. Len(lines') - 1 :
                 /\ lines'[m + 1].kind = "number" /\ m + lines'[m + 1].num = k
                 /\ m < instr_cnt \/ NP_sender_map[m] # NoPipe
    <3>1. PICK m \in 0 .. Len(lines) - 1 :
            /\ lines[m + 1].kind = "number" /\ m + lines[m + 1].num = k
            /\ m < instr_cnt \/ NP_sender_map[m] # NoPipe
      BY <1>4, <2>1 DEF Wiring, Meant
    <3>2. m + 1 \in 1 .. instr_cnt /\ m \in 0 .. Len(lines') - 1
      BY <1>2, <1>3
    <3> QED BY <1>3, <3>1, <3>2
  <2> QED BY <1>1, <1>4, <2>1 DEF Meant
<1>16. KeysApart' /\ Sending'
  BY <1>1, <1>4, <1>6 DEF Wiring, KeysApart, Sending
<1>17. NumbersApart' /\ TableNumbers' /\ TableOpen' /\ PipeBefore' /\ PipeAfter'
  BY <1>1, <1>4 DEF NumbersApart, TableNumbers, TableOpen, PipeBefore, PipeAfter
<1> QED BY <1>10, <1>11, <1>13, <1>14, <1>15, <1>16, <1>17 DEF Wiring

(* The loop over the commands is done and the table is closed.              *)
LEMMA ReleasedFacts ==
  ASSUME Shape, pc = "release"
  PROVE  /\ \A f \in Fd : Released[f] = IF f \in TableFds(pipe_table, size) THEN Closed ELSE fds[f]
         /\ \A f \in TableFds(pipe_table, size) :
              \E j \in 1 .. Len(pipe_table) : f \in Fds(pipe_table[j])
<1>1. Len(pipe_table) \in Nat /\ size \in 0 .. Len(pipe_table)
  BY DEF Shape, Types, TypeOK, Table, Live
<1>2. \A j \in 1 .. size : j \in 1 .. Len(pipe_table)
  BY <1>1
<1> QED BY <1>2 DEF Released, CloseAll, TableFds, Fds

LEMMA WiringRelease ==
  ASSUME Shape, Wiring, Release
  PROVE  Wiring'
<1>1. /\ pc = "release" /\ pc' = "wait" /\ fds' = Released
      /\ UNCHANGED <<i, instr_cnt, lines, counted, file_fd, pipe_table, size,
                     NP_sender_map, NP_receiver_map, buf, procs, blocked, failures>>
  BY DEF Release
<1>2. Live /\ Live' /\ pc \notin Busy /\ pc' \notin Busy /\ TypeOK
      /\ \A k : Awaited(k)' <=> Awaited(k)
  BY <1>1 DEF Live, Busy, Awaited, Untaken, Shape, Types
<1>3. Line' = Line /\ n' = n /\ Key' = Key /\ SameCommands /\ Forked' = Forked
      /\ \A r : (NoReader(r)' <=> NoReader(r)) /\ Writers(r)' = Writers(r)
  BY <1>1, SameLine, StillSame, SameReaders DEF SameCommands
<1>4. /\ \A f \in Fd : fds'[f] = IF f \in TableFds(pipe_table, size) THEN Closed ELSE fds[f]
      /\ \A f \in TableFds(pipe_table, size) :
           \E j \in 1 .. Len(pipe_table) : f \in Fds(pipe_table[j])
  BY <1>1, ReleasedFacts
<1>5. ForkedSoFar'
  BY <1>1, <1>2, <1>3 DEF Wiring, ForkedSoFar, Done, Busy
<1>6. OwnNumbers'
  <2>1. \A f \in TableFds(pipe_table, size) : f > 2
    BY <1>4 DEF Wiring, TableNumbers
  <2>2. /\ \A f \in Fd : fds[f] = Tty <=> f <= 2
        /\ \A f \in Fd, g \in Fd : fds[f] = fds[g] /\ fds[f] \notin {Closed, Tty} => f = g
        /\ \A f \in Fd : fds[f] # File
    BY <1>2 DEF Wiring, OwnNumbers
  <2>3. \A f \in Fd : fds'[f] = Tty <=> f <= 2
    BY <1>4, <2>1, <2>2, DescrFacts, FdFacts
  <2>4. \A f \in Fd, g \in Fd : fds'[f] = fds'[g] /\ fds'[f] \notin {Closed, Tty} => f = g
    BY <1>4, <2>2
  <2>5. \A f \in Fd : fds'[f] # File
    BY <1>4, <2>2, DescrFacts
  <2> QED BY <1>2, <2>3, <2>4, <2>5 DEF OwnNumbers
<1>7. AwaitedPipes'
  <2>1. ASSUME NEW k \in Keys, Awaited(k)
        PROVE  \E r \in 1 .. Len(buf) :
                 /\ fds'[NP_receiver_map[k].read_fd] = ReadEnd(r)
                 /\ fds'[NP_receiver_map[k].write_fd] = WriteEnd(r)
                 /\ NoReader(r) /\ Writers(r) = {p \in Forked : NumbersTo(p, k)}
    <3>1. PICK r \in 1 .. Len(buf) :
            /\ Is(NP_receiver_map[k], r) /\ NoReader(r)
            /\ Writers(r) = {p \in Forked : NumbersTo(p, k)}
      BY <1>2, <2>1 DEF Wiring, AwaitedPipes
    <3>2. /\ NP_receiver_map[k].read_fd \in Fd /\ NP_receiver_map[k].write_fd \in Fd
          /\ NP_receiver_map[k].read_fd \in Fds(NP_receiver_map[k])
          /\ NP_receiver_map[k].write_fd \in Fds(NP_receiver_map[k])
      BY <1>2, <2>1, MapFacts DEF Awaited, Fds
    <3>3. \A f \in Fds(NP_receiver_map[k]) : f \notin TableFds(pipe_table, size)
      BY <1>2, <1>4, <2>1 DEF Wiring, NumbersApart
    <3> QED BY <1>4, <3>1, <3>2, <3>3 DEF Is
  <2>2. \A p, k : NumbersTo(p, k)' <=> NumbersTo(p, k)
    BY <1>1 DEF NumbersTo, LastCommand
  <2> QED BY <1>1, <1>2, <1>3, <2>1, <2>2 DEF AwaitedPipes, Is
<1>8. Entered' /\ Meant' /\ KeysApart'
  BY <1>1, <1>2, <1>3 DEF Wiring, Entered, LastCommand, Meant, KeysApart
<1>9. Sending' /\ NumbersApart' /\ TableNumbers'
  BY <1>1, <1>2, <1>3 DEF Wiring, Sending, NumbersApart, TableNumbers, Fds
<1>10. TableOpen' /\ PipeBefore' /\ PipeAfter'
  BY <1>1, <1>2 DEF TableOpen, PipeBefore, PipeAfter
<1> QED BY <1>5, <1>6, <1>7, <1>8, <1>9, <1>10 DEF Wiring

LEMMA WiringWait ==
  ASSUME Shape, Wiring, Wait
  PROVE  Wiring'
<1>1. /\ pc = "wait" /\ pc' = "prompt" /\ instr_cnt' = instr_cnt + 1
      /\ UNCHANGED <<i, lines, counted, fds, file_fd, pipe_table, size,
                     NP_sender_map, NP_receiver_map, buf, procs, blocked, failures>>
  BY DEF Wait
<1>2. /\ TypeOK /\ Position /\ instr_cnt \in Nat /\ i = n + 1 /\ n \in Nat
      /\ Line = lines[instr_cnt + 1]
  <2>1. TypeOK /\ Position
    BY DEF Shape, Types
  <2>2. instr_cnt \in 0 .. MaxLines - 1 /\ n \in 1 .. MaxStages
    BY <1>1, <2>1, LineFacts
  <2>3. i = n + 1
    BY <1>1, <2>1 DEF Position
  <2> QED BY <2>1, <2>2, <2>3 DEF Line
<1>3. Live /\ Live' /\ pc \notin Busy /\ pc' \notin Busy
  BY <1>1 DEF Live, Busy
<1>4. \A k \in Keys : Awaited(k)' <=> Awaited(k)
  <2>1. \A k \in Keys : k \in Int
    BY DEF Keys
  <2> QED BY <1>1, <1>2, <2>1 DEF Awaited, Untaken, Busy
<1>5. SameCommands /\ Forked' = Forked
      /\ \A r : (NoReader(r)' <=> NoReader(r)) /\ Writers(r)' = Writers(r)
  BY <1>1, StillSame, SameReaders DEF SameCommands
<1>6. ForkedSoFar'
  <2>1. ASSUME NEW p \in Proc
        PROVE  Done(p)' <=> Done(p)
    <3>1. p[1] \in Nat /\ p[2] \in Nat
      BY DEF Proc
    <3>2. Done(p)' <=> p[1] < instr_cnt + 1 /\ p[2] <= Len(lines[p[1] + 1].cmds)
      BY <1>1 DEF Done, Busy
    <3>3. p[1] = instr_cnt => (p[2] < i <=> p[2] <= Len(lines[p[1] + 1].cmds))
      BY <1>2, <3>1 DEF n
    <3> QED BY <1>1, <1>2, <3>1, <3>2, <3>3 DEF Done
  <2> QED BY <1>3, <1>5, <2>1 DEF Wiring, ForkedSoFar
<1>7. OwnNumbers'
  BY <1>1, <1>3 DEF Wiring, OwnNumbers
<1>8. AwaitedPipes' /\ NumbersApart'
  BY <1>1, <1>3, <1>4, <1>5 DEF Wiring, AwaitedPipes, Is, NumbersTo, LastCommand, NumbersApart, Fds
<1>9. Entered' /\ KeysApart'
  BY <1>1, <1>3, <1>4, <1>5 DEF Wiring, Entered, LastCommand, KeysApart
<1>10. Meant'
  <2>1. \A m \in 0 .. Len(lines) - 1 : m < instr_cnt => m < instr_cnt + 1
    BY <1>2
  <2> QED BY <1>1, <1>3, <2>1 DEF Wiring, Meant
<1>11. Sending'
  <2>1. \A k \in Keys : (k < instr_cnt \/ k = instr_cnt) => k < instr_cnt + 1
    BY <1>2 DEF Keys
  <2> QED BY <1>1, <1>3, <2>1 DEF Wiring, Sending
<1>12. TableNumbers' /\ TableOpen' /\ PipeBefore' /\ PipeAfter'
  BY <1>1, <1>3 DEF Wiring, TableNumbers, TableOpen, PipeBefore, PipeAfter, Fds
<1> QED BY <1>6, <1>7, <1>8, <1>9, <1>10, <1>11, <1>12 DEF Wiring

LEMMA WiringForkFails ==
  ASSUME Shape, Wiring, ForkFails
  PROVE  Wiring'
<1>1. /\ pc = "fork"
      /\ (pc' = "crashed") \/ (pc' = "retry" /\ fds' = fds)
      /\ UNCHANGED <<i, instr_cnt, lines, counted, file_fd, pipe_table,
                     NP_sender_map, NP_receiver_map, buf, procs>>
  BY DEF ForkFails
<1>2. CASE pc' = "retry" /\ fds' = fds
  BY <1>1, <1>2, StillSame, Quiet DEF Busy
<1>3. CASE pc' = "crashed"
  BY <1>1, <1>3 DEF Wiring, ForkedSoFar, OwnNumbers, AwaitedPipes, Entered, Meant, KeysApart,
                    Sending, NumbersApart, TableNumbers, TableOpen, PipeBefore, PipeAfter,
                    Live, Busy, Fds
<1> QED BY <1>1, <1>2, <1>3

LEMMA WiringPrompt ==
  ASSUME Shape, Wiring, NEW l, Builtin(l) \/ Exit(l) \/ Empty(l)
  PROVE  Wiring'
<1>1. CASE Builtin(l)
  <2>1. UNCHANGED <<pc, i, instr_cnt, lines, fds, file_fd, pipe_table, size,
                    NP_sender_map, NP_receiver_map, buf, procs, blocked, failures>>
    BY <1>1 DEF Builtin
  <2> QED BY <2>1, StillSame, Quiet
<1>2. CASE Exit(l)
  <2>1. /\ pc = "prompt" /\ pc' = "gone"
        /\ UNCHANGED <<i, instr_cnt, lines, counted, file_fd, pipe_table, size,
                       NP_sender_map, NP_receiver_map, buf, procs, blocked, failures>>
    BY <1>2 DEF Exit
  <2> QED BY <2>1 DEF Wiring, ForkedSoFar, OwnNumbers, AwaitedPipes, Entered, Meant, KeysApart,
                      Sending, NumbersApart, TableNumbers, TableOpen, PipeBefore, PipeAfter,
                      Live, Busy, Fds
<1>3. CASE Empty(l)
  <2>1. UNCHANGED <<pc, i, instr_cnt, lines, fds, file_fd, pipe_table, size,
                    NP_sender_map, NP_receiver_map, buf, procs, blocked, failures>>
    BY <1>3 DEF Empty, vars, shell
  <2> QED BY <2>1, StillSame, Quiet
<1> QED BY <1>1, <1>2, <1>3

LEMMA WiringRun ==
  ASSUME Shape, Wiring, NEW p \in Proc, Run(p)
  PROVE  Wiring'
<1>1. SameCommands /\ UNCHANGED shell /\ Len(buf') = Len(buf)
  BY MovesSame DEF Shape
<1> QED BY <1>1, Quiet DEF shell

LEMMA WiringRetry ==
  ASSUME Shape, Wiring, Retry
  PROVE  Wiring'
<1>1. /\ pc = "retry" /\ pc' = "pipe"
      /\ UNCHANGED <<i, instr_cnt, lines, counted, fds, file_fd, pipe_table, size,
                     NP_sender_map, NP_receiver_map, buf, procs, failures>>
  BY DEF Retry
<1> QED BY <1>1, StillSame, Quiet DEF Busy

(* Two pipes share no number.                                               *)
LEMMA PipesApart ==
  ASSUME Live, Wiring, NEW q \in Pipe, NEW s \in Pipe, NEW r, NEW o, Is(q, r), Is(s, o)
  PROVE  /\ r = o <=> q = s
         /\ r # o => Fds(q) \cap Fds(s) = {}
<1>1. q.read_fd \in Fd /\ q.write_fd \in Fd /\ s.read_fd \in Fd /\ s.write_fd \in Fd
  BY PipeFacts
<1>2. \A f \in Fd, g \in Fd : fds[f] = fds[g] /\ fds[f] \notin {Closed, Tty} => f = g
  BY DEF Wiring, OwnNumbers
<1>3. r = o => q = s
  BY <1>1, <1>2, DescrFacts, PipeFacts DEF Is
<1>4. q = s => r = o
  BY DescrFacts DEF Is
<1>5. r # o => Fds(q) \cap Fds(s) = {}
  BY DescrFacts DEF Is, Fds
<1> QED BY <1>3, <1>4, <1>5

(* What the command that is forked next is joined to.                       *)
HasInput   == i > 1 \/ NP_receiver_map[instr_cnt] # NoPipe
InputPipe  == IF i > 1 THEN pipe_table[i - 1] ELSE NP_receiver_map[instr_cnt]
HasOutput  == Between \/ LastNumber
OutputPipe == IF Between THEN pipe_table[i] ELSE NP_receiver_map[Key]

Before(r) == /\ Is(InputPipe, r) /\ NoReader(r)
             /\ Writers(r) = IF i > 1 THEN {<<instr_cnt, i - 1>>}
                                      ELSE {p \in Forked : NumbersTo(p, instr_cnt)}
After(r)  == /\ Is(OutputPipe, r) /\ NoReader(r)
             /\ Writers(r) = IF Between THEN {} ELSE {p \in Forked : NumbersTo(p, Key)}

(* What holds when a command is about to be forked.                         *)
LEMMA AtFork ==
  ASSUME Shape, Wiring, pc = "fork"
  PROVE  /\ Live /\ pc \in Busy /\ TypeOK /\ Position /\ Table
         /\ i \in Nat /\ n \in Nat /\ i >= 1 /\ i <= n /\ instr_cnt \in Nat
         /\ instr_cnt \in Keys /\ Key \in Keys /\ instr_cnt + 1 = Len(lines)
         /\ instr_cnt <= MaxLines - 1 /\ n <= MaxStages
         /\ Line.kind \in Kinds /\ (LastNumber => Key > instr_cnt) /\ ~(Between /\ LastNumber)
         /\ i > 1 => i - 1 \in 1 .. Len(pipe_table)
         /\ Between => i \in 1 .. Len(pipe_table)
         /\ size \in 0 .. Len(pipe_table)
         /\ i = 1 => (Awaited(instr_cnt) <=> NP_receiver_map[instr_cnt] # NoPipe)
         /\ \A k \in Keys : k > instr_cnt => (Awaited(k) <=> NP_receiver_map[k] # NoPipe)
         /\ LastNumber => /\ Awaited(Key) /\ NP_receiver_map[Key] # NoPipe
                          /\ NP_sender_map[instr_cnt] = NP_receiver_map[Key]
<1>1. Live /\ pc \in Busy /\ TypeOK /\ Position /\ Table
  BY DEF Live, Busy, Shape, Types
<1>2. /\ instr_cnt \in 0 .. MaxLines - 1 /\ instr_cnt + 1 = Len(lines)
      /\ Line.kind \in Kinds /\ n \in 1 .. MaxStages
      /\ Line.num \in 0 .. MaxNum /\ (Line.num > 0 <=> Line.kind = "number")
      /\ instr_cnt \in Keys /\ Key \in Keys
  BY <1>1, LineFacts
<1>3. i \in 1 .. n
  BY <1>1, <1>2 DEF Position
<1>4. /\ i \in Nat /\ n \in Nat /\ i >= 1 /\ i <= n /\ instr_cnt \in Nat
      /\ instr_cnt <= MaxLines - 1 /\ n <= MaxStages
      /\ (LastNumber => Key > instr_cnt) /\ ~(Between /\ LastNumber)
  BY <1>2, <1>3, ConstantTypes DEF LastNumber, Between, Key
<1>5. /\ i > 1 => i - 1 \in 1 .. Len(pipe_table)
      /\ Between => i \in 1 .. Len(pipe_table)
      /\ size \in 0 .. Len(pipe_table)
  <2>1. Len(pipe_table) \in Nat
    BY <1>1 DEF TypeOK
  <2>2. i - 1 <= Len(pipe_table) /\ (Between => Len(pipe_table) = i)
        /\ size \in 0 .. Len(pipe_table)
    BY <1>1 DEF Table
  <2> QED BY <1>4, <2>1, <2>2
<1>6. i = 1 => (Awaited(instr_cnt) <=> NP_receiver_map[instr_cnt] # NoPipe)
  BY <1>1, <1>4 DEF Awaited, Untaken
<1>7. \A k \in Keys : k > instr_cnt => (Awaited(k) <=> NP_receiver_map[k] # NoPipe)
  BY DEF Awaited
<1>8. ASSUME LastNumber
      PROVE  /\ Awaited(Key) /\ NP_receiver_map[Key] # NoPipe
             /\ NP_sender_map[instr_cnt] = NP_receiver_map[Key]
  <2>1. NP_sender_map[instr_cnt] # NoPipe
    BY <1>8 DEF Shape, SenderFd
  <2>2. NP_receiver_map[Key] = NP_sender_map[instr_cnt]
    BY <1>1, <1>2, <1>4, <2>1 DEF Wiring, Sending
  <2> QED BY <1>2, <1>4, <1>7, <1>8, <2>1, <2>2
<1> QED BY <1>1, <1>2, <1>4, <1>5, <1>6, <1>7, <1>8

(* The pipes of the command that is forked next, and those of later lines,  *)
(* share no number.                                                         *)
LEMMA Joints ==
  ASSUME Shape, Wiring, pc = "fork"
  PROVE  /\ HasInput => InputPipe \in Pipe /\ \E r \in 1 .. Len(buf) : Before(r)
         /\ HasOutput => OutputPipe \in Pipe /\ \E r \in 1 .. Len(buf) : After(r)
         /\ HasInput /\ HasOutput => Fds(InputPipe) \cap Fds(OutputPipe) = {}
         /\ \A k \in Keys : k > instr_cnt /\ NP_receiver_map[k] # NoPipe =>
              /\ NP_receiver_map[k] \in Pipe
              /\ \E r \in 1 .. Len(buf) : /\ Is(NP_receiver_map[k], r) /\ NoReader(r)
                                          /\ Writers(r) = {p \in Forked : NumbersTo(p, k)}
              /\ HasInput => Fds(NP_receiver_map[k]) \cap Fds(InputPipe) = {}
              /\ HasOutput /\ ~(LastNumber /\ k = Key) =>
                   Fds(NP_receiver_map[k]) \cap Fds(OutputPipe) = {}
<1>1. /\ Live /\ pc \in Busy /\ TypeOK
      /\ i \in Nat /\ n \in Nat /\ i >= 1 /\ instr_cnt \in Nat
      /\ instr_cnt \in Keys /\ Key \in Keys
      /\ (LastNumber => Key > instr_cnt) /\ ~(Between /\ LastNumber)
      /\ i > 1 => i - 1 \in 1 .. Len(pipe_table)
      /\ Between => i \in 1 .. Len(pipe_table)
      /\ i = 1 => (Awaited(instr_cnt) <=> NP_receiver_map[instr_cnt] # NoPipe)
      /\ \A k \in Keys : k > instr_cnt => (Awaited(k) <=> NP_receiver_map[k] # NoPipe)
      /\ LastNumber => Awaited(Key) /\ NP_receiver_map[Key] # NoPipe
  BY AtFork
<1>2. ASSUME NEW k \in Keys, Awaited(k)
      PROVE  /\ NP_receiver_map[k] \in Pipe
             /\ \E r \in 1 .. Len(buf) : /\ Is(NP_receiver_map[k], r) /\ NoReader(r)
                                         /\ Writers(r) = {p \in Forked : NumbersTo(p, k)}
  BY <1>1, <1>2, MapFacts DEF Awaited, Wiring, AwaitedPipes
<1>3. \A k \in Keys, j \in Keys : Awaited(k) /\ Awaited(j) /\ k # j =>
        Fds(NP_receiver_map[k]) \cap Fds(NP_receiver_map[j]) = {}
  <2>1. SUFFICES ASSUME NEW k \in Keys, NEW j \in Keys, Awaited(k), Awaited(j), k # j
                 PROVE  Fds(NP_receiver_map[k]) \cap Fds(NP_receiver_map[j]) = {}
    OBVIOUS
  <2>2. NP_receiver_map[k] # NP_receiver_map[j]
    BY <1>1, <2>1 DEF Wiring, KeysApart
  <2>3. PICK r : Is(NP_receiver_map[k], r)
    BY <1>2, <2>1
  <2>4. PICK o : Is(NP_receiver_map[j], o)
    BY <1>2, <2>1
  <2>5. NP_receiver_map[k] \in Pipe /\ NP_receiver_map[j] \in Pipe
    BY <1>2, <2>1
  <2>6. r # o
    BY <1>1, <2>2, <2>3, <2>4, <2>5, PipesApart
  <2> QED BY <1>1, <2>3, <2>4, <2>5, <2>6, PipesApart
<1>4. \A k \in Keys, j \in 1 .. Len(pipe_table) : Awaited(k) =>
        Fds(NP_receiver_map[k]) \cap Fds(pipe_table[j]) = {}
  BY <1>1 DEF Wiring, NumbersApart
<1>5. ASSUME HasInput
      PROVE  InputPipe \in Pipe /\ \E r \in 1 .. Len(buf) : Before(r)
  <2>1. CASE i > 1
    <3>1. InputPipe = pipe_table[i - 1] /\ pipe_table[i - 1] \in Pipe
      BY <1>1, <2>1, TableFacts DEF InputPipe
    <3>2. PICK r \in 1 .. Len(buf) :
            Is(pipe_table[i - 1], r) /\ NoReader(r) /\ Writers(r) = {<<instr_cnt, i - 1>>}
      BY <1>1, <2>1 DEF Wiring, PipeBefore
    <3> QED BY <2>1, <3>1, <3>2 DEF Before
  <2>2. CASE ~(i > 1)
    <3>1. Awaited(instr_cnt) /\ InputPipe = NP_receiver_map[instr_cnt]
      BY <1>1, <1>5, <2>2 DEF HasInput, InputPipe
    <3> QED BY <1>1, <1>2, <2>2, <3>1 DEF Before
  <2> QED BY <2>1, <2>2
<1>6. ASSUME HasOutput
      PROVE  OutputPipe \in Pipe /\ \E r \in 1 .. Len(buf) : After(r)
  <2>1. CASE Between
    <3>1. OutputPipe = pipe_table[i] /\ pipe_table[i] \in Pipe
      BY <1>1, <2>1, TableFacts DEF OutputPipe
    <3>2. PICK r \in 1 .. Len(buf) :
            Is(pipe_table[i], r) /\ NoReader(r) /\ Writers(r) = {}
      BY <2>1 DEF Wiring, PipeAfter
    <3> QED BY <2>1, <3>1, <3>2 DEF After
  <2>2. CASE ~Between
    <3>1. Awaited(Key) /\ OutputPipe = NP_receiver_map[Key]
      BY <1>1, <1>6, <2>2 DEF HasOutput, OutputPipe
    <3> QED BY <1>1, <1>2, <2>2, <3>1 DEF After
  <2> QED BY <2>1, <2>2
<1>7. ASSUME HasInput, HasOutput
      PROVE  Fds(InputPipe) \cap Fds(OutputPipe) = {}
  <2>1. CASE i > 1 /\ Between
    <3>1. PICK r \in 1 .. Len(buf) : Before(r)
      BY <1>5, <1>7
    <3>2. PICK o \in 1 .. Len(buf) : After(o)
      BY <1>6, <1>7
    <3>3. r # o
      BY <2>1, <3>1, <3>2 DEF Before, After
    <3> QED BY <1>1, <1>5, <1>6, <1>7, <3>1, <3>2, <3>3, PipesApart DEF Before, After
  <2>2. CASE i > 1 /\ ~Between
    <3>1. Awaited(Key) /\ OutputPipe = NP_receiver_map[Key] /\ InputPipe = pipe_table[i - 1]
      BY <1>1, <1>7, <2>2 DEF HasOutput, OutputPipe, InputPipe
    <3> QED BY <1>1, <1>4, <2>2, <3>1
  <2>3. CASE ~(i > 1) /\ Between
    <3>1. /\ Awaited(instr_cnt) /\ InputPipe = NP_receiver_map[instr_cnt]
          /\ OutputPipe = pipe_table[i]
      BY <1>1, <1>7, <2>3 DEF HasInput, OutputPipe, InputPipe
    <3> QED BY <1>1, <1>4, <2>3, <3>1
  <2>4. CASE ~(i > 1) /\ ~Between
    <3>1. /\ Awaited(instr_cnt) /\ InputPipe = NP_receiver_map[instr_cnt]
          /\ Awaited(Key) /\ OutputPipe = NP_receiver_map[Key] /\ Key # instr_cnt
      BY <1>1, <1>7, <2>4 DEF HasInput, HasOutput, OutputPipe, InputPipe
    <3> QED BY <1>1, <1>3, <3>1
  <2> QED BY <2>1, <2>2, <2>3, <2>4
<1>8. ASSUME NEW k \in Keys, k > instr_cnt, NP_receiver_map[k] # NoPipe
      PROVE  /\ HasInput => Fds(NP_receiver_map[k]) \cap Fds(InputPipe) = {}
             /\ HasOutput /\ ~(LastNumber /\ k = Key) =>
                   Fds(NP_receiver_map[k]) \cap Fds(OutputPipe) = {}
  <2>1. Awaited(k) /\ k # instr_cnt
    BY <1>1, <1>8
  <2>2. HasInput => Fds(NP_receiver_map[k]) \cap Fds(InputPipe) = {}
    <3>1. CASE i > 1
      BY <1>1, <1>4, <2>1, <3>1 DEF InputPipe
    <3>2. CASE ~(i > 1)
      <4>1. HasInput => Awaited(instr_cnt) /\ InputPipe = NP_receiver_map[instr_cnt]
        BY <1>1, <3>2 DEF InputPipe, HasInput
      <4> QED BY <1>1, <1>3, <2>1, <4>1
    <3> QED BY <3>1, <3>2
  <2>3. HasOutput /\ ~(LastNumber /\ k = Key) =>
                   Fds(NP_receiver_map[k]) \cap Fds(OutputPipe) = {}
    <3>1. CASE Between
      BY <1>1, <1>4, <2>1, <3>1 DEF OutputPipe
    <3>2. CASE ~Between
      BY <1>1, <1>3, <2>1, <3>2 DEF OutputPipe, HasOutput
    <3> QED BY <3>1, <3>2
  <2> QED BY <2>2, <2>3
<1> QED BY <1>1, <1>2, <1>5, <1>6, <1>7, <1>8

(* The child's descriptors: 0 and 1 are what the line says, and the others   *)
(* are the shell's or closed.                                               *)
LEMMA AfterStdin ==
  ASSUME Shape, Wiring, pc = "fork", NEW t, t = WithStdin(fds)
  PROVE  /\ t \in [Fd -> Descr]
         /\ HasInput => \A r : Is(InputPipe, r) => t[0] = ReadEnd(r)
         /\ ~HasInput => t[0] = Tty
         /\ \A f \in Fd : f # 0 =>
              \/ t[f] = fds[f]
              \/ t[f] = Closed /\ HasInput /\ f \in Fds(InputPipe)
         /\ HasInput /\ i = 1 => t[InputPipe.write_fd] = Closed
<1>1. /\ i \in Nat /\ i >= 1 /\ 0 \in Fd /\ 1 \in Fd /\ fds \in [Fd -> Descr]
      /\ \A f \in Fd : fds[f] = Tty <=> f <= 2
  BY AtFork, FdFacts, FdsType DEF Shape, Types, Wiring, OwnNumbers
<1>2. HasInput => InputPipe \in Pipe /\ \E r : Is(InputPipe, r)
  BY Joints DEF Before
<1>3. HasInput => /\ InputPipe.read_fd \in Fd /\ InputPipe.write_fd \in Fd
                  /\ fds[InputPipe.read_fd] # Closed /\ fds[InputPipe.read_fd] # Tty
                  /\ fds[InputPipe.write_fd] # Tty
                  /\ InputPipe.read_fd # InputPipe.write_fd
  BY <1>2, PipeFacts, DescrFacts DEF Is
<1>4. CASE i > 1
  <2>1. HasInput /\ t = Dup2(fds, InputPipe.read_fd, 0)
    BY <1>4, StdinIs DEF HasInput, InputPipe
  <2>2. t = [fds EXCEPT ![0] = fds[InputPipe.read_fd]]
    BY <1>3, <2>1 DEF Dup2
  <2> QED BY <1>1, <1>3, <1>4, <2>1, <2>2 DEF Is
<1>5. CASE ~(i > 1) /\ HasInput
  <2> DEFINE rd == InputPipe.read_fd
             wr == InputPipe.write_fd
             u == Close(fds, wr)
  <2>1. t = Close(Dup2(u, rd, 0), rd)
    BY <1>5, StdinIs DEF HasInput, InputPipe
  <2>2. u = [fds EXCEPT ![wr] = Closed]
    BY DEF Close
  <2>3. u[rd] = fds[rd] /\ u[rd] # Closed
    BY <1>1, <1>3, <1>5, <2>2
  <2>4. t = [[u EXCEPT ![0] = u[rd]] EXCEPT ![rd] = Closed]
    BY <2>1, <2>3 DEF Dup2, Close
  <2>5. rd # 0 /\ wr # 0
    BY <1>1, <1>3, <1>5
  <2>6. u \in [Fd -> Descr] /\ Closed \in Descr
    BY <1>1, CloseType DEF Descr
  <2>7. t[0] = fds[rd] /\ t[rd] = Closed
        /\ \A f \in Fd : f # 0 /\ f # rd => t[f] = u[f]
    BY <1>1, <1>3, <1>5, <2>3, <2>4, <2>5, <2>6
  <2>8. \A f \in Fd : u[f] = IF f = wr THEN Closed ELSE fds[f]
    BY <1>1, <2>2
  <2>9. t \in [Fd -> Descr]
    BY <1>1, <1>3, <1>5, <2>4, <2>6
  <2>10. \A f \in Fd : f # 0 => t[f] = fds[f] \/ (t[f] = Closed /\ f \in {rd, wr})
    BY <2>7, <2>8
  <2>11. t[wr] = Closed
    BY <1>3, <1>5, <2>5, <2>7, <2>8
  <2> QED BY <1>5, <2>7, <2>9, <2>10, <2>11 DEF Is, Fds
<1>6. CASE ~HasInput
  <2>1. t = fds
    BY <1>6, StdinIs DEF HasInput
  <2> QED BY <1>1, <1>6, <2>1
<1> QED BY <1>4, <1>5, <1>6

(* Standard output is set after standard input, which it leaves alone.      *)
LEMMA AfterStdout ==
  ASSUME Shape, Wiring, pc = "fork", NEW t, t = WithStdin(fds), NEW u, u = WithStdout(t)
  PROVE  /\ u \in [Fd -> Descr]
         /\ u[0] = t[0]
         /\ HasOutput => \A r : Is(OutputPipe, r) => u[1] = WriteEnd(r)
         /\ ~HasOutput => u[1] \in {Tty, File}
         /\ \A f \in Fd : f # 1 => u[f] = t[f] \/ u[f] = Closed
<1>1. /\ i \in Nat /\ n \in Nat /\ 0 \in Fd /\ 1 \in Fd /\ fds \in [Fd -> Descr]
      /\ \A f \in Fd : fds[f] = Tty <=> f <= 2
      /\ t \in [Fd -> Descr]
      /\ \A f \in Fd : f # 0 =>
              \/ t[f] = fds[f]
              \/ t[f] = Closed /\ HasInput /\ f \in Fds(InputPipe)
      /\ Closed \in Descr
  BY AtFork, FdFacts, FdsType, AfterStdin DEF Shape, Types, Wiring, OwnNumbers, Descr
<1>2. HasOutput => OutputPipe \in Pipe /\ \E r : Is(OutputPipe, r)
  BY Joints DEF After
<1>3. HasOutput => /\ OutputPipe.read_fd \in Fd /\ OutputPipe.write_fd \in Fd
                   /\ fds[OutputPipe.write_fd] # Closed /\ fds[OutputPipe.write_fd] # Tty
                   /\ fds[OutputPipe.read_fd] # Tty
                   /\ OutputPipe.read_fd # OutputPipe.write_fd
  BY <1>2, PipeFacts, DescrFacts DEF Is
<1>4. HasOutput => t[OutputPipe.write_fd] = fds[OutputPipe.write_fd]
  <2>1. HasInput /\ HasOutput => Fds(InputPipe) \cap Fds(OutputPipe) = {}
    BY Joints
  <2>2. HasOutput => OutputPipe.write_fd \in Fds(OutputPipe) /\ OutputPipe.write_fd # 0
    BY <1>1, <1>3 DEF Fds
  <2> QED BY <1>1, <1>3, <2>1, <2>2
<1>5. CASE Between
  <2>1. HasOutput /\ u = Dup2(t, OutputPipe.write_fd, 1)
    BY <1>1, <1>5, StdoutIs DEF HasOutput, OutputPipe
  <2>2. u = [t EXCEPT ![1] = fds[OutputPipe.write_fd]]
    BY <1>3, <1>4, <2>1 DEF Dup2
  <2> QED BY <1>1, <1>3, <2>1, <2>2 DEF Is
<1>6. CASE LastNumber
  <2> DEFINE rd == OutputPipe.read_fd
             wr == OutputPipe.write_fd
             v == Close(t, rd)
  <2>0. HasOutput /\ OutputPipe = NP_sender_map[instr_cnt]
    BY <1>6, AtFork DEF HasOutput, OutputPipe
  <2>1. u = Close(Dup2(v, wr, 1), wr)
    BY <1>1, <1>6, <2>0, StdoutIs
  <2>2. v = [t EXCEPT ![rd] = Closed]
    BY DEF Close
  <2>3. v[wr] = fds[wr] /\ v[wr] # Closed
    BY <1>1, <1>3, <1>4, <2>0, <2>2
  <2>4. u = [[v EXCEPT ![1] = v[wr]] EXCEPT ![wr] = Closed]
    BY <2>1, <2>3 DEF Dup2, Close
  <2>5. rd # 0 /\ wr # 0 /\ rd # 1 /\ wr # 1
    BY <1>1, <1>3, <2>0
  <2>6. v \in [Fd -> Descr]
    BY <1>1, CloseType
  <2>7. u[1] = fds[wr] /\ u[wr] = Closed
        /\ \A f \in Fd : f # 1 /\ f # wr => u[f] = v[f]
    BY <1>1, <1>3, <2>0, <2>3, <2>4, <2>5, <2>6
  <2>8. \A f \in Fd : v[f] = IF f = rd THEN Closed ELSE t[f]
    BY <1>1, <2>2
  <2>9. u \in [Fd -> Descr]
    BY <1>1, <1>3, <2>0, <2>4, <2>6
  <2>10. u[0] = t[0] /\ \A f \in Fd : f # 1 => u[f] = t[f] \/ u[f] = Closed
    BY <1>1, <2>5, <2>7, <2>8
  <2> QED BY <2>0, <2>7, <2>9, <2>10 DEF Is
<1>7. CASE i = n /\ Line.kind = "file"
  <2>1. u = Close(Dup2(t, file_fd, 1), file_fd) /\ ~HasOutput
    BY <1>1, <1>7, StdoutIs DEF HasOutput, Between, LastNumber
  <2>2. file_fd \in Fd /\ fds[file_fd] = File
    BY <1>7, AtFork DEF Shape, FileFd, Wiring, OwnNumbers
  <2>3. file_fd # 0 /\ file_fd # 1
    BY <1>1, <2>2, DescrFacts
  <2>4. t[file_fd] = File
    <3>1. HasInput => file_fd \notin Fds(InputPipe)
      <4>1. HasInput => \E r : Is(InputPipe, r)
        BY Joints DEF Before
      <4> QED BY <2>2, <4>1, DescrFacts DEF Is, Fds
    <3> QED BY <1>1, <2>2, <2>3, <3>1
  <2>5. u = [[t EXCEPT ![1] = File] EXCEPT ![file_fd] = Closed]
    BY <2>1, <2>4, DescrFacts DEF Dup2, Close
  <2>6. File \in Descr
    BY DEF Descr
  <2> QED BY <1>1, <2>1, <2>2, <2>3, <2>5, <2>6
<1>8. CASE ~Between /\ ~(i = n /\ Line.kind = "file") /\ ~LastNumber
  <2>1. u = t /\ ~HasOutput
    BY <1>1, <1>8, StdoutIs DEF HasOutput
  <2>2. t[1] = Tty
    <3>1. HasInput => 1 \notin Fds(InputPipe)
      <4>1. HasInput => \E r : Is(InputPipe, r)
        BY Joints DEF Before
      <4>2. fds[1] = Tty
        BY <1>1
      <4> QED BY <4>1, <4>2, DescrFacts DEF Is, Fds
    <3> QED BY <1>1, <3>1
  <2> QED BY <1>1, <2>1, <2>2
<1> QED BY <1>5, <1>6, <1>7, <1>8

(* All the child does before exec(), its closing of the line's pipes        *)
(* included.                                                                *)
LEMMA ChildFacts ==
  ASSUME Shape, Wiring, pc = "fork"
  PROVE  /\ ChildFds \in [Fd -> Descr]
         /\ HasInput => \A r : Is(InputPipe, r) => ChildFds[0] = ReadEnd(r)
         /\ ~HasInput => ChildFds[0] = Tty
         /\ HasOutput => \A r : Is(OutputPipe, r) => ChildFds[1] = WriteEnd(r)
         /\ ~HasOutput => ChildFds[1] \in {Tty, File}
         /\ \A f \in Fd : f \notin {0, 1} => ChildFds[f] = fds[f] \/ ChildFds[f] = Closed
         /\ HasInput /\ (i > 1 => size >= i - 1) => ChildFds[InputPipe.write_fd] = Closed
<1> DEFINE t == WithStdin(fds)
           u == WithStdout(t)
<1>1. /\ t \in [Fd -> Descr]
      /\ HasInput => \A r : Is(InputPipe, r) => t[0] = ReadEnd(r)
      /\ ~HasInput => t[0] = Tty
      /\ \A f \in Fd : f # 0 =>
           \/ t[f] = fds[f]
           \/ t[f] = Closed /\ HasInput /\ f \in Fds(InputPipe)
      /\ HasInput /\ i = 1 => t[InputPipe.write_fd] = Closed
  BY AfterStdin
<1>2. /\ u \in [Fd -> Descr]
      /\ u[0] = t[0]
      /\ HasOutput => \A r : Is(OutputPipe, r) => u[1] = WriteEnd(r)
      /\ ~HasOutput => u[1] \in {Tty, File}
      /\ \A f \in Fd : f # 1 => u[f] = t[f] \/ u[f] = Closed
  BY AfterStdout
<1>3. ChildFds = CloseAll(u, TableFds(pipe_table, size))
  BY DEF ChildFds
<1> HIDE DEF t, u
<1>4. \A f \in Fd : ChildFds[f] = IF f \in TableFds(pipe_table, size) THEN Closed ELSE u[f]
  BY <1>3 DEF CloseAll
<1>5. /\ i \in Nat /\ i >= 1 /\ size \in 0 .. Len(pipe_table) /\ 0 \in Fd /\ 1 \in Fd
      /\ Fd \subseteq Nat /\ Len(pipe_table) \in Nat
  BY AtFork, FdFacts DEF TypeOK
<1>6. \A f \in TableFds(pipe_table, size) : f > 2
  <2>1. \A j \in 1 .. size : j \in 1 .. Len(pipe_table)
    BY <1>5
  <2> QED BY <2>1 DEF Wiring, TableNumbers, TableFds, Fds
<1>7. ChildFds[0] = u[0] /\ ChildFds[1] = u[1]
  BY <1>4, <1>5, <1>6
<1>8. ChildFds \in [Fd -> Descr]
  BY ChildType
<1>9. \A f \in Fd : f \notin {0, 1} => ChildFds[f] = fds[f] \/ ChildFds[f] = Closed
  BY <1>1, <1>2, <1>4
<1>10. ASSUME HasInput, i > 1 => size >= i - 1
       PROVE  ChildFds[InputPipe.write_fd] = Closed
  <2>1. PICK r : InputPipe \in Pipe /\ Is(InputPipe, r)
    BY <1>10, Joints DEF Before
  <2>2. InputPipe.write_fd \in Fd /\ InputPipe.write_fd \notin {0, 1}
    <3>1. InputPipe.write_fd \in Fd
      BY <2>1, PipeFacts
    <3>2. fds[0] = Tty /\ fds[1] = Tty
      BY <1>5, AtFork DEF Wiring, OwnNumbers
    <3> QED BY <2>1, <3>1, <3>2, DescrFacts DEF Is
  <2>3. CASE i > 1
    <3>1. i - 1 \in 1 .. size /\ InputPipe = pipe_table[i - 1]
      BY <1>5, <1>10, <2>3 DEF InputPipe
    <3>2. InputPipe.write_fd \in TableFds(pipe_table, size)
      BY <3>1 DEF TableFds
    <3> QED BY <1>4, <2>2, <3>2
  <2>4. CASE i = 1
    BY <1>1, <1>2, <1>4, <1>10, <2>2, <2>4
  <2> QED BY <1>5, <2>3, <2>4
<1> QED BY <1>1, <1>2, <1>7, <1>8, <1>9, <1>10

(* The parent closes the file of the redirection, what the first command    *)
(* read from an earlier line, and the pipe before the command.              *)
Dropped ==
  (IF i = n /\ Line.kind = "file" THEN {file_fd} ELSE {})
  \cup (IF i = 1 /\ NP_receiver_map[instr_cnt] # NoPipe THEN Fds(NP_receiver_map[instr_cnt]) ELSE {})
  \cup (IF i > 1 /\ Line.kind \in CloseInLoop THEN Fds(pipe_table[i - 1]) ELSE {})

LEMMA ParentFacts ==
  ASSUME fds \in [Fd -> Descr]
  PROVE  \A f \in Fd : ParentFds[f] = IF f \in Dropped THEN Closed ELSE fds[f]
<1> DEFINE t1 == IF i = n /\ Line.kind = "file" THEN Close(fds, file_fd) ELSE fds
           q == NP_receiver_map[instr_cnt]
           t2 == IF i = 1 /\ q # NoPipe THEN Receives(t1, q) ELSE t1
           D1 == IF i = n /\ Line.kind = "file" THEN {file_fd} ELSE {}
           D2 == IF i = 1 /\ q # NoPipe THEN Fds(q) ELSE {}
           D3 == IF i > 1 /\ Line.kind \in CloseInLoop THEN Fds(pipe_table[i - 1]) ELSE {}
<1>1. ASSUME NEW t \in [Fd -> Descr], NEW s
      PROVE  /\ ClosePipe(t, s) \in [Fd -> Descr]
             /\ \A f \in Fd : ClosePipe(t, s)[f] = IF f \in Fds(s) THEN Closed ELSE t[f]
  <2>1. ClosePipe(t, s) \in [Fd -> Descr]
    BY CloseType DEF ClosePipe
  <2> QED BY <2>1 DEF ClosePipe, Close, Fds
<1>2. t1 \in [Fd -> Descr] /\ \A f \in Fd : t1[f] = IF f \in D1 THEN Closed ELSE fds[f]
  <2>1. t1 \in [Fd -> Descr]
    BY CloseType
  <2> QED BY <2>1 DEF Close
<1> HIDE DEF t1, D1
<1>3. t2 \in [Fd -> Descr] /\ \A f \in Fd : t2[f] = IF f \in D2 THEN Closed ELSE t1[f]
  BY <1>1, <1>2 DEF Receives
<1>4. ParentFds = IF i > 1 /\ Line.kind \in CloseInLoop THEN ClosePipe(t2, pipe_table[i - 1]) ELSE t2
  BY Zenon DEF ParentFds, t1
<1> HIDE DEF t2, D2
<1>5. \A f \in Fd : ParentFds[f] = IF f \in D3 THEN Closed ELSE t2[f]
  BY <1>1, <1>3, <1>4
<1>6. Dropped = D1 \cup D2 \cup D3
  BY DEF Dropped, D1, D2
<1> QED BY <1>2, <1>3, <1>5, <1>6

(* The command joins the readers and writers of its two pipes.              *)
LEMMA NewCommand ==
  ASSUME Shape, Wiring, Fork
  PROVE  LET x == <<instr_cnt, i>> IN
         /\ x \in Proc /\ x \notin Forked /\ Forked' = Forked \cup {x}
         /\ x[1] = instr_cnt /\ x[2] = i
         /\ \A p \in Proc : p # x => procs'[p] = procs[p]
         /\ procs' \in [Proc -> ProcType]
         /\ procs'[x].st = "running" /\ procs'[x].in = ChildFds[0] /\ procs'[x].out = ChildFds[1]
         /\ procs'[x].held = Held(ChildFds)
         /\ procs'[x].got = 0 /\ procs'[x].wrote = 0 /\ procs'[x].eof = FALSE
         /\ \A r : NoReader(r) => (NoReader(r)' <=> ChildFds[0] # ReadEnd(r))
         /\ \A r : Writers(r)' =
                  IF ChildFds[1] = WriteEnd(r) THEN Writers(r) \cup {x} ELSE Writers(r)
<1> DEFINE x == <<instr_cnt, i>>
<1>1. /\ pc = "fork"
      /\ procs' = [procs EXCEPT ![x] = Exec(Line.cmds[i], ChildFds)]
      /\ UNCHANGED <<instr_cnt, lines, buf>>
  BY DEF Fork
<1>2. /\ i \in Nat /\ n \in Nat /\ i >= 1 /\ i <= n /\ instr_cnt \in Nat /\ Live
      /\ instr_cnt <= MaxLines - 1 /\ n <= MaxStages /\ TypeOK /\ Position
  BY <1>1, AtFork
<1>3. x \in Proc /\ x[1] = instr_cnt /\ x[2] = i
  BY <1>2, ConstantTypes DEF Proc
<1>4. x \notin Forked
  <2>1. ~ Done(x)
    BY <1>2, <1>3 DEF Done
  <2> QED BY <1>2, <1>3, <2>1 DEF Wiring, ForkedSoFar
<1>5. Line.cmds[i] \in Command
  BY <1>1, <1>2, LineFacts
<1> DEFINE e == Exec(Line.cmds[i], ChildFds)
<1>6. /\ e \in ProcType
      /\ e.st = "running" /\ e.in = ChildFds[0] /\ e.out = ChildFds[1]
      /\ e.held = Held(ChildFds) /\ e.got = 0 /\ e.wrote = 0 /\ e.eof = FALSE
  BY <1>1, <1>5, ChildFacts, ExecType
<1>7. procs \in [Proc -> ProcType]
  BY DEF Shape, Types
<1> HIDE DEF e
<1>8. procs'[x] = e /\ \A p \in Proc : p # x => procs'[p] = procs[p]
  <2>1. procs' = [procs EXCEPT ![x] = e]
    BY <1>1 DEF e
  <2> HIDE DEF x
  <2> QED BY <1>3, <1>7, <2>1
<1>9. procs' \in [Proc -> ProcType]
  <2>1. procs' = [procs EXCEPT ![x] = e]
    BY <1>1 DEF e
  <2> HIDE DEF x
  <2> QED BY <1>6, <1>7, <2>1
<1> HIDE DEF x
<1>10. Forked' = Forked \cup {x}
  <2>1. \A p : p \in Forked' <=> p \in Proc /\ procs'[p].st # "none"
    BY DEF Forked
  <2>2. \A p : p \in Forked <=> p \in Proc /\ procs[p].st # "none"
    BY DEF Forked
  <2>3. procs'[x].st # "none"
    BY <1>6, <1>8
  <2>4. \A p : p \in Forked' <=> p \in Forked \/ p = x
    BY <1>3, <1>8, <2>1, <2>2, <2>3
  <2> QED BY <2>4
<1>11. \A p \in Forked : p \in Proc /\ p # x /\ procs'[p] = procs[p]
  BY <1>4, <1>8 DEF Forked
<1>12. \A r : NoReader(r) => (NoReader(r)' <=> ChildFds[0] # ReadEnd(r))
  BY <1>6, <1>8, <1>10, <1>11 DEF NoReader
<1>13. \A r : Writers(r)' = IF ChildFds[1] = WriteEnd(r) THEN Writers(r) \cup {x} ELSE Writers(r)
  BY <1>6, <1>8, <1>10, <1>11 DEF Writers
<1> QED BY <1>3, <1>4, <1>6, <1>8, <1>9, <1>10, <1>12, <1>13 DEF x

(* What the parent closes is the file and the input of the command.          *)
LEMMA DroppedFacts ==
  ASSUME Shape, Wiring, pc = "fork"
  PROVE  /\ \A f \in Dropped \cap Fd :
              \/ i = n /\ Line.kind = "file" /\ f = file_fd /\ fds[f] = File
              \/ HasInput /\ f \in Fds(InputPipe) /\ (i > 1 => Line.kind \in CloseInLoop)
         /\ \A f \in Dropped \cap Fd : f > 2
         /\ HasInput /\ (i > 1 => Line.kind \in CloseInLoop) => Fds(InputPipe) \subseteq Dropped
         /\ i = n /\ Line.kind = "file" => file_fd \in Dropped
<1>1. i \in Nat /\ i >= 1 /\ \A f \in Fd : f > 2 <=> fds[f] # Tty
  <2>1. \A f \in Fd : fds[f] = Tty <=> f <= 2
    BY AtFork DEF Wiring, OwnNumbers
  <2>2. \A f \in Fd : f > 2 <=> ~(f <= 2)
    BY DEF Fd
  <2> QED BY AtFork, <2>1, <2>2
<1>2. i = n /\ Line.kind = "file" => fds[file_fd] = File
  BY AtFork DEF Wiring, OwnNumbers
<1>3. \A f \in Dropped \cap Fd :
              \/ i = n /\ Line.kind = "file" /\ f = file_fd /\ fds[f] = File
              \/ HasInput /\ f \in Fds(InputPipe) /\ (i > 1 => Line.kind \in CloseInLoop)
  BY <1>1, <1>2 DEF Dropped, HasInput, InputPipe
<1>4. \A f \in Dropped \cap Fd : f > 2
  <2>1. HasInput => \A f \in Fds(InputPipe) : fds[f] # Tty
    <3>1. HasInput => \E r : Is(InputPipe, r)
      BY Joints DEF Before
    <3> QED BY <3>1, DescrFacts DEF Is, Fds
  <2> QED BY <1>1, <1>3, <2>1, DescrFacts
<1>5. HasInput /\ (i > 1 => Line.kind \in CloseInLoop) => Fds(InputPipe) \subseteq Dropped
  BY <1>1 DEF Dropped, HasInput, InputPipe
<1> QED BY <1>3, <1>4, <1>5 DEF Dropped

(* The command is joined, and the parent closes what nobody needs any       *)
(* more.                                                                    *)
LEMMA WiringFork ==
  ASSUME Shape, Wiring, Fork, Sparing
  PROVE  Wiring'
<1> DEFINE x == <<instr_cnt, i>>
<1>1. /\ pc = "fork" /\ pc' = IF i = n THEN "release" ELSE "pipe"
      /\ fds' = ParentFds /\ i' = i + 1
      /\ UNCHANGED <<instr_cnt, lines, counted, file_fd, pipe_table, size,
                     NP_sender_map, NP_receiver_map, buf, blocked, failures>>
  BY DEF Fork
<1>2. /\ Live /\ pc \in Busy /\ TypeOK /\ Position
      /\ i \in Nat /\ n \in Nat /\ i >= 1 /\ i <= n /\ instr_cnt \in Nat
      /\ instr_cnt \in Keys /\ Key \in Keys /\ instr_cnt + 1 = Len(lines)
      /\ (LastNumber => Key > instr_cnt) /\ ~(Between /\ LastNumber)
      /\ i = 1 => (Awaited(instr_cnt) <=> NP_receiver_map[instr_cnt] # NoPipe)
      /\ \A k \in Keys : k > instr_cnt => (Awaited(k) <=> NP_receiver_map[k] # NoPipe)
      /\ LastNumber => Awaited(Key) /\ NP_receiver_map[Key] # NoPipe
  BY <1>1, AtFork
<1>3. /\ x \in Proc /\ x \notin Forked /\ Forked' = Forked \cup {x}
      /\ x[1] = instr_cnt /\ x[2] = i
      /\ \A r : NoReader(r) => (NoReader(r)' <=> ChildFds[0] # ReadEnd(r))
      /\ \A r : Writers(r)' = IF ChildFds[1] = WriteEnd(r) THEN Writers(r) \cup {x} ELSE Writers(r)
  BY NewCommand
<1>4. Line' = Line /\ n' = n /\ Key' = Key /\ (i = n \/ (Between /\ i # n))
  BY <1>1, <1>2, SameLine DEF Between
<1>5. /\ Live' /\ (pc' \in Busy <=> i # n)
      /\ \A k \in Keys : Awaited(k)' <=> k > instr_cnt /\ NP_receiver_map[k] # NoPipe
  BY <1>1, <1>2 DEF Live, Busy, Awaited, Untaken
<1>6. \A f \in Fd : fds'[f] = IF f \in Dropped THEN Closed ELSE fds[f]
  BY <1>1, <1>2, FdsType, ParentFacts
<1>7. /\ \A f \in Dropped \cap Fd :
              \/ i = n /\ Line.kind = "file" /\ f = file_fd /\ fds[f] = File
              \/ HasInput /\ f \in Fds(InputPipe) /\ (i > 1 => Line.kind \in CloseInLoop)
      /\ \A f \in Dropped \cap Fd : f > 2
      /\ i = n /\ Line.kind = "file" => file_fd \in Dropped
  BY <1>1, DroppedFacts
<1>8. /\ HasInput => InputPipe \in Pipe /\ \E r \in 1 .. Len(buf) : Before(r)
      /\ HasOutput => OutputPipe \in Pipe /\ \E r \in 1 .. Len(buf) : After(r)
      /\ HasInput /\ HasOutput => Fds(InputPipe) \cap Fds(OutputPipe) = {}
      /\ \A k \in Keys : k > instr_cnt /\ NP_receiver_map[k] # NoPipe =>
              /\ NP_receiver_map[k] \in Pipe
              /\ \E r \in 1 .. Len(buf) : /\ Is(NP_receiver_map[k], r) /\ NoReader(r)
                                          /\ Writers(r) = {p \in Forked : NumbersTo(p, k)}
              /\ HasInput => Fds(NP_receiver_map[k]) \cap Fds(InputPipe) = {}
              /\ HasOutput /\ ~(LastNumber /\ k = Key) =>
                   Fds(NP_receiver_map[k]) \cap Fds(OutputPipe) = {}
  BY <1>1, Joints
<1>9. /\ HasInput => \A r : Is(InputPipe, r) => ChildFds[0] = ReadEnd(r)
      /\ ~HasInput => ChildFds[0] = Tty
      /\ HasOutput => \A r : Is(OutputPipe, r) => ChildFds[1] = WriteEnd(r)
      /\ ~HasOutput => ChildFds[1] \in {Tty, File}
  BY <1>1, ChildFacts
(* A pipe apart from the input keeps its numbers and gets no reader.        *)
<1>10. ASSUME NEW q \in Pipe, NEW r, Is(q, r), HasInput => Fds(q) \cap Fds(InputPipe) = {}
       PROVE  /\ fds'[q.read_fd] = ReadEnd(r) /\ fds'[q.write_fd] = WriteEnd(r)
              /\ ChildFds[0] # ReadEnd(r)
  <2>1. /\ q.read_fd \in Fd /\ q.write_fd \in Fd /\ q.read_fd \in Fds(q) /\ q.write_fd \in Fds(q)
        /\ fds[q.read_fd] = ReadEnd(r) /\ fds[q.write_fd] = WriteEnd(r)
    BY <1>10, PipeFacts DEF Fds, Is
  <2>2. q.read_fd \notin Dropped /\ q.write_fd \notin Dropped
    BY <1>7, <1>10, <2>1, DescrFacts
  <2>3. ChildFds[0] # ReadEnd(r)
    <3>1. CASE HasInput
      <4>1. PICK o : Is(InputPipe, o)
        BY <1>8, <3>1 DEF Before
      <4>2. o # r
        <5>1. q # InputPipe
          BY <1>10, <2>1, <3>1
        <5> QED BY <1>2, <1>8, <1>10, <3>1, <4>1, <5>1, PipesApart
      <4> QED BY <1>9, <3>1, <4>1, <4>2, DescrFacts
    <3>2. CASE ~HasInput
      BY <1>9, <3>2, DescrFacts
    <3> QED BY <3>1, <3>2
  <2> QED BY <1>6, <2>1, <2>2, <2>3
(* A pipe apart from the output gets no writer.                             *)
<1>11. ASSUME NEW q \in Pipe, NEW r, Is(q, r), HasOutput => Fds(q) \cap Fds(OutputPipe) = {}
       PROVE  ChildFds[1] # WriteEnd(r)
  <2>1. CASE HasOutput
    <3>1. PICK o : Is(OutputPipe, o)
      BY <1>8, <2>1 DEF After
    <3>2. o # r
      <4>1. q # OutputPipe
        BY <1>11, <2>1 DEF Fds
      <4> QED BY <1>2, <1>8, <1>11, <2>1, <3>1, <4>1, PipesApart
    <3> QED BY <1>9, <2>1, <3>1, <3>2, DescrFacts
  <2>2. CASE ~HasOutput
    BY <1>9, <2>2, DescrFacts
  <2> QED BY <2>1, <2>2
<1> HIDE DEF x
<1>12. ForkedSoFar'
  <2>1. ASSUME NEW p \in Proc
        PROVE  Done(p)' <=> Done(p) \/ p = x
    <3>1. p[1] \in Nat /\ p[2] \in Nat /\ p = <<p[1], p[2]>>
      BY DEF Proc
    <3>2. Done(p) <=> (p[1] < instr_cnt /\ p[2] <= Len(lines[p[1] + 1].cmds))
                      \/ (p[1] = instr_cnt /\ p[2] < i)
      BY <1>2 DEF Done
    <3>3. Done(p)' <=> (p[1] < instr_cnt /\ p[2] <= Len(lines[p[1] + 1].cmds))
                       \/ (p[1] = instr_cnt /\ p[2] < i + 1)
      <4>1. pc' \in Busy \cup {"release", "wait"}
        BY <1>1, <1>4 DEF Busy
      <4> QED BY <1>1, <4>1 DEF Done
    <3>4. p = x <=> p[1] = instr_cnt /\ p[2] = i
      BY <3>1 DEF x
    <3>5. p[2] < i + 1 <=> p[2] < i \/ p[2] = i
      BY <1>2, <3>1
    <3> QED BY <3>2, <3>3, <3>4, <3>5
  <2> QED BY <1>2, <1>3, <1>5, <2>1 DEF Wiring, ForkedSoFar
<1>13. OwnNumbers'
  <2>1. /\ \A f \in Fd : fds[f] = Tty <=> f <= 2
        /\ \A f \in Fd, g \in Fd : fds[f] = fds[g] /\ fds[f] \notin {Closed, Tty} => f = g
        /\ Line.kind = "file" => fds[file_fd] = File
        /\ \A f \in Fd : fds[f] = File => Line.kind = "file" /\ f = file_fd
    BY <1>2 DEF Wiring, OwnNumbers
  <2>2. \A f \in Fd : fds'[f] = Tty <=> f <= 2
    BY <1>6, <1>7, <2>1, FdFacts, DescrFacts
  <2>3. \A f \in Fd, g \in Fd : fds'[f] = fds'[g] /\ fds'[f] \notin {Closed, Tty} => f = g
    BY <1>6, <2>1
  <2>4. i # n /\ Line.kind = "file" => fds'[file_fd] = File
    <3>1. SUFFICES ASSUME i # n, Line.kind = "file"
                   PROVE  fds'[file_fd] = File
      OBVIOUS
    <3>2. file_fd \in Fd /\ fds[file_fd] = File
      BY <1>2, <2>1, <3>1 DEF Shape, FileFd
    <3>3. HasInput => file_fd \notin Fds(InputPipe)
      <4>1. HasInput => \E r : Is(InputPipe, r)
        BY <1>8 DEF Before
      <4> QED BY <3>2, <4>1, DescrFacts DEF Is, Fds
    <3> QED BY <1>6, <1>7, <3>1, <3>2, <3>3
  <2>5. \A f \in Fd : fds'[f] = File => i # n /\ Line.kind = "file" /\ f = file_fd
    BY <1>6, <1>7, <2>1, DescrFacts
  <2> QED BY <1>1, <1>4, <1>5, <2>2, <2>3, <2>4, <2>5 DEF OwnNumbers
<1>14. AwaitedPipes'
  <2>1. ASSUME NEW k \in Keys, k > instr_cnt, NP_receiver_map[k] # NoPipe
        PROVE  \E r \in 1 .. Len(buf) :
                 /\ fds'[NP_receiver_map[k].read_fd] = ReadEnd(r)
                 /\ fds'[NP_receiver_map[k].write_fd] = WriteEnd(r)
                 /\ NoReader(r)' /\ Writers(r)' = {p \in Forked \cup {x} : NumbersTo(p, k)}
    <3>1. PICK r \in 1 .. Len(buf) :
            /\ Is(NP_receiver_map[k], r) /\ NoReader(r)
            /\ Writers(r) = {p \in Forked : NumbersTo(p, k)}
      BY <1>8, <2>1
    <3>2. NP_receiver_map[k] \in Pipe
      BY <1>8, <2>1
    <3>3. /\ fds'[NP_receiver_map[k].read_fd] = ReadEnd(r)
          /\ fds'[NP_receiver_map[k].write_fd] = WriteEnd(r)
          /\ NoReader(r)'
      BY <1>3, <1>8, <1>10, <2>1, <3>1, <3>2
    <3>4. NumbersTo(x, k) <=> LastNumber /\ k = Key
      <4>1. lines[x[1] + 1] = Line
        BY <1>3 DEF Line
      <4>2. LastCommand(x[1]) = <<instr_cnt, n>>
        BY <1>3 DEF LastCommand, n, Line
      <4>3. x = LastCommand(x[1]) <=> i = n
        BY <4>2 DEF x
      <4> QED BY <1>3, <4>1, <4>3 DEF NumbersTo, LastNumber, Key
    <3>5. ChildFds[1] = WriteEnd(r) <=> LastNumber /\ k = Key
      <4>1. CASE LastNumber /\ k = Key
        <5>1. HasOutput /\ OutputPipe = NP_receiver_map[k]
          BY <1>2, <4>1 DEF HasOutput, OutputPipe
        <5> QED BY <1>9, <3>1, <4>1, <5>1
      <4>2. CASE ~(LastNumber /\ k = Key)
        BY <1>8, <1>11, <2>1, <3>1, <3>2, <4>2
      <4> QED BY <4>1, <4>2
    <3>6. Writers(r)' = {p \in Forked \cup {x} : NumbersTo(p, k)}
      <4>1. CASE LastNumber /\ k = Key
        <5>1. Writers(r)' = Writers(r) \cup {x}
          BY <1>3, <3>5, <4>1
        <5> QED BY <3>1, <3>4, <4>1, <5>1
      <4>2. CASE ~(LastNumber /\ k = Key)
        <5>1. Writers(r)' = Writers(r)
          BY <1>3, <3>5, <4>2
        <5> QED BY <3>1, <3>4, <4>2, <5>1
      <4> QED BY <4>1, <4>2
    <3> QED BY <3>3, <3>6
  <2>2. \A p, k : NumbersTo(p, k)' <=> NumbersTo(p, k)
    BY <1>1 DEF NumbersTo, LastCommand
  <2> QED BY <1>1, <1>3, <1>5, <2>1, <2>2 DEF AwaitedPipes, Is
<1>15. Entered'
  <2>1. ASSUME lines[x[1] + 1].kind = "number", x = LastCommand(x[1])
        PROVE  NP_receiver_map[x[1] + lines[x[1] + 1].num] # NoPipe
    <3>1. lines[x[1] + 1] = Line /\ LastCommand(x[1]) = <<instr_cnt, n>>
      BY <1>3 DEF Line, LastCommand, n
    <3>2. LastNumber
      BY <2>1, <3>1 DEF LastNumber, x
    <3> QED BY <1>2, <1>3, <3>1, <3>2 DEF Key
  <2> QED BY <1>1, <1>2, <1>3, <2>1 DEF Wiring, Entered, LastCommand
<1>16. Meant'
  BY <1>1, <1>2 DEF Wiring, Meant
<1>17. KeysApart'
  BY <1>1, <1>2, <1>5 DEF Wiring, KeysApart
<1>18. Sending'
  <2>1. pc # "prompt" /\ pc' # "prompt" /\ i' > i
    BY <1>1, <1>2
  <2>2. i' \in Nat
    BY <1>1, <1>2
  <2> QED BY <1>1, <1>2, <1>4, <2>1, <2>2 DEF Wiring, Sending
<1>19. NumbersApart' /\ TableNumbers'
  BY <1>1, <1>2, <1>5 DEF Wiring, NumbersApart, TableNumbers, Fds
<1>20. TableOpen'
  <2>1. ASSUME i # n, Line.kind = "number", NEW j \in 1 .. Len(pipe_table),
               NEW f \in Fds(pipe_table[j])
        PROVE  fds'[f] # Closed
    <3>1. f \in Fd /\ fds[f] # Closed
      BY <1>2, <2>1, TableFacts DEF Wiring, TableOpen
    <3>2. f \notin Dropped
      <4>1. CASE i > 1
        <5>1. lines[instr_cnt + 1] \in Lines /\ Line.op = "run"
          BY <1>2, LineFacts DEF Shape, Types, Position, RunLine
        <5>2. Len(Line.cmds) > 2
          BY <1>2, <2>1, <4>1, LineFacts DEF Shape, Types, Position, Busy, n
        <5>3. "number" \notin CloseInLoop
          BY <2>1, <5>1, <5>2 DEF Sparing, Line
        <5> QED BY <1>7, <2>1, <3>1, <4>1, <5>3
      <4>2. CASE i = 1
        <5>1. HasInput => /\ InputPipe = NP_receiver_map[instr_cnt] /\ Awaited(instr_cnt)
          BY <1>2, <4>2 DEF HasInput, InputPipe
        <5>2. HasInput => f \notin Fds(InputPipe)
          BY <1>2, <5>1 DEF Wiring, NumbersApart
        <5> QED BY <1>7, <2>1, <3>1, <5>2
      <4> QED BY <1>2, <4>1, <4>2
    <3> QED BY <1>6, <3>1, <3>2
  <2> QED BY <1>1, <1>4, <1>5, <2>1 DEF TableOpen, Fds
<1>21. PipeBefore'
  <2>1. SUFFICES ASSUME i # n
                 PROVE  \E r \in 1 .. Len(buf) :
                          /\ fds'[pipe_table[i].read_fd] = ReadEnd(r)
                          /\ fds'[pipe_table[i].write_fd] = WriteEnd(r)
                          /\ NoReader(r)' /\ Writers(r)' = {x}
    <3>1. i' - 1 = i
      BY <1>1, <1>2
    <3> QED BY <1>1, <1>2, <1>5, <3>1 DEF PipeBefore, Is, x
  <2>2. Between /\ HasOutput /\ OutputPipe = pipe_table[i] /\ OutputPipe \in Pipe
    BY <1>4, <1>8, <2>1 DEF HasOutput, OutputPipe
  <2>3. PICK r \in 1 .. Len(buf) : After(r)
    BY <1>8, <2>2
  <2>4. Is(OutputPipe, r) /\ NoReader(r) /\ Writers(r) = {}
    BY <2>2, <2>3 DEF After
  <2>5. HasInput => Fds(OutputPipe) \cap Fds(InputPipe) = {}
    BY <1>8, <2>2
  <2>6. /\ fds'[OutputPipe.read_fd] = ReadEnd(r) /\ fds'[OutputPipe.write_fd] = WriteEnd(r)
        /\ ChildFds[0] # ReadEnd(r)
    BY <1>10, <2>2, <2>4, <2>5
  <2>7. NoReader(r)' /\ Writers(r)' = {x}
    BY <1>3, <1>9, <2>2, <2>4, <2>6
  <2> QED BY <2>2, <2>6, <2>7
<1>22. PipeAfter'
  BY <1>1 DEF PipeAfter
<1> QED BY <1>12, <1>13, <1>14, <1>15, <1>16, <1>17, <1>18, <1>19, <1>20, <1>21, <1>22 DEF Wiring

LEMMA WiringInit ==
  ASSUME Init
  PROVE  Wiring
<1>1. /\ pc = "prompt" /\ i = 1 /\ instr_cnt = 0 /\ lines = <<>>
      /\ fds = [f \in Fd |-> IF f <= 2 THEN Tty ELSE Closed]
      /\ pipe_table = <<>>
      /\ NP_sender_map = [k \in Keys |-> NoPipe] /\ NP_receiver_map = [k \in Keys |-> NoPipe]
      /\ procs = [p \in Proc |-> NoProc]
  BY DEF Init
<1>2. Live /\ pc \notin Busy /\ Len(pipe_table) = 0 /\ Forked = {}
  BY <1>1 DEF Live, Busy, Forked, NoProc
<1>3. \A k \in Keys : ~ Awaited(k)
  BY <1>1 DEF Awaited
<1>4. ForkedSoFar
  <2>1. \A p \in Proc : ~ Done(p)
    <3>1. \A p \in Proc : p[1] \in Nat
      BY DEF Proc
    <3> QED BY <1>1, <1>2, <3>1 DEF Done, Busy
  <2> QED BY <1>2, <2>1 DEF ForkedSoFar
<1>5. OwnNumbers
  BY <1>1, <1>2, DescrFacts DEF OwnNumbers
<1>6. AwaitedPipes /\ Entered /\ KeysApart /\ NumbersApart
  BY <1>2, <1>3 DEF AwaitedPipes, Entered, KeysApart, NumbersApart
<1>7. Meant /\ Sending
  BY <1>1 DEF Meant, Sending
<1>8. TableNumbers /\ TableOpen /\ PipeBefore /\ PipeAfter
  BY <1>1, <1>2 DEF TableNumbers, TableOpen, PipeBefore, PipeAfter
<1> QED BY <1>4, <1>5, <1>6, <1>7, <1>8 DEF Wiring

LEMMA WiringNext ==
  ASSUME Shape, Wiring, [Next]_vars, Sparing
  PROVE  Wiring'
<1>1. CASE Shell
  BY <1>1, WiringMake, WiringFork, WiringRetry, WiringRelease, WiringWait DEF Shell
<1>2. CASE User
  BY <1>2, WiringEnter, WiringPrompt DEF User
<1>3. CASE ForkFails
  BY <1>3, WiringForkFails
<1>4. CASE \E p \in Proc : Run(p)
  BY <1>4, WiringRun
<1>5. CASE UNCHANGED vars
  <2>1. /\ UNCHANGED <<pc, i, instr_cnt, lines, fds, file_fd, pipe_table, NP_sender_map,
                       NP_receiver_map>>
        /\ UNCHANGED procs /\ Len(buf') = Len(buf)
    BY <1>5 DEF vars, shell
  <2> QED BY <2>1, StillSame, Quiet
<1> QED BY <1>1, <1>2, <1>3, <1>4, <1>5 DEF Next

-----------------------------------------------------------------------------
(* Who reads what from whom. *)

(* Who the line numbering and the bars make a feeder of a command.          *)
LEMMA FeedersAre ==
  ASSUME NEW p, NEW f
  PROVE  f \in Feeders(p) <=>
           IF p[2] > 1 THEN f = <<p[1], p[2] - 1>>
           ELSE \E m \in 0 .. p[1] - 1 : /\ lines[m + 1].kind = "number"
                                         /\ m + lines[m + 1].num = p[1]
                                         /\ f = LastCommand(m)
BY DEF Feeders

(* The lines that a forked command may be fed by have all been entered.      *)
LEMMA FeedersStay ==
  ASSUME Shape, Shape', Wiring, [Next]_vars, NEW p \in Forked
  PROVE  Feeders(p)' = Feeders(p)
<1>1. CASE UNCHANGED lines
  BY <1>1 DEF Feeders, LastCommand
<1>2. CASE ~ UNCHANGED lines
  <2>1. PICK l \in Lines : Enter(l)
    BY <1>2 DEF Next, Shell, MakePipe, Fork, Retry, Release, Wait, User, Empty, Builtin, Exit,
                ForkFails, Run, Read, Write, Finish, vars, shell
  <2>2. pc = "prompt" /\ lines' = Append(lines, l)
    BY <2>1 DEF Enter
  <2>3. Live /\ lines \in Seq(RunLine) /\ Len(lines) \in Nat
    BY <2>2 DEF Live, Shape, Types, TypeOK
  <2>4. p[1] \in Nat /\ p[1] + 1 \in 1 .. Len(lines)
    BY <2>3, ForkedLine
  <2>5. l \in RunLine
    BY <2>1, RunLines DEF Enter
  <2>6. \A m \in 0 .. p[1] - 1 : lines'[m + 1] = lines[m + 1]
    BY <2>2, <2>3, <2>4, <2>5
  <2> QED BY <2>6 DEF Feeders, LastCommand
<1> QED BY <1>1, <1>2

(* A command that reads from a pipe, or writes to one, has that end.        *)
LEMMA ReadsPipe ==
  ASSUME Types, NEW p \in Forked
  PROVE  /\ FromPipe(p) => \E r \in 1 .. Len(buf) : procs[p].in = ReadEnd(r) /\ procs[p].in[2] = r
         /\ ToPipe(p) => \E r \in 1 .. Len(buf) : procs[p].out = WriteEnd(r) /\ procs[p].out[2] = r
<1>1. procs[p].in \in Descr /\ procs[p].out \in Descr
  BY DEF Types, ProcType, Forked
<1> QED BY <1>1, EndFacts DEF FromPipe, ToPipe

Linked == Joined /\ Wired

LEMMA LinkedSame ==
  ASSUME Linked, SameCommands, \A p \in Forked : Feeders(p)' = Feeders(p)
  PROVE  Linked'
<1>1. /\ Forked' = Forked /\ \A r : Writers(r)' = Writers(r)
      /\ \A p \in Forked : procs'[p].in = procs[p].in /\ procs'[p].out = procs[p].out
  BY SameReaders DEF SameCommands
<1>2. Joined'
  BY <1>1 DEF Linked, Joined, FromPipe
<1>3. Wired'
  <2>1. \A p \in Forked : FromPipe(p) => Feeders(p) \subseteq Forked
    BY DEF Linked, Joined, Writers
  <2>2. \A p \in Forked : Feeders(p) # {} => FromPipe(p)
    BY DEF Linked, Wired
  <2>3. \A p \in Forked : \A f \in Feeders(p) : procs'[f].out = procs[f].out
    BY <1>1, <2>1, <2>2
  <2> QED BY <1>1, <2>3 DEF Linked, Wired, FromPipe
<1> QED BY <1>2, <1>3 DEF Linked

(* The forked command reads from its feeders, and only from them.           *)
LEMMA FeedersOfNew ==
  ASSUME Shape, Wiring, pc = "fork", NEW x, x = <<instr_cnt, i>>
  PROVE  /\ HasInput => \A r : Before(r) => Writers(r) = Feeders(x)
         /\ HasInput <=> Feeders(x) # {}
<1>1. /\ Live /\ i \in Nat /\ i >= 1 /\ instr_cnt \in Nat /\ instr_cnt \in Keys
      /\ TypeOK /\ Position /\ instr_cnt + 1 = Len(lines) /\ instr_cnt <= MaxLines - 1
      /\ i = 1 => (Awaited(instr_cnt) <=> NP_receiver_map[instr_cnt] # NoPipe)
  BY AtFork
<1>2. x[1] = instr_cnt /\ x[2] = i
  OBVIOUS
<1>3. CASE i > 1
  <2>1. Feeders(x) = {<<instr_cnt, i - 1>>}
    BY <1>2, <1>3 DEF Feeders
  <2> QED BY <1>3, <2>1 DEF HasInput, Before
<1>4. CASE i = 1
  <2>1. ASSUME NEW m \in 0 .. instr_cnt - 1
        PROVE  /\ LastCommand(m) \in Forked /\ LastCommand(m)[1] = m
               /\ m + 1 \in 1 .. Len(lines)
    <3>1. m \in Nat /\ m < instr_cnt /\ m + 1 \in 1 .. Len(lines) /\ m \in 0 .. MaxLines - 1
      BY <1>1, ConstantTypes
    <3>2. Len(lines[m + 1].cmds) \in 1 .. MaxStages
      BY <1>1, <3>1 DEF Position
    <3>3. LastCommand(m) \in Proc /\ LastCommand(m)[1] = m
          /\ LastCommand(m)[2] = Len(lines[m + 1].cmds)
      BY <3>1, <3>2 DEF LastCommand, Proc
    <3>4. Done(LastCommand(m))
      BY <3>1, <3>2, <3>3 DEF Done
    <3> QED BY <1>1, <3>1, <3>3, <3>4 DEF Wiring, ForkedSoFar
  <2>2. \A f : f \in Feeders(x) <=>
          \E m \in 0 .. instr_cnt - 1 : /\ lines[m + 1].kind = "number"
                                        /\ m + lines[m + 1].num = instr_cnt
                                        /\ f = LastCommand(m)
    BY <1>2, <1>4, FeedersAre
  <2>3. Feeders(x) = {p \in Forked : NumbersTo(p, instr_cnt)}
    <3>1. ASSUME NEW f \in Feeders(x)
          PROVE  f \in Forked /\ NumbersTo(f, instr_cnt)
      BY <2>1, <2>2 DEF NumbersTo
    <3>2. ASSUME NEW p \in Forked, NumbersTo(p, instr_cnt)
          PROVE  p \in Feeders(x)
      <4>1. /\ p[1] \in Nat /\ p[1] + 1 \in 1 .. Len(lines) /\ lines[p[1] + 1] \in RunLine
        BY <1>1, ForkedLine
      <4>2. lines[p[1] + 1].num > 0 /\ lines[p[1] + 1].num \in Nat
            /\ lines[p[1] + 1].kind = "number"
            /\ p[1] + lines[p[1] + 1].num = instr_cnt /\ p = LastCommand(p[1])
        BY <1>1, <3>2, <4>1, ConstantTypes DEF NumbersTo, Position, RunLine
      <4>3. p[1] \in 0 .. instr_cnt - 1
        BY <1>1, <4>1, <4>2
      <4> QED BY <2>2, <4>2, <4>3
    <3> QED BY <3>1, <3>2
  <2>4. HasInput <=> NP_receiver_map[instr_cnt] # NoPipe
    BY <1>4 DEF HasInput
  <2>5. HasInput => Feeders(x) # {}
    <3>1. SUFFICES ASSUME NP_receiver_map[instr_cnt] # NoPipe
                   PROVE  Feeders(x) # {}
      BY <2>4
    <3>2. PICK m \in 0 .. Len(lines) - 1 :
            lines[m + 1].kind = "number" /\ m + lines[m + 1].num = instr_cnt
      BY <1>1, <3>1 DEF Wiring, Meant
    <3>3. m + 1 \in 1 .. Len(lines) /\ m \in Nat
      BY <1>1
    <3>4. lines[m + 1] \in RunLine /\ lines[m + 1].num > 0
      BY <1>1, <3>2, <3>3 DEF TypeOK, Position
    <3>5. lines[m + 1].num \in Nat
      BY <3>4, ConstantTypes DEF RunLine
    <3>6. m \in 0 .. instr_cnt - 1
      BY <1>1, <3>2, <3>3, <3>4, <3>5
    <3> QED BY <2>2, <3>2, <3>6
  <2>6. Feeders(x) # {} => HasInput
    <3>1. SUFFICES ASSUME NEW f \in Feeders(x)
                   PROVE  NP_receiver_map[instr_cnt] # NoPipe
      BY <2>4
    <3>2. f \in Forked /\ NumbersTo(f, instr_cnt)
      BY <2>3
    <3> QED BY <1>1, <3>2 DEF Wiring, Entered, NumbersTo
  <2> QED BY <1>4, <2>3, <2>5, <2>6 DEF Before
<1> QED BY <1>1, <1>3, <1>4

(* The new command reads the pipe its feeders write, and it alone.          *)
LEMMA LinkedFork ==
  ASSUME Shape, Wiring, Linked, Fork, \A p \in Forked : Feeders(p)' = Feeders(p)
  PROVE  Linked'
<1>1. pc = "fork" /\ UNCHANGED lines
  BY DEF Fork
<1> PICK x : x = <<instr_cnt, i>>
  OBVIOUS
<1>2. /\ x \in Proc /\ x \notin Forked /\ Forked' = Forked \cup {x}
      /\ \A p \in Proc : p # x => procs'[p] = procs[p]
      /\ procs'[x].in = ChildFds[0] /\ procs'[x].out = ChildFds[1]
      /\ \A r : Writers(r)' = IF ChildFds[1] = WriteEnd(r) THEN Writers(r) \cup {x} ELSE Writers(r)
  BY NewCommand
<1>3. \A p \in Forked : p \in Proc /\ procs'[p] = procs[p]
  BY <1>2 DEF Forked
<1>4. /\ HasInput => \E r \in 1 .. Len(buf) : Before(r)
      /\ HasOutput => \E r \in 1 .. Len(buf) : After(r)
      /\ HasInput /\ HasOutput => Fds(InputPipe) \cap Fds(OutputPipe) = {}
  BY <1>1, Joints
<1>5. /\ HasInput => \A r : Is(InputPipe, r) => ChildFds[0] = ReadEnd(r)
      /\ ~HasInput => ChildFds[0] = Tty
      /\ HasOutput => \A r : Is(OutputPipe, r) => ChildFds[1] = WriteEnd(r)
      /\ ~HasOutput => ChildFds[1] \in {Tty, File}
  BY <1>1, ChildFacts
<1>6. /\ HasInput => \A r : Before(r) => Writers(r) = Feeders(x)
      /\ HasInput <=> Feeders(x) # {}
  BY <1>1, FeedersOfNew
<1>7. Feeders(x)' = Feeders(x)
  BY <1>1 DEF Feeders, LastCommand
(* Nobody reads the pipe that the command writes to.                        *)
<1>8. \A p \in Forked : \A r : procs[p].in = ReadEnd(r) => Writers(r)' = Writers(r)
  <2>1. SUFFICES ASSUME NEW p \in Forked, NEW r, procs[p].in = ReadEnd(r),
                        ChildFds[1] = WriteEnd(r)
                 PROVE  FALSE
    BY <1>2
  <2>2. HasOutput
    BY <1>5, <2>1, DescrFacts
  <2>3. PICK o \in 1 .. Len(buf) : After(o)
    BY <1>4, <2>2
  <2>4. ChildFds[1] = WriteEnd(o) /\ NoReader(o)
    BY <1>5, <2>2, <2>3 DEF After
  <2>5. o = r
    BY <2>1, <2>4, DescrFacts
  <2> QED BY <2>1, <2>4, <2>5 DEF NoReader
<1>9. HasInput => \E r : /\ Before(r) /\ ChildFds[0] = ReadEnd(r) /\ Writers(r) = Feeders(x)
                         /\ Writers(r)' = Feeders(x)
                         /\ \A p \in Forked : procs[p].in # ReadEnd(r)
  <2>1. SUFFICES ASSUME HasInput
                 PROVE  \E r : /\ Before(r) /\ ChildFds[0] = ReadEnd(r) /\ Writers(r) = Feeders(x)
                               /\ Writers(r)' = Feeders(x)
                               /\ \A p \in Forked : procs[p].in # ReadEnd(r)
    OBVIOUS
  <2>2. PICK r \in 1 .. Len(buf) : Before(r)
    BY <1>4, <2>1
  <2>3. ChildFds[1] # WriteEnd(r)
    <3>1. CASE HasOutput
      <4>1. PICK o \in 1 .. Len(buf) : After(o)
        BY <1>4, <3>1
      <4>2. r # o
        <5>1. InputPipe.read_fd \in Fds(InputPipe) /\ OutputPipe.read_fd \in Fds(OutputPipe)
          BY DEF Fds
        <5>2. InputPipe \in Pipe /\ OutputPipe \in Pipe /\ Live
          BY <1>1, <2>1, <3>1, Joints, AtFork
        <5>3. InputPipe # OutputPipe
          BY <1>4, <2>1, <3>1, <5>1
        <5> QED BY <2>2, <4>1, <5>2, <5>3, PipesApart DEF Before, After
      <4> QED BY <1>5, <3>1, <4>1, <4>2, DescrFacts DEF After
    <3>2. CASE ~HasOutput
      BY <1>5, <3>2, DescrFacts
    <3> QED BY <3>1, <3>2
  <2> QED BY <1>2, <1>5, <1>6, <2>1, <2>2, <2>3 DEF Before, NoReader
<1>10. Joined'
  <2>1. ASSUME NEW p \in Forked', FromPipe(p)'
        PROVE  Writers(procs[p].in[2])' = Feeders(p)'
    <3>1. CASE p = x
      <4>1. HasInput
        BY <1>2, <1>5, <2>1, <3>1, DescrFacts DEF FromPipe
      <4>2. PICK r : ChildFds[0] = ReadEnd(r) /\ Writers(r)' = Feeders(x)
        BY <1>9, <4>1
      <4>3. procs'[p].in[2] = r
        BY <1>2, <3>1, <4>2, DescrFacts
      <4> QED BY <1>7, <3>1, <4>2, <4>3
    <3>2. CASE p # x
      <4>1. p \in Forked /\ procs'[p] = procs[p]
        BY <1>2, <1>3, <3>2
      <4>2. FromPipe(p)
        BY <2>1, <4>1 DEF FromPipe
      <4>3. PICK r : procs[p].in = ReadEnd(r) /\ procs[p].in[2] = r
        BY <4>1, <4>2, ReadsPipe DEF Shape
      <4>4. procs'[p].in[2] = r
        BY <4>1, <4>3
      <4>5. Writers(r) = Feeders(p)
        BY <4>1, <4>2, <4>3 DEF Linked, Joined
      <4> QED BY <1>8, <4>1, <4>3, <4>4, <4>5
    <3> QED BY <3>1, <3>2
  <2> QED BY <2>1 DEF Joined
<1>11. Wired'
  <2>1. \A p \in Forked : Feeders(p) \subseteq Forked
    <3>1. \A p \in Forked : FromPipe(p) => Feeders(p) \subseteq Forked
      BY DEF Linked, Joined, Writers
    <3>2. \A p \in Forked : Feeders(p) # {} => FromPipe(p)
      BY DEF Linked, Wired
    <3> QED BY <3>1, <3>2
  <2>2. ASSUME NEW p \in Forked'
        PROVE  LET q == procs'[p] IN
               /\ Feeders(p)' = {} => q.in = Tty
               /\ \A f \in Feeders(p)' : FromPipe(p)' /\ procs'[f].out = WriteEnd(q.in[2])
    <3>1. CASE p = x
      <4>1. CASE HasInput
        <5>1. PICK r : ChildFds[0] = ReadEnd(r) /\ Writers(r) = Feeders(x)
          BY <1>9, <4>1
        <5>2. procs'[x].in[1] = "read" /\ procs'[x].in[2] = r
          BY <1>2, <5>1, DescrFacts
        <5>3. \A f \in Feeders(x) : f \in Forked /\ procs[f].out = WriteEnd(r)
          BY <5>1 DEF Writers
        <5> QED BY <1>3, <1>6, <1>7, <3>1, <4>1, <5>2, <5>3 DEF FromPipe
      <4>2. CASE ~HasInput
        <5>1. Feeders(p)' = {} /\ procs'[p].in = Tty
          BY <1>2, <1>5, <1>6, <1>7, <3>1, <4>2
        <5> QED BY <5>1
      <4> QED BY <4>1, <4>2
    <3>2. CASE p # x
      <4>1. p \in Forked /\ procs'[p] = procs[p]
        BY <1>2, <1>3, <3>2
      <4>2. Feeders(p)' = Feeders(p) /\ \A f \in Feeders(p) : procs'[f] = procs[f]
        BY <1>3, <2>1, <4>1
      <4> QED BY <4>1, <4>2 DEF Linked, Wired, FromPipe
    <3> QED BY <3>1, <3>2
  <2>3. ASSUME NEW p \in Forked', NEW r \in Forked', r # p, FromPipe(r)'
        PROVE  procs'[r].in # procs'[p].in
    <3>1. CASE p # x /\ r # x
      <4>1. p \in Forked /\ r \in Forked /\ procs'[p] = procs[p] /\ procs'[r] = procs[r]
        BY <1>2, <1>3, <3>1
      <4> QED BY <2>3, <4>1 DEF Linked, Wired, FromPipe
    <3>2. CASE p = x
      <4>1. r \in Forked /\ procs'[r] = procs[r]
        BY <1>2, <1>3, <2>3, <3>2
      <4>2. CASE HasInput
        BY <1>2, <1>9, <3>2, <4>1, <4>2
      <4>3. CASE ~HasInput
        <5>1. procs'[p].in = Tty
          BY <1>2, <1>5, <3>2, <4>3
        <5> QED BY <2>3, <5>1, DescrFacts DEF FromPipe
      <4> QED BY <4>2, <4>3
    <3>3. CASE r = x
      <4>1. p \in Forked /\ procs'[p] = procs[p]
        BY <1>2, <1>3, <2>3, <3>3
      <4>2. HasInput
        BY <1>2, <1>5, <2>3, <3>3, DescrFacts DEF FromPipe
      <4> QED BY <1>2, <1>9, <3>3, <4>1, <4>2
    <3> QED BY <3>1, <3>2, <3>3
  <2> QED BY <2>2, <2>3 DEF Wired
<1> QED BY <1>10, <1>11 DEF Linked

-----------------------------------------------------------------------------
(* The chunks. *)

(* A chunk written by a writer of the pipe is a chunk more in the sum.      *)
LEMMA WrittenBump ==
  ASSUME NEW v, NEW w, NEW S, IsFiniteSet(S), NEW c \in S,
         \A x \in S : v[x].wrote \in Nat, w[c].wrote = v[c].wrote + 1,
         \A x \in S : x # c => w[x].wrote = v[x].wrote
  PROVE  Written(w, S) = Written(v, S) + 1
<1> DEFINE T == S \ {c}
<1>1. \A x \in S : w[x].wrote \in Nat
  OBVIOUS
<1>2. SumGood(v, S) /\ SumGood(w, S)
  BY <1>1, WrittenGood
<1>3. IsFiniteSet(T)
  BY FS_Subset
<1>4. Written(v, T) = Written(w, T) /\ SumGood(v, T)
  BY <1>3, WrittenSame, WrittenGood
<1>5. /\ Written(v, S) = v[c].wrote + Written(v, T)
      /\ Written(w, S) = w[c].wrote + Written(w, T)
  BY <1>2 DEF SumGood
<1>6. Written(v, T) \in Nat
  BY <1>4 DEF SumGood
<1> HIDE DEF T
<1> QED BY <1>4, <1>5, <1>6

(* A writer that has written nothing adds nothing.                          *)
LEMMA WrittenMore ==
  ASSUME NEW v, NEW w, NEW S, IsFiniteSet(S), NEW c, c \notin S,
         \A x \in S : v[x].wrote \in Nat, w[c].wrote = 0,
         \A x \in S : w[x].wrote = v[x].wrote
  PROVE  Written(w, S \cup {c}) = Written(v, S)
<1> DEFINE T == S \cup {c}
<1>1. IsFiniteSet(T)
  BY FS_AddElement
<1>2. \A x \in T : w[x].wrote \in Nat
  OBVIOUS
<1>3. SumGood(w, T) /\ SumGood(v, S)
  BY <1>1, <1>2, WrittenGood
<1>4. T \ {c} = S /\ c \in T
  OBVIOUS
<1> HIDE DEF T
<1>5. Written(w, T) = w[c].wrote + Written(w, S)
  BY <1>3, <1>4 DEF SumGood
<1>6. Written(w, S) = Written(v, S) /\ Written(v, S) \in Nat
  BY <1>3, WrittenSame DEF SumGood
<1> QED BY <1>5, <1>6 DEF T

LEMMA WritersFinite ==
  ASSUME Types
  PROVE  /\ IsFiniteSet(Forked)
         /\ \A S : S \subseteq Forked => IsFiniteSet(S)
         /\ \A r : IsFiniteSet(Writers(r)) /\ Writers(r) \subseteq Forked
         /\ \A p \in Forked : /\ procs[p].wrote \in Nat /\ procs[p].got \in Nat
                              /\ procs[p].in \in Descr /\ procs[p].out \in Descr
         /\ \A r \in 1 .. Len(buf) : buf[r] \in Nat
<1>1. IsFiniteSet(Proc)
  <2>1. IsFiniteSet(0 .. MaxLines - 1) /\ IsFiniteSet(1 .. MaxStages)
    BY ConstantTypes, FS_Interval
  <2> QED BY <2>1, FS_Product DEF Proc
<1>2. IsFiniteSet(Forked)
  BY <1>1, FS_Subset DEF Forked
<1>3. \A p \in Forked : /\ procs[p].wrote \in Nat /\ procs[p].got \in Nat
                        /\ procs[p].in \in Descr /\ procs[p].out \in Descr
  BY DEF Types, Forked, ProcType
<1>4. \A r \in 1 .. Len(buf) : buf[r] \in Nat
  <2>1. buf \in Seq(0 .. Capacity)
    BY DEF Types, TypeOK
  <2>2. \A r \in 1 .. Len(buf) : buf[r] \in 0 .. Capacity
    <3> DEFINE S == 0 .. Capacity
    <3>1. buf \in Seq(S)
      BY <2>1
    <3> HIDE DEF S
    <3>2. \A r \in 1 .. Len(buf) : buf[r] \in S
      BY <3>1
    <3> QED BY <3>2 DEF S
  <2>3. \A c \in 0 .. Capacity : c \in Nat
    BY ConstantTypes
  <2> QED BY <2>2, <2>3
<1>5. \A r : Writers(r) \subseteq Forked
  BY DEF Writers
<1> QED BY <1>2, <1>3, <1>4, <1>5, FS_Subset

Flow == Balanced /\ HeldOut

LEMMA FlowStill ==
  ASSUME Flow, UNCHANGED <<buf, procs>>
  PROVE  Flow'
<1>1. /\ Forked' = Forked /\ Running' = Running
      /\ \A r : (NoReader(r)' <=> NoReader(r)) /\ Writers(r)' = Writers(r)
  BY StillSame, SameReaders DEF SameCommands, Running
<1>2. Balanced'
  BY <1>1 DEF Flow, Balanced
<1> QED BY <1>1, <1>2 DEF Flow, HeldOut, ToPipe

(* A new pipe is empty and nobody has written to it.                        *)
LEMMA FlowOpened ==
  ASSUME Types, Flow, UNCHANGED procs, NEW a, NEW b, Opened(a, b)
  PROVE  Flow'
<1>1. /\ Forked' = Forked /\ Running' = Running
      /\ \A r : (NoReader(r)' <=> NoReader(r)) /\ Writers(r)' = Writers(r)
  BY StillSame, SameReaders DEF SameCommands, Running
<1>2. buf' = Append(buf, 0) /\ buf \in Seq(0 .. Capacity) /\ Len(buf) \in Nat
  BY DEF Opened, Types, TypeOK
<1>3. /\ Len(buf') = fresh /\ buf'[fresh] = 0 /\ fresh \notin 1 .. Len(buf)
      /\ \A r \in 1 .. Len(buf) : buf'[r] = buf[r]
      /\ \A r \in 1 .. Len(buf') : r \in 1 .. Len(buf) \/ r = fresh
  BY <1>2 DEF fresh
<1>4. \A p \in Forked : procs[p].in # ReadEnd(fresh) /\ procs[p].out # WriteEnd(fresh)
  <2>1. \A d \in Descr : d # ReadEnd(fresh) /\ d # WriteEnd(fresh)
    BY <1>3, DescrFacts DEF Descr
  <2> QED BY <2>1, WritersFinite
<1>5. Writers(fresh) = {} /\ Written(procs, Writers(fresh)) = 0
  <2>1. Writers(fresh) = {}
    BY <1>4 DEF Writers
  <2> QED BY <2>1, WrittenStep, FS_EmptySet
<1>6. Balanced'
  <2>1. ASSUME NEW r \in 1 .. Len(buf')
        PROVE  /\ NoReader(r) => buf'[r] = Written(procs, Writers(r))
               /\ \A p \in Forked : procs[p].in = ReadEnd(r) =>
                    buf'[r] + procs[p].got = Written(procs, Writers(r))
    <3>1. CASE r = fresh
      BY <1>3, <1>4, <1>5, <3>1
    <3>2. CASE r \in 1 .. Len(buf)
      BY <1>3, <3>2 DEF Flow, Balanced
    <3> QED BY <1>3, <3>1, <3>2
  <2> QED BY <1>1, <2>1 DEF Balanced
<1> QED BY <1>1, <1>6 DEF Flow, HeldOut, ToPipe

(* A new command has neither read nor written.                              *)
LEMMA FlowFork ==
  ASSUME Shape, Wiring, Flow, Fork
  PROVE  Flow'
<1> PICK x : x = <<instr_cnt, i>>
  OBVIOUS
<1>1. /\ x \in Proc /\ x \notin Forked /\ Forked' = Forked \cup {x}
      /\ \A p \in Proc : p # x => procs'[p] = procs[p]
      /\ procs'[x].in = ChildFds[0] /\ procs'[x].out = ChildFds[1]
      /\ procs'[x].held = Held(ChildFds)
      /\ procs'[x].got = 0 /\ procs'[x].wrote = 0
      /\ \A r : NoReader(r) => (NoReader(r)' <=> ChildFds[0] # ReadEnd(r))
      /\ \A r : Writers(r)' = IF ChildFds[1] = WriteEnd(r) THEN Writers(r) \cup {x} ELSE Writers(r)
  BY NewCommand
<1>2. pc = "fork" /\ buf' = buf
  BY DEF Fork
<1>3. \A p \in Forked : p \in Proc /\ p # x /\ procs'[p] = procs[p]
  BY <1>1 DEF Forked
<1>4. /\ \A r : IsFiniteSet(Writers(r)) /\ Writers(r) \subseteq Forked
      /\ \A p \in Forked : procs[p].wrote \in Nat /\ procs[p].got \in Nat
      /\ \A r \in 1 .. Len(buf) : buf[r] \in Nat
  BY WritersFinite DEF Shape
<1>5. \A r : Written(procs', Writers(r)') = Written(procs, Writers(r))
  <2> TAKE r
  <2>1. CASE ChildFds[1] = WriteEnd(r)
    <3>1. Writers(r)' = Writers(r) \cup {x} /\ x \notin Writers(r)
      BY <1>1, <1>4, <2>1
    <3>2. \A p \in Writers(r) : procs[p].wrote \in Nat /\ procs'[p].wrote = procs[p].wrote
      BY <1>3, <1>4
    <3>3. Written(procs', Writers(r) \cup {x}) = Written(procs, Writers(r))
      BY <1>1, <1>4, <3>1, <3>2, WrittenMore
    <3> QED BY <3>1, <3>3
  <2>2. CASE ChildFds[1] # WriteEnd(r)
    <3>1. Writers(r)' = Writers(r)
      BY <1>1, <2>2
    <3>2. \A p \in Writers(r) : procs'[p].wrote = procs[p].wrote
      BY <1>3, <1>4
    <3>3. Written(procs', Writers(r)) = Written(procs, Writers(r))
      BY <1>4, <3>2, WrittenSame
    <3> QED BY <3>1, <3>3
  <2> QED BY <2>1, <2>2
(* The pipe the command reads had no reader.                                *)
<1>6. \A r : ChildFds[0] = ReadEnd(r) => NoReader(r)
  <2>1. /\ HasInput => \E r : Before(r)
        /\ HasInput => \A r : Is(InputPipe, r) => ChildFds[0] = ReadEnd(r)
        /\ ~HasInput => ChildFds[0] = Tty
    BY <1>2, Joints, ChildFacts
  <2> SUFFICES ASSUME NEW r, ChildFds[0] = ReadEnd(r)
               PROVE  NoReader(r)
    OBVIOUS
  <2>2. HasInput
    BY <2>1, DescrFacts
  <2>3. PICK o : Before(o)
    BY <2>1, <2>2
  <2>4. ChildFds[0] = ReadEnd(o) /\ NoReader(o)
    BY <2>1, <2>2, <2>3 DEF Before
  <2> QED BY <2>4, DescrFacts
<1>7. Balanced'
  <2>1. ASSUME NEW r \in 1 .. Len(buf)
        PROVE  /\ NoReader(r)' => buf[r] = Written(procs', Writers(r)')
               /\ \A p \in Forked' : procs'[p].in = ReadEnd(r) =>
                    buf[r] + procs'[p].got = Written(procs', Writers(r)')
    <3>1. NoReader(r)' => NoReader(r)
      BY <1>1, <1>3 DEF NoReader
    <3>2. NoReader(r)' => buf[r] = Written(procs', Writers(r)')
      BY <1>5, <3>1 DEF Flow, Balanced
    <3>3. ASSUME NEW p \in Forked', procs'[p].in = ReadEnd(r)
          PROVE  buf[r] + procs'[p].got = Written(procs', Writers(r)')
      <4>1. CASE p = x
        <5>1. NoReader(r) /\ procs'[p].got = 0
          BY <1>1, <1>6, <3>3, <4>1
        <5>2. buf[r] = Written(procs, Writers(r))
          BY <5>1 DEF Flow, Balanced
        <5>3. Written(procs, Writers(r)) = Written(procs', Writers(r)')
          BY <1>5
        <5> QED BY <1>4, <5>1, <5>2, <5>3
      <4>2. CASE p # x
        <5>1. p \in Forked /\ procs'[p] = procs[p]
          BY <1>1, <1>3, <4>2
        <5>2. buf[r] + procs[p].got = Written(procs, Writers(r))
          BY <3>3, <5>1 DEF Flow, Balanced
        <5>3. Written(procs, Writers(r)) = Written(procs', Writers(r)')
          BY <1>5
        <5> QED BY <5>1, <5>2, <5>3
      <4> QED BY <4>1, <4>2
    <3> QED BY <3>2, <3>3
  <2> QED BY <1>2, <2>1 DEF Balanced
<1>8. HeldOut'
  <2>1. ASSUME NEW p \in Running', ToPipe(p)'
        PROVE  procs'[p].out \in procs'[p].held
    <3>1. p \in Proc
      BY DEF Running
    <3>2. CASE p = x
      <4>1. ChildFds[1] # Closed
        BY <1>1, <2>1, <3>2 DEF ToPipe, Closed
      <4> QED BY <1>1, <3>2, <4>1, FdFacts DEF Held
    <3>3. CASE p # x
      <4>1. procs'[p] = procs[p]
        BY <1>1, <3>1, <3>3
      <4>2. p \in Running /\ ToPipe(p)
        BY <2>1, <3>1, <4>1 DEF Running, ToPipe
      <4> QED BY <4>1, <4>2 DEF Flow, HeldOut
    <3> QED BY <3>2, <3>3
  <2> QED BY <2>1 DEF HeldOut
<1> QED BY <1>7, <1>8 DEF Flow

(* A chunk goes from the pipe to its only reader, or from a writer to the    *)
(* pipe.                                                                    *)
LEMMA FlowRun ==
  ASSUME Types, Linked, Flow, NEW p \in Proc, Run(p)
  PROVE  Flow'
<1>1. /\ p \in Running /\ p \in Forked /\ Forked' = Forked
      /\ \A q \in Proc : q # p => procs'[q] = procs[q]
      /\ procs'[p].in = procs[p].in /\ procs'[p].out = procs[p].out
      /\ procs'[p].st = "running" => procs'[p].held = procs[p].held
      /\ \A r : (NoReader(r)' <=> NoReader(r)) /\ Writers(r)' = Writers(r)
      /\ \A q \in Forked : procs'[q].in = procs[q].in /\ procs'[q].out = procs[q].out
  BY RunFacts, MovesSame, SameReaders DEF Moves, Running, Forked, SameCommands
<1>2. /\ \A r : IsFiniteSet(Writers(r)) /\ Writers(r) \subseteq Forked
      /\ \A q \in Forked : procs[q].wrote \in Nat /\ procs[q].got \in Nat
      /\ \A r \in 1 .. Len(buf) : buf[r] \in Nat
      /\ Forked \subseteq Proc
      /\ procs \in [Proc -> ProcType]
  BY WritersFinite DEF Forked, Types
<1>3. HeldOut'
  <2>1. ASSUME NEW q \in Running', ToPipe(q)'
        PROVE  procs'[q].out \in procs'[q].held
    <3>1. CASE q = p
      <4>1. procs'[p].st = "running" /\ ToPipe(p)
        BY <1>1, <2>1, <3>1 DEF Running, ToPipe
      <4> QED BY <1>1, <3>1, <4>1 DEF Flow, HeldOut
    <3>2. CASE q # p
      <4>1. q \in Running /\ ToPipe(q) /\ procs'[q] = procs[q]
        BY <1>1, <2>1, <3>2 DEF Running, ToPipe
      <4> QED BY <4>1 DEF Flow, HeldOut
    <3> QED BY <3>1, <3>2
  <2> QED BY <2>1 DEF HeldOut
(* Balanced, said of the next state.                                        *)
<1>4. ASSUME Len(buf') = Len(buf),
             \A r \in 1 .. Len(buf) :
               /\ NoReader(r) => buf'[r] = Written(procs', Writers(r))
               /\ \A q \in Forked : procs[q].in = ReadEnd(r) =>
                    buf'[r] + procs'[q].got = Written(procs', Writers(r))
      PROVE  Flow'
  <2>1. Balanced'
    BY <1>1, <1>4 DEF Balanced
  <2> QED BY <1>3, <2>1 DEF Flow
<1>5. CASE Read(p)
  <2>0. /\ FromPipe(p) /\ buf[procs[p].in[2]] > 0
        /\ buf' = [buf EXCEPT ![procs[p].in[2]] = @ - 1]
        /\ procs' = [procs EXCEPT ![p].got = @ + 1, ![p].left = 1]
    BY <1>5 DEF Read
  <2>1. PICK o \in 1 .. Len(buf) : procs[p].in = ReadEnd(o) /\ procs[p].in[2] = o
    BY <1>1, <2>0, ReadsPipe
  <2>2. /\ Len(buf') = Len(buf) /\ buf[o] > 0 /\ buf'[o] = buf[o] - 1
        /\ \A r \in 1 .. Len(buf) : r # o => buf'[r] = buf[r]
    <3>1. buf' = [buf EXCEPT ![o] = @ - 1] /\ buf[o] > 0
      BY <2>0, <2>1
    <3>2. buf \in Seq(0 .. Capacity)
      BY DEF Types, TypeOK
    <3> QED BY <3>1, <3>2
  <2>3. /\ procs'[p].got = procs[p].got + 1 /\ procs'[p].wrote = procs[p].wrote
    <3>1. procs' = [procs EXCEPT ![p] = [procs[p] EXCEPT !.got = @ + 1, !.left = 1]]
      BY <2>0
    <3>2. procs'[p] = [procs[p] EXCEPT !.got = @ + 1, !.left = 1]
      BY <1>2, <3>1
    <3> QED BY <1>2, <3>2 DEF ProcType
  <2>4. \A r : Written(procs', Writers(r)) = Written(procs, Writers(r))
    BY <1>1, <1>2, <2>3, WrittenSame
  <2>5. ASSUME NEW r \in 1 .. Len(buf)
        PROVE  /\ NoReader(r) => buf'[r] = Written(procs', Writers(r))
               /\ \A q \in Forked : procs[q].in = ReadEnd(r) =>
                    buf'[r] + procs'[q].got = Written(procs', Writers(r))
    <3>1. CASE r = o
      <4>1. ~ NoReader(r)
        BY <1>1, <2>1, <3>1 DEF NoReader
      <4>2. \A q \in Forked : procs[q].in = ReadEnd(r) => q = p
        BY <1>1, <2>0, <2>1, <3>1 DEF Linked, Wired
      <4>3. buf[r] + procs[p].got = Written(procs, Writers(r))
        BY <1>1, <2>1, <3>1 DEF Flow, Balanced
      <4>4. buf[r] \in Nat /\ procs[p].got \in Nat
        BY <1>1, <1>2
      <4>5. buf'[r] + procs'[p].got = buf[r] + procs[p].got
        BY <2>2, <2>3, <3>1, <4>4
      <4> QED BY <2>4, <4>1, <4>2, <4>3, <4>5
    <3>2. CASE r # o
      <4>1. \A q \in Forked : procs[q].in = ReadEnd(r) => q # p /\ procs'[q] = procs[q]
        BY <1>1, <1>2, <2>1, <3>2, DescrFacts
      <4> QED BY <2>2, <2>4, <3>2, <4>1 DEF Flow, Balanced
    <3> QED BY <3>1, <3>2
  <2> QED BY <1>4, <2>2, <2>5
<1>6. CASE Write(p)
  <2>0. /\ IF ToPipe(p) THEN buf' = [buf EXCEPT ![procs[p].out[2]] = @ + 1] ELSE buf' = buf
        /\ procs' = [procs EXCEPT ![p].left = @ - 1, ![p].wrote = @ + 1]
    BY <1>6 DEF Write
  <2>1. procs'[p].got = procs[p].got /\ procs'[p].wrote = procs[p].wrote + 1
    <3>1. procs' = [procs EXCEPT ![p] = [procs[p] EXCEPT !.left = @ - 1, !.wrote = @ + 1]]
      BY <2>0
    <3>2. procs'[p] = [procs[p] EXCEPT !.left = @ - 1, !.wrote = @ + 1]
      BY <1>2, <3>1
    <3> QED BY <1>2, <3>2 DEF ProcType
  <2>2. \A q \in Forked : procs'[q].got = procs[q].got
    BY <1>1, <1>2, <2>1
  <2>3. \A r : p \notin Writers(r) => Written(procs', Writers(r)) = Written(procs, Writers(r))
    <3> SUFFICES ASSUME NEW r, p \notin Writers(r)
                 PROVE  Written(procs', Writers(r)) = Written(procs, Writers(r))
      OBVIOUS
    <3>1. \A q \in Writers(r) : procs'[q].wrote = procs[q].wrote
      BY <1>1, <1>2
    <3> QED BY <1>2, <3>1, WrittenSame
  <2>4. \A r : p \in Writers(r) => Written(procs', Writers(r)) = Written(procs, Writers(r)) + 1
    <3> SUFFICES ASSUME NEW r, p \in Writers(r)
                 PROVE  Written(procs', Writers(r)) = Written(procs, Writers(r)) + 1
      OBVIOUS
    <3>1. \A q \in Writers(r) : procs[q].wrote \in Nat
                                /\ (q # p => procs'[q].wrote = procs[q].wrote)
      BY <1>1, <1>2
    <3> QED BY <1>2, <2>1, <3>1, WrittenBump
  <2>5. CASE ToPipe(p)
    <3>1. PICK o \in 1 .. Len(buf) : procs[p].out = WriteEnd(o) /\ procs[p].out[2] = o
      BY <1>1, <2>5, ReadsPipe
    <3>2. /\ Len(buf') = Len(buf) /\ buf'[o] = buf[o] + 1
          /\ \A r \in 1 .. Len(buf) : r # o => buf'[r] = buf[r]
      <4>1. buf' = [buf EXCEPT ![o] = @ + 1]
        BY <2>0, <2>5, <3>1
      <4>2. buf \in Seq(0 .. Capacity)
        BY DEF Types, TypeOK
      <4> QED BY <4>1, <4>2
    <3>3. \A r : p \in Writers(r) <=> r = o
      BY <1>1, <3>1, DescrFacts DEF Writers
    <3>4. ASSUME NEW r \in 1 .. Len(buf)
          PROVE  /\ NoReader(r) => buf'[r] = Written(procs', Writers(r))
                 /\ \A q \in Forked : procs[q].in = ReadEnd(r) =>
                      buf'[r] + procs'[q].got = Written(procs', Writers(r))
      <4>1. CASE r = o
        <5>1. Written(procs', Writers(r)) = Written(procs, Writers(r)) + 1 /\ buf'[r] = buf[r] + 1
          BY <2>4, <3>2, <3>3, <4>1
        <5>2. \A q \in Forked : procs[q].in = ReadEnd(r) =>
                 buf[r] + procs[q].got = Written(procs, Writers(r)) /\ procs[q].got \in Nat
                 /\ procs'[q].got = procs[q].got
          BY <1>2, <2>2 DEF Flow, Balanced
        <5>3. \A q \in Forked : procs[q].in = ReadEnd(r) =>
                 buf'[r] + procs'[q].got = Written(procs', Writers(r))
          <6> SUFFICES ASSUME NEW q \in Forked, procs[q].in = ReadEnd(r)
                       PROVE  buf'[r] + procs'[q].got = Written(procs', Writers(r))
            OBVIOUS
          <6>1. buf[r] + procs[q].got = Written(procs, Writers(r)) /\ procs[q].got \in Nat
                /\ procs'[q].got = procs[q].got /\ buf[r] \in Nat
            BY <1>2, <5>2
          <6>2. (buf[r] + 1) + procs[q].got = (buf[r] + procs[q].got) + 1
            BY <6>1
          <6> QED BY <5>1, <6>1, <6>2
        <5>4. NoReader(r) => buf'[r] = Written(procs', Writers(r))
          BY <5>1 DEF Flow, Balanced
        <5> QED BY <5>3, <5>4
      <4>2. CASE r # o
        BY <2>2, <2>3, <3>2, <3>3, <4>2 DEF Flow, Balanced
      <4> QED BY <4>1, <4>2
    <3> QED BY <1>4, <3>2, <3>4
  <2>6. CASE ~ToPipe(p)
    <3>1. \A r : p \notin Writers(r)
      BY <2>6, DescrFacts DEF Writers, ToPipe
    <3>2. buf' = buf
      BY <2>0, <2>6
    <3>3. \A r \in 1 .. Len(buf) :
            /\ NoReader(r) => buf'[r] = Written(procs', Writers(r))
            /\ \A q \in Forked : procs[q].in = ReadEnd(r) =>
                 buf'[r] + procs'[q].got = Written(procs', Writers(r))
      BY <2>2, <2>3, <3>1, <3>2 DEF Flow, Balanced
    <3> QED BY <1>4, <3>2, <3>3
  <2> QED BY <2>5, <2>6
<1>7. CASE Finish(p)
  <2>1. buf' = buf /\ procs'[p].got = procs[p].got /\ procs'[p].wrote = procs[p].wrote
    <3>1. /\ buf' = buf
          /\ procs' = [procs EXCEPT ![p].st = "ended", ![p].held = {},
                            ![p].eof = procs[p].left = 0 /\ procs[p].reads /\ AtEOF(p)]
      BY <1>7 DEF Finish
    <3>2. procs' = [procs EXCEPT ![p] = [procs[p] EXCEPT !.st = "ended", !.held = {},
                            !.eof = procs[p].left = 0 /\ procs[p].reads /\ AtEOF(p)]]
      BY <3>1
    <3> HIDE DEF AtEOF
    <3>3. procs'[p] = [procs[p] EXCEPT !.st = "ended", !.held = {},
                            !.eof = procs[p].left = 0 /\ procs[p].reads /\ AtEOF(p)]
      BY <1>2, <3>2
    <3> QED BY <1>2, <3>1, <3>3 DEF ProcType
  <2>2. \A q \in Forked : procs'[q].got = procs[q].got /\ procs'[q].wrote = procs[q].wrote
    BY <1>1, <1>2, <2>1
  <2>3. \A r : Written(procs', Writers(r)) = Written(procs, Writers(r))
    <3> TAKE r
    <3>1. \A q \in Writers(r) : procs'[q].wrote = procs[q].wrote
      BY <1>2, <2>2
    <3> QED BY <1>2, <3>1, WrittenSame
  <2>4. \A r \in 1 .. Len(buf) :
          /\ NoReader(r) => buf'[r] = Written(procs', Writers(r))
          /\ \A q \in Forked : procs[q].in = ReadEnd(r) =>
               buf'[r] + procs'[q].got = Written(procs', Writers(r))
    BY <2>1, <2>2, <2>3 DEF Flow, Balanced
  <2> QED BY <1>4, <2>1, <2>4
<1> QED BY <1>5, <1>6, <1>7 DEF Run

LEMMA FeedersForked ==
  ASSUME Linked
  PROVE  \A p \in Forked : Feeders(p) \subseteq Forked
<1>1. \A p \in Forked : FromPipe(p) => Feeders(p) \subseteq Forked
  BY DEF Linked, Joined, Writers
<1>2. \A p \in Forked : Feeders(p) # {} => FromPipe(p)
  BY DEF Linked, Wired
<1> QED BY <1>1, <1>2

(* Who came to the end of its input has ended.                              *)
Delivery == /\ \A p \in Forked : procs[p].eof => procs[p].st = "ended"
            /\ Delivered

GotAll == \A p \in Forked : procs[p].eof =>
            /\ \A f \in Feeders(p) : procs[f].st = "ended"
            /\ procs[p].got = Written(procs, Feeders(p))

(* The sum of Delivered is Written.                                         *)
LEMMA DeliveredIs == Delivered <=> GotAll
BY DEF Delivered, GotAll, Written

ReadBefore(p) == procs[p].eof /\ procs'[p].got = procs[p].got

ReadsAll(p) == /\ \A f \in Feeders(p) : procs[f].st = "ended"
               /\ procs'[p].got = Written(procs, Feeders(p))

(* What was read completely stays so, as who has ended writes no more.      *)
LEMMA DeliveryKept ==
  ASSUME Types, Linked, Delivery, \A p \in Forked : Feeders(p)' = Feeders(p),
         \A p \in Forked' : procs'[p].eof => procs'[p].st = "ended",
         \A p \in Forked' : procs'[p].eof => p \in Forked /\ (ReadBefore(p) \/ ReadsAll(p)),
         \A p \in Forked : procs[p].st = "ended" =>
                  procs'[p].st = "ended" /\ procs'[p].wrote = procs[p].wrote
  PROVE  Delivery'
<1>1. ASSUME NEW p \in Forked', procs'[p].eof
      PROVE  /\ p \in Forked /\ \A f \in Feeders(p) : procs[f].st = "ended"
             /\ procs'[p].got = Written(procs, Feeders(p))
  BY <1>1, DeliveredIs DEF Delivery, GotAll, ReadBefore, ReadsAll
<1>2. ASSUME NEW p \in Forked', procs'[p].eof
      PROVE  /\ \A f \in Feeders(p)' : procs'[f].st = "ended"
             /\ procs'[p].got = Written(procs', Feeders(p)')
  <2>1. /\ p \in Forked /\ \A f \in Feeders(p) : procs[f].st = "ended"
        /\ procs'[p].got = Written(procs, Feeders(p)) /\ Feeders(p)' = Feeders(p)
    BY <1>1, <1>2
  <2>2. Feeders(p) \subseteq Forked /\ IsFiniteSet(Feeders(p))
    BY <2>1, FeedersForked, WritersFinite
  <2>3. \A f \in Feeders(p) : procs'[f].st = "ended" /\ procs'[f].wrote = procs[f].wrote
    BY <2>1, <2>2
  <2>4. Written(procs', Feeders(p)) = Written(procs, Feeders(p))
    BY <2>2, <2>3, WrittenSame
  <2> QED BY <2>1, <2>3, <2>4
<1>3. GotAll'
  BY <1>2 DEF GotAll
<1>4. Delivered' <=> GotAll'
  BY DeliveredIs, PTL
<1> QED BY <1>3, <1>4 DEF Delivery

(* At end of file the pipe is empty and every writer has closed it, so      *)
(* everything has been read.                                                *)
LEMMA AtEnd ==
  ASSUME Types, Linked, Flow, NEW p \in Forked, AtEOF(p)
  PROVE  /\ \A f \in Feeders(p) : procs[f].st = "ended"
         /\ procs[p].got = Written(procs, Feeders(p))
<1>1. FromPipe(p) /\ buf[procs[p].in[2]] = 0 /\ ~Holds(WriteEnd(procs[p].in[2]))
  BY DEF AtEOF
<1>2. PICK r \in 1 .. Len(buf) : procs[p].in = ReadEnd(r) /\ procs[p].in[2] = r
  BY <1>1, ReadsPipe
<1>3. Writers(r) = Feeders(p)
  BY <1>1, <1>2 DEF Linked, Joined
<1>4. ASSUME NEW f \in Feeders(p)
      PROVE  procs[f].st = "ended"
  <2>1. f \in Forked /\ procs[f].out = WriteEnd(r)
    BY <1>3 DEF Writers
  <2>2. procs[f].st \in {"running", "ended"} /\ f \in Proc
    BY <2>1 DEF Forked, Types, ProcType
  <2>3. procs[f].st # "running"
    <3>1. SUFFICES ASSUME procs[f].st = "running"
                   PROVE  FALSE
      OBVIOUS
    <3>2. f \in Running /\ ToPipe(f)
      BY <2>1, <2>2, <3>1, DescrFacts DEF Running, ToPipe
    <3>3. WriteEnd(r) \in procs[f].held
      BY <2>1, <3>2 DEF Flow, HeldOut
    <3>4. Holds(WriteEnd(r))
      BY <3>2, <3>3 DEF Holds
    <3> QED BY <1>1, <1>2, <3>4
  <2> QED BY <2>2, <2>3
<1>5. buf[r] + procs[p].got = Written(procs, Writers(r)) /\ buf[r] = 0
  BY <1>1, <1>2 DEF Flow, Balanced
<1>6. procs[p].got \in Nat
  BY WritersFinite
<1> QED BY <1>3, <1>4, <1>5, <1>6

LEMMA DeliveryFork ==
  ASSUME Shape, Wiring, Linked, Delivery, Fork, \A p \in Forked : Feeders(p)' = Feeders(p)
  PROVE  Delivery'
<1> PICK x : x = <<instr_cnt, i>>
  OBVIOUS
<1>1. /\ x \notin Forked /\ Forked' = Forked \cup {x}
      /\ \A p \in Proc : p # x => procs'[p] = procs[p]
      /\ procs'[x].eof = FALSE
  BY NewCommand
<1>2. \A p \in Forked : p \in Proc /\ procs'[p] = procs[p]
  BY <1>1 DEF Forked
<1>3. Types
  BY DEF Shape
<1>4. \A p \in Forked' : procs'[p].eof => procs'[p].st = "ended"
  BY <1>1, <1>2 DEF Delivery
<1>5. \A p \in Forked' : procs'[p].eof => p \in Forked /\ ReadBefore(p)
  BY <1>1, <1>2 DEF ReadBefore
<1>6. \A p \in Forked : procs[p].st = "ended" =>
        procs'[p].st = "ended" /\ procs'[p].wrote = procs[p].wrote
  BY <1>2
<1> QED BY <1>3, <1>4, <1>5, <1>6, DeliveryKept

(* A command that ends at end of file has read everything.                  *)
LEMMA DeliveryRun ==
  ASSUME Types, Linked, Flow, Delivery, NEW p \in Proc, Run(p),
         \A q \in Forked : Feeders(q)' = Feeders(q)
  PROVE  Delivery'
<1>1. /\ p \in Running /\ p \in Forked /\ Forked' = Forked
      /\ \A q \in Proc : q # p => procs'[q] = procs[q]
      /\ procs[p].st = "running"
  BY RunFacts DEF Moves, Running, Forked
<1>2. Forked \subseteq Proc /\ procs \in [Proc -> ProcType]
  BY DEF Forked, Types
<1>3. ~ procs[p].eof
  BY <1>1 DEF Delivery
<1>4. procs'[p].eof => AtEOF(p) /\ procs'[p].st = "ended" /\ procs'[p].got = procs[p].got
  <2>1. CASE Read(p)
    <3>1. procs' = [procs EXCEPT ![p] = [procs[p] EXCEPT !.got = @ + 1, !.left = 1]]
      BY <2>1 DEF Read
    <3>2. procs'[p] = [procs[p] EXCEPT !.got = @ + 1, !.left = 1]
      BY <1>2, <3>1
    <3> QED BY <1>2, <1>3, <3>2 DEF ProcType
  <2>2. CASE Write(p)
    <3>1. procs' = [procs EXCEPT ![p] = [procs[p] EXCEPT !.left = @ - 1, !.wrote = @ + 1]]
      BY <2>2 DEF Write
    <3>2. procs'[p] = [procs[p] EXCEPT !.left = @ - 1, !.wrote = @ + 1]
      BY <1>2, <3>1
    <3> QED BY <1>2, <1>3, <3>2 DEF ProcType
  <2>3. CASE Finish(p)
    <3>1. procs' = [procs EXCEPT ![p] = [procs[p] EXCEPT !.st = "ended", !.held = {},
                            !.eof = procs[p].left = 0 /\ procs[p].reads /\ AtEOF(p)]]
      BY <2>3 DEF Finish
    <3> HIDE DEF AtEOF
    <3>2. procs'[p] = [procs[p] EXCEPT !.st = "ended", !.held = {},
                            !.eof = procs[p].left = 0 /\ procs[p].reads /\ AtEOF(p)]
      BY <1>2, <3>1
    <3>3. /\ procs'[p].st = "ended" /\ procs'[p].got = procs[p].got
          /\ procs'[p].eof = (procs[p].left = 0 /\ procs[p].reads /\ AtEOF(p))
      BY <1>2, <3>2 DEF ProcType
    <3> QED BY <3>3, Zenon
  <2> QED BY <2>1, <2>2, <2>3 DEF Run
<1>5. \A q \in Forked' : procs'[q].eof => procs'[q].st = "ended"
  BY <1>1, <1>2, <1>4 DEF Delivery
<1>6. \A q \in Forked' : procs'[q].eof => q \in Forked /\ (ReadBefore(q) \/ ReadsAll(q))
  <2>1. \A q \in Forked : q # p /\ procs'[q].eof => ReadBefore(q)
    BY <1>1, <1>2 DEF ReadBefore
  <2>2. procs'[p].eof => ReadsAll(p)
    BY <1>1, <1>4, AtEnd DEF ReadsAll
  <2> QED BY <1>1, <2>1, <2>2
<1>7. \A q \in Forked : procs[q].st = "ended" =>
        procs'[q].st = "ended" /\ procs'[q].wrote = procs[q].wrote
  BY <1>1, <1>2
<1> QED BY <1>5, <1>6, <1>7, DeliveryKept

LEMMA DeliveryStill ==
  ASSUME Types, Linked, Delivery, UNCHANGED procs, \A p \in Forked : Feeders(p)' = Feeders(p)
  PROVE  Delivery'
<1>1. Forked' = Forked
  BY DEF Forked
<1> QED BY <1>1, DeliveryKept DEF Delivery, ReadBefore

-----------------------------------------------------------------------------
(* Everything together, for a shell that keeps the pipes of a line ...|N     *)
(* until its loop is over.                                                  *)

Sound == Shape /\ Wiring /\ Linked /\ Flow /\ Delivery

LEMMA SoundInit ==
  ASSUME Init
  PROVE  Sound
<1>1. Shape /\ Wiring
  BY ShapeInit, WiringInit
<1>2. Forked = {} /\ Running = {} /\ buf = <<>>
  BY DEF Init, Forked, Running, NoProc
<1>3. Len(buf) = 0
  BY <1>2
<1> QED BY <1>1, <1>2, <1>3 DEF Sound, Linked, Joined, Wired, Flow, Balanced, HeldOut, Delivery,
                                Delivered

LEMMA SoundNext ==
  ASSUME Sound, [Next]_vars, Sparing
  PROVE  Sound'
<1>1. Shape /\ Wiring /\ Linked /\ Flow /\ Delivery /\ Types
  BY DEF Sound, Shape
<1>2. Shape' /\ Wiring'
  BY <1>1, ShapeNext, WiringNext
<1>3. \A p \in Forked : Feeders(p)' = Feeders(p)
  BY <1>1, <1>2, FeedersStay
<1>4. ASSUME UNCHANGED procs
      PROVE  Linked' /\ Delivery'
  BY <1>1, <1>3, <1>4, StillSame, LinkedSame, DeliveryStill
<1>5. CASE MakePipe
  <2>1. /\ UNCHANGED procs
        /\ \/ \E a, b : MakesBetween(a, b) \/ MakesNumber(a, b)
           \/ FindsNumber \/ MakesNone
    BY <1>1, <1>5, MakeFacts DEF Types
  <2>2. Flow'
    <3>1. CASE \E a, b : MakesBetween(a, b) \/ MakesNumber(a, b)
      BY <1>1, <2>1, <3>1, FlowOpened DEF MakesBetween, MakesNumber
    <3>2. CASE FindsNumber \/ MakesNone
      <4>1. UNCHANGED <<buf, procs>>
        BY <2>1, <3>2 DEF FindsNumber, MakesNone
      <4> QED BY <1>1, <4>1, FlowStill
    <3> QED BY <2>1, <3>1, <3>2
  <2> QED BY <1>2, <1>4, <2>1, <2>2 DEF Sound
<1>6. CASE Fork
  BY <1>1, <1>2, <1>3, <1>6, LinkedFork, FlowFork, DeliveryFork DEF Sound
<1>7. CASE \E p \in Proc : Run(p)
  <2>1. PICK p \in Proc : Run(p)
    BY <1>7
  <2>2. SameCommands
    BY <1>1, <2>1, MovesSame
  <2> QED BY <1>1, <1>2, <1>3, <2>1, <2>2, LinkedSame, FlowRun, DeliveryRun DEF Sound
<1>8. CASE UNCHANGED <<buf, procs>>
  BY <1>1, <1>2, <1>4, <1>8, FlowStill DEF Sound
<1>9. MakePipe \/ Fork \/ (\E p \in Proc : Run(p)) \/ UNCHANGED <<buf, procs>>
  BY DEF Next, Shell, User, Retry, Release, Wait, Enter, Empty, Builtin, Exit, ForkFails, vars
<1> QED BY <1>5, <1>6, <1>7, <1>8, <1>9

(* Every command reads from exactly the commands the line numbering and the  *)
(* bars say: for any lines where the shell keeps the pipes of a line ...|N   *)
(* until its loop is done (np_simple.cpp:299-302, 356-360), and where it     *)
(* does not (npshell.cpp), for lines ...|N of at most two commands.          *)
THEOREM WiredCorrect ==
  ASSUME Sparing
  PROVE  Spec => []Wired
<1>1. Init => Sound
  BY SoundInit
<1>2. Sound /\ [Next]_vars => Sound'
  BY SoundNext
<1>3. Sound => Wired
  BY DEF Sound, Linked
<1> QED BY <1>1, <1>2, <1>3, PTL DEF Spec

(* Who comes to the end of its input has read all that was written for it,   *)
(* by commands that have ended, in the same shell.                          *)
THEOREM DeliveredCorrect ==
  ASSUME Sparing
  PROVE  Spec => []Delivered
<1>1. Init => Sound
  BY SoundInit
<1>2. Sound /\ [Next]_vars => Sound'
  BY SoundNext
<1>3. Sound => Delivered
  BY DEF Sound, Delivery
<1> QED BY <1>1, <1>2, <1>3, PTL DEF Spec


-----------------------------------------------------------------------------
(* A shell whose fork() does not fail. *)

Tidy == TableWhole /\ OnlyNeeded /\ NotOwn

NoFailures == ForkFailures = 0

(* The table loses no pipe of the line.                                     *)
LEMMA TableWholeNext ==
  ASSUME Shape, TableWhole, NoFailures, [Next]_vars
  PROVE  TableWhole'
<1>1. TypeOK /\ Position /\ Table /\ i \in Nat /\ size \in Int
  BY DEF Shape, Types, TypeOK
<1>2. CASE UNCHANGED shell
  BY <1>2 DEF TableWhole, shell, Busy
<1>3. CASE MakePipe
  <2>1. /\ pc = "pipe" /\ pc' = "fork" /\ i' = i
        /\ \/ \E a, b : MakesBetween(a, b) \/ MakesNumber(a, b)
           \/ FindsNumber \/ MakesNone
    BY <1>1, <1>3, MakeFacts
  <2>2. size' \in {size, size + 1}
    BY <2>1 DEF MakesBetween, MakesNumber, FindsNumber, MakesNone
  <2>3. i > 1 => size >= i - 1
    BY <2>1 DEF TableWhole, Busy
  <2> QED BY <1>1, <2>1, <2>2, <2>3 DEF TableWhole
<1>4. CASE Fork
  <2>1. pc = "fork" /\ pc' \in {"release", "pipe"} /\ (pc' = "pipe" => i # n)
        /\ i' = i + 1 /\ size' = size
    BY <1>4 DEF Fork
  <2>2. i \in 1 .. n /\ n \in Nat
    BY <1>1, <2>1, LineFacts DEF Position, Busy
  <2>3. pc' = "pipe" => size = i
    BY <1>1, <2>1, <2>2 DEF Table, Between
  <2> QED BY <1>1, <2>1, <2>3 DEF TableWhole, Busy
<1>5. CASE \E l \in Lines : Enter(l)
  BY <1>5 DEF Enter, TableWhole
<1>6. CASE Retry
  BY <1>6 DEF Retry, TableWhole, Busy
<1>7. CASE pc' \notin Busy
  BY <1>7 DEF TableWhole
<1>8. ~ForkFails
  BY <1>1 DEF ForkFails, NoFailures, TypeOK
<1>9. \/ UNCHANGED shell \/ MakePipe \/ Fork \/ (\E l \in Lines : Enter(l)) \/ Retry
      \/ pc' \notin Busy
  BY <1>8 DEF Next, Shell, User, Run, Read, Write, Finish, Empty, Builtin, Exit, Release, Wait,
              vars, Busy
<1> QED BY <1>2, <1>3, <1>4, <1>5, <1>6, <1>7, <1>9

(* What the ends of the pipes are still for, in a step that closes none.    *)
Needed(f) ==
  \/ \E k \in Keys : Awaited(k) /\ f \in Fds(NP_receiver_map[k])
  \/ pc \in Busy \cup {"release"} /\ f \in TableFds(pipe_table, size)

LEMMA NeededIs ==
  OnlyNeeded <=> (Live => \A f \in Fd : fds[f] \notin {Closed, Tty, File} => Needed(f))
BY DEF OnlyNeeded, Needed

(* It is enough that what is still open is still needed.                    *)
LEMMA NeededKept ==
  ASSUME OnlyNeeded, Live' => Live,
         Live' => \A f \in Fd : fds'[f] \notin {Closed, Tty, File} =>
                    \/ fds[f] = fds'[f] /\ (Needed(f) => Needed(f)')
                    \/ Needed(f)'
  PROVE  OnlyNeeded'
<1>1. ASSUME Live', NEW f \in Fd, fds'[f] \notin {Closed, Tty, File}
      PROVE  Needed(f)'
  BY <1>1, NeededIs
<1>2. OnlyNeeded' <=> (Live' => \A f \in Fd : fds'[f] \notin {Closed, Tty, File} => Needed(f)')
  BY DEF OnlyNeeded, Needed
<1> QED BY <1>1, <1>2

(* A new pipe is in the table of the line or awaited.                       *)
LEMMA NeededMake ==
  ASSUME Shape, OnlyNeeded, MakePipe
  PROVE  OnlyNeeded'
<1>1. /\ pc = "pipe" /\ pc' = "fork" /\ UNCHANGED <<i, instr_cnt, lines>>
      /\ \/ \E a, b : MakesBetween(a, b) \/ MakesNumber(a, b)
         \/ FindsNumber \/ MakesNone
  BY MakeFacts DEF Shape, Types
<1>2. /\ TypeOK /\ Position /\ Live /\ Live' /\ pc \in Busy /\ pc' \in Busy
  BY <1>1 DEF Live, Busy, Shape, Types
<1>3. pipe_table \in Seq(Pipe) /\ Len(pipe_table) \in Nat /\ size \in 0 .. Len(pipe_table)
      /\ fds \in [Fd -> Descr]
  BY <1>2, FdsType DEF TypeOK, Shape, Table
<1>4. CASE FindsNumber \/ MakesNone
  <2>1. UNCHANGED <<i, instr_cnt, NP_receiver_map, pipe_table, size, fds>>
    BY <1>1, <1>4 DEF FindsNumber, MakesNone
  <2>2. \A f : Needed(f) => Needed(f)'
    BY <1>1, <1>2, <2>1 DEF Needed, Awaited, Untaken, TableFds, Fds
  <2> QED BY <1>2, <2>1, <2>2, NeededKept
<1>5. CASE \E a, b : MakesBetween(a, b)
  <2>1. PICK a, b : MakesBetween(a, b)
    BY <1>5
  <2>2. /\ fds' = [fds EXCEPT ![a] = ReadEnd(fresh), ![b] = WriteEnd(fresh)]
        /\ pipe_table' = Append(SubSeq(pipe_table, 1, size), NewPipe(a, b)) /\ size' = size + 1
        /\ UNCHANGED NP_receiver_map
    BY <2>1 DEF MakesBetween, Opened
  <2>3. NewPipe(a, b) \in Pipe
    BY <2>1 DEF MakesBetween, Opened, NewPipe, Pipe
  <2>4. /\ \A j \in 1 .. size : pipe_table'[j] = pipe_table[j] /\ j \in 1 .. size'
        /\ pipe_table'[size'] = NewPipe(a, b) /\ size' \in 1 .. size'
    BY <1>3, <2>2, <2>3
  <2>5. \A f : f \in TableFds(pipe_table, size) => f \in TableFds(pipe_table', size')
    BY <2>4 DEF TableFds
  <2>6. a \in TableFds(pipe_table', size') /\ b \in TableFds(pipe_table', size')
    BY <2>4 DEF TableFds, NewPipe
  <2>7. \A f : Needed(f) => Needed(f)'
    <3>1. \A k : Awaited(k)' <=> Awaited(k)
      BY <1>1, <2>2 DEF Awaited, Untaken, Busy
    <3> QED BY <1>2, <2>2, <2>5, <3>1 DEF Needed, Fds
  <2>8. Needed(a)' /\ Needed(b)'
    BY <1>2, <2>6 DEF Needed
  <2>9. \A f \in Fd : f = a \/ f = b \/ fds'[f] = fds[f]
    BY <1>3, <2>2
  <2> QED BY <1>2, <2>7, <2>8, <2>9, NeededKept
<1>6. CASE \E a, b : MakesNumber(a, b)
  <2>1. PICK a, b : MakesNumber(a, b)
    BY <1>6
  <2>2. /\ fds' = [fds EXCEPT ![a] = ReadEnd(fresh), ![b] = WriteEnd(fresh)]
        /\ NP_receiver_map[Key] = NoPipe
        /\ NP_receiver_map' = Insert(NP_receiver_map, Key, NewPipe(a, b))
        /\ UNCHANGED <<pipe_table, size>> /\ LastNumber
        /\ a \in Fd
    BY <2>1 DEF MakesNumber, Opened
  <2>3. /\ Key \in Keys /\ Key > instr_cnt /\ NP_receiver_map \in [Keys -> Pipe \cup {NoPipe}]
    <3>1. /\ instr_cnt \in 0 .. MaxLines - 1 /\ Line.num \in 0 .. MaxNum
          /\ (Line.num > 0 <=> Line.kind = "number") /\ Key \in Keys
      BY <1>1, <1>2, LineFacts
    <3> QED BY <1>2, <2>2, <3>1, ConstantTypes DEF Key, LastNumber, TypeOK
  <2>4. /\ NP_receiver_map' = [NP_receiver_map EXCEPT ![Key] = NewPipe(a, b)]
        /\ NewPipe(a, b) # NoPipe
    BY <2>2, FdFacts DEF Insert, NewPipe, NoPipe
  <2> PICK h : h = Key
    OBVIOUS
  <2>5. /\ NP_receiver_map'[h] = NewPipe(a, b)
        /\ \A k \in Keys : k # h => NP_receiver_map'[k] = NP_receiver_map[k]
        /\ h \in Keys /\ h > instr_cnt
    BY <2>3, <2>4
  <2>6. \A k \in Keys : Awaited(k) => k # h /\ Awaited(k)'
    BY <1>1, <2>2, <2>5 DEF Awaited, Untaken, Busy
  <2>7. \A f : Needed(f) => Needed(f)'
    BY <1>2, <2>2, <2>5, <2>6 DEF Needed, Fds
  <2>8. Needed(a)' /\ Needed(b)'
    <3>1. Awaited(h)'
      BY <1>1, <2>4, <2>5 DEF Awaited
    <3>2. a \in Fds(NP_receiver_map'[h]) /\ b \in Fds(NP_receiver_map'[h])
      BY <2>5 DEF Fds, NewPipe
    <3> QED BY <2>5, <3>1, <3>2 DEF Needed, Fds
  <2>9. \A f \in Fd : f = a \/ f = b \/ fds'[f] = fds[f]
    BY <1>3, <2>2
  <2> QED BY <1>2, <2>7, <2>8, <2>9, NeededKept
<1> QED BY <1>1, <1>4, <1>5, <1>6

(* The input of the first command is closed, and no longer awaited.         *)
LEMMA NeededFork ==
  ASSUME Shape, Wiring, OnlyNeeded, Fork
  PROVE  OnlyNeeded'
<1>1. /\ pc = "fork" /\ pc' \in Busy \cup {"release"} /\ fds' = ParentFds
      /\ UNCHANGED <<instr_cnt, pipe_table, size, NP_receiver_map>>
  BY DEF Fork, Busy
<1>2. /\ Live /\ i \in Nat /\ i >= 1 /\ instr_cnt \in Nat
      /\ \A k \in Keys : k > instr_cnt => (Awaited(k) <=> NP_receiver_map[k] # NoPipe)
  BY <1>1, AtFork
<1>3. \A f \in Fd : fds'[f] = IF f \in Dropped THEN Closed ELSE fds[f]
  BY <1>1, FdsType, ParentFacts DEF Shape, Types
<1>4. ASSUME NEW f \in Fd, fds'[f] \notin {Closed, Tty, File}
      PROVE  fds[f] = fds'[f] /\ (Needed(f) => Needed(f)')
  <2>1. fds[f] = fds'[f] /\ f \notin Dropped
    BY <1>3, <1>4
  <2>2. CASE f \in TableFds(pipe_table, size)
    BY <1>1, <2>1, <2>2 DEF Needed, TableFds
  <2>3. ASSUME NEW k \in Keys, Awaited(k), f \in Fds(NP_receiver_map[k])
        PROVE  Needed(f)'
    <3>1. k # instr_cnt
      <4>1. i = 1 => Fds(NP_receiver_map[instr_cnt]) \subseteq Dropped
                     \/ NP_receiver_map[instr_cnt] = NoPipe
        BY DEF Dropped
      <4>2. Awaited(instr_cnt) => i = 1 /\ NP_receiver_map[instr_cnt] # NoPipe
        BY <1>1, <1>2 DEF Awaited, Untaken
      <4> SUFFICES ASSUME k = instr_cnt PROVE FALSE
        OBVIOUS
      <4> QED BY <2>1, <2>3, <4>1, <4>2
    <3>2. k > instr_cnt /\ NP_receiver_map[k] # NoPipe
      BY <2>3, <3>1 DEF Awaited
    <3>3. Awaited(k)'
      BY <1>1, <3>2 DEF Awaited
    <3> QED BY <1>1, <2>3, <3>3 DEF Needed, Fds
  <2> QED BY <2>1, <2>2, <2>3 DEF Needed
<1> QED BY <1>2, <1>4, NeededKept

LEMMA NeededNext ==
  ASSUME Shape, Wiring, OnlyNeeded, NoFailures, [Next]_vars
  PROVE  OnlyNeeded'
<1>1. CASE UNCHANGED shell
  <2>1. \A f : Needed(f) => Needed(f)'
    BY <1>1 DEF Needed, Awaited, Untaken, TableFds, Fds, shell
  <2>2. fds' = fds /\ (Live' <=> Live)
    BY <1>1 DEF shell, Live
  <2> QED BY <2>1, <2>2, NeededKept
<1>2. CASE \E l \in Lines : Enter(l)
  <2>1. PICK l \in Lines : Enter(l)
    BY <1>2
  <2>2. /\ pc = "prompt" /\ pc' = "pipe" /\ i' = 1
        /\ UNCHANGED <<instr_cnt, NP_receiver_map>>
    BY <2>1 DEF Enter
  <2>3. \A f : Needed(f) => Needed(f)'
    BY <2>2 DEF Needed, Awaited, Untaken, Busy, Fds
  <2>4. \A f \in Fd : fds'[f] = fds[f] \/ fds'[f] = File
    <3>1. CASE l.kind = "file"
      <4>1. Unused(fds) # {} /\ fds' = Place(fds, File) /\ fds \in [Fd -> Descr]
        BY <2>1, <3>1, FdsType DEF Enter, Shape, Types
      <4> QED BY <4>1, PlaceFacts
    <3>2. CASE l.kind # "file"
      BY <2>1, <3>2 DEF Enter
    <3> QED BY <3>1, <3>2
  <2>5. Live
    BY <2>2 DEF Live
  <2> QED BY <2>3, <2>4, <2>5, NeededKept
<1>3. CASE \E l \in Lines : Builtin(l) \/ Exit(l)
  <2>1. PICK l \in Lines : Builtin(l) \/ Exit(l)
    BY <1>3
  <2>2. CASE Exit(l)
    BY <2>2 DEF Exit, OnlyNeeded, Live
  <2>3. CASE Builtin(l)
    <3>1. UNCHANGED <<pc, i, instr_cnt, fds, pipe_table, size, NP_receiver_map>>
      BY <2>3 DEF Builtin
    <3>2. \A f : Needed(f) => Needed(f)'
      BY <3>1 DEF Needed, Awaited, Untaken, TableFds, Fds
    <3> QED BY <3>1, <3>2, NeededKept DEF Live
  <2> QED BY <2>1, <2>2, <2>3
<1>4. CASE Retry
  <2>1. /\ pc = "retry" /\ pc' = "pipe"
        /\ UNCHANGED <<i, instr_cnt, fds, pipe_table, size, NP_receiver_map>>
    BY <1>4 DEF Retry
  <2>2. \A f : Needed(f) => Needed(f)'
    BY <2>1 DEF Needed, Awaited, Untaken, TableFds, Fds, Busy
  <2> QED BY <2>1, <2>2, NeededKept DEF Live
<1>5. CASE Release
  <2>1. /\ pc = "release" /\ pc' = "wait" /\ fds' = Released
        /\ UNCHANGED <<i, instr_cnt, pipe_table, size, NP_receiver_map>>
    BY <1>5 DEF Release
  <2>2. \A f \in Fd : fds'[f] = IF f \in TableFds(pipe_table, size) THEN Closed ELSE fds[f]
    BY <2>1, ReleasedFacts
  <2>3. \A f : Needed(f) /\ f \notin TableFds(pipe_table, size) => Needed(f)'
    BY <2>1 DEF Needed, Awaited, Untaken, Busy, Fds
  <2> QED BY <2>1, <2>2, <2>3, NeededKept DEF Live
<1>6. CASE Wait
  <2>1. /\ pc = "wait" /\ pc' = "prompt" /\ instr_cnt' = instr_cnt + 1
        /\ UNCHANGED <<fds, NP_receiver_map>>
    BY <1>6 DEF Wait
  <2>2. instr_cnt \in Nat /\ \A k \in Keys : k \in Nat
    BY ConstantTypes DEF Shape, Types, TypeOK, Keys
  <2>3. \A k \in Keys : Awaited(k) => Awaited(k)'
    BY <2>1, <2>2 DEF Awaited, Untaken, Busy
  <2>4. \A f : Needed(f) => Needed(f)'
    BY <2>1, <2>3 DEF Needed, Busy, Fds
  <2> QED BY <2>1, <2>4, NeededKept DEF Live
<1>7. ~ForkFails
  BY DEF ForkFails, NoFailures, Shape, Types, TypeOK
<1>8. \/ UNCHANGED shell \/ MakePipe \/ Fork \/ (\E l \in Lines : Enter(l)) \/ Retry
      \/ (\E l \in Lines : Builtin(l) \/ Exit(l)) \/ Release \/ Wait
  BY <1>7 DEF Next, Shell, User, Run, Read, Write, Finish, Empty, vars
<1> QED BY <1>1, <1>2, <1>3, <1>4, <1>5, <1>6, <1>8, NeededMake, NeededFork

(* No command is given the write end of the pipe it reads.                  *)
LEMMA NotOwnFork ==
  ASSUME Shape, Wiring, Tidy, Fork
  PROVE  NotOwn'
<1> PICK x : x = <<instr_cnt, i>>
  OBVIOUS
<1>1. /\ pc = "fork" /\ i \in Nat /\ i >= 1 /\ Live /\ pc \in Busy
  BY AtFork DEF Fork
<1>2. /\ x \in Proc /\ x \notin Forked
      /\ \A p \in Proc : p # x => procs'[p] = procs[p]
      /\ procs'[x].in = ChildFds[0] /\ procs'[x].held = Held(ChildFds)
  BY NewCommand
<1>3. /\ HasInput => \A r : Is(InputPipe, r) => ChildFds[0] = ReadEnd(r)
      /\ ~HasInput => ChildFds[0] = Tty
      /\ HasOutput => \A r : Is(OutputPipe, r) => ChildFds[1] = WriteEnd(r)
      /\ ~HasOutput => ChildFds[1] \in {Tty, File}
      /\ \A f \in Fd : f \notin {0, 1} => ChildFds[f] = fds[f] \/ ChildFds[f] = Closed
      /\ HasInput => ChildFds[InputPipe.write_fd] = Closed
  BY <1>1, ChildFacts DEF Tidy, TableWhole
<1>4. /\ HasInput => InputPipe \in Pipe /\ \E r \in 1 .. Len(buf) : Before(r)
      /\ HasOutput => OutputPipe \in Pipe /\ \E r \in 1 .. Len(buf) : After(r)
      /\ HasInput /\ HasOutput => Fds(InputPipe) \cap Fds(OutputPipe) = {}
  BY <1>1, Joints
<1>5. ASSUME HasInput, NEW r, Before(r), NEW f \in Fd
      PROVE  ChildFds[f] # WriteEnd(r)
  <2>1. CASE f = 0
    BY <1>3, <1>5, <2>1, DescrFacts DEF Before
  <2>2. CASE f = 1
    <3>1. CASE HasOutput
      <4>1. PICK o : After(o)
        BY <1>4, <3>1
      <4>2. ChildFds[1] = WriteEnd(o)
        BY <1>3, <3>1, <4>1 DEF After
      <4>3. o # r
        <5>1. InputPipe # OutputPipe
          BY <1>4, <1>5, <3>1 DEF Fds
        <5> QED BY <1>1, <1>4, <1>5, <3>1, <4>1, <5>1, PipesApart DEF Before, After
      <4> QED BY <2>2, <4>2, <4>3, DescrFacts
    <3>2. CASE ~HasOutput
      BY <1>3, <2>2, <3>2, DescrFacts
    <3> QED BY <3>1, <3>2
  <2>3. CASE f \notin {0, 1}
    <3>1. fds[InputPipe.write_fd] = WriteEnd(r) /\ InputPipe.write_fd \in Fd
      BY <1>4, <1>5, PipeFacts DEF Before, Is
    <3>2. fds[f] = WriteEnd(r) => f = InputPipe.write_fd
      BY <1>1, <3>1, DescrFacts DEF Wiring, OwnNumbers
    <3> QED BY <1>3, <1>5, <2>3, <3>2, DescrFacts
  <2> QED BY <2>1, <2>2, <2>3
<1>6. procs'[x].in[1] = "read" => WriteEnd(procs'[x].in[2]) \notin procs'[x].held
  <2>1. CASE HasInput
    <3>1. PICK r : Before(r)
      BY <1>4, <2>1
    <3>2. procs'[x].in = ReadEnd(r) /\ procs'[x].in[2] = r
      BY <1>2, <1>3, <2>1, <3>1, DescrFacts DEF Before
    <3> QED BY <1>2, <1>5, <2>1, <3>1, <3>2 DEF Held
  <2>2. CASE ~HasInput
    BY <1>2, <1>3, <2>2, DescrFacts
  <2> QED BY <2>1, <2>2
<1>7. \A p \in Running' : p # x => p \in Running /\ procs'[p] = procs[p]
  BY <1>2 DEF Running
<1>8. \A p \in Running' : procs'[p].in[1] = "read" =>
        WriteEnd(procs'[p].in[2]) \notin procs'[p].held
  BY <1>6, <1>7 DEF Tidy, NotOwn, FromPipe
<1> QED BY <1>8 DEF NotOwn, FromPipe

LEMMA NotOwnNext ==
  ASSUME Shape, Wiring, Tidy, [Next]_vars
  PROVE  NotOwn'
<1>1. CASE UNCHANGED procs
  BY <1>1 DEF Tidy, NotOwn, Running, FromPipe
<1>2. CASE \E p \in Proc : Run(p)
  <2>1. PICK p \in Proc : Run(p)
    BY <1>2
  <2>2. Moves(p)
    BY <2>1, RunFacts DEF Shape
  <2>3. \A q \in Running' : /\ q \in Running /\ procs'[q].in = procs[q].in
                            /\ procs'[q].held = procs[q].held
    BY <2>2 DEF Moves, Running
  <2> QED BY <2>3 DEF Tidy, NotOwn, FromPipe
<1>3. UNCHANGED procs \/ Fork \/ (\E p \in Proc : Run(p))
  BY DEF Next, Shell, User, MakePipe, Retry, Release, Wait, Enter, Empty, Builtin, Exit, ForkFails,
         vars
<1> QED BY <1>1, <1>2, <1>3, NotOwnFork

-----------------------------------------------------------------------------
(* What the shell holds between two lines. *)

(* Between two lines, a line that output waits for is one whose input is    *)
(* untaken.                                                                 *)
LEMMA PendingAwaited ==
  ASSUME pc \in {"wait", "prompt"}, instr_cnt \in Nat, NEW k \in Keys
  PROVE  k \in Pending <=> Awaited(k)
<1>1. k \in Nat
  BY ConstantTypes DEF Keys
<1> QED BY <1>1 DEF Pending, Awaited, Untaken, Busy

(* As many images as elements.                                              *)
LEMMA InjectiveImage ==
  ASSUME NEW S, IsFiniteSet(S), NEW m, \A x \in S, y \in S : m[x] = m[y] => x = y
  PROVE  LET T == {m[x] : x \in S} IN IsFiniteSet(T) /\ Cardinality(T) = Cardinality(S)
<1> DEFINE T == {m[x] : x \in S}
           f == [x \in S |-> m[x]]
<1>1. f \in Bijection(S, T)
  BY DEF Bijection, Injection, Surjection, IsInjective
<1>2. ExistsBijection(S, T)
  BY <1>1 DEF ExistsBijection
<1> QED BY <1>2, FS_Bijection

(* The open descriptors of a shell that is not at a line are the terminal's *)
(* and both ends of every pipe that waits.                                  *)
LEMMA OpenNumbers ==
  ASSUME Shape, Wiring, OnlyNeeded, pc \in {"wait", "prompt"}
  PROVE  /\ \A k \in Pending : \E r \in 1 .. Len(buf) : Is(NP_receiver_map[k], r)
         /\ Cardinality({f \in Fd : fds[f] # Closed}) = 3 + 2 * Cardinality(Pending)
<1>1. /\ Live /\ pc \notin Busy \cup {"release"} /\ TypeOK /\ instr_cnt \in Nat
      /\ \A k \in Keys : k \in Pending <=> Awaited(k)
  <2>1. TypeOK /\ instr_cnt \in Nat
    BY DEF Shape, Types, TypeOK
  <2> QED BY <2>1, PendingAwaited DEF Live, Busy
<1>2. Pending \subseteq Keys
  BY DEF Pending
<1>3. \A k \in Pending : /\ NP_receiver_map[k] \in Pipe
                         /\ \E r \in 1 .. Len(buf) : Is(NP_receiver_map[k], r)
  BY <1>1, <1>2, MapFacts DEF Awaited, Wiring, AwaitedPipes
<1>4. \A k \in Pending, j \in Pending : NP_receiver_map[k] = NP_receiver_map[j] => k = j
  BY <1>1, <1>2 DEF Wiring, KeysApart
<1> DEFINE rd == [k \in Pending |-> NP_receiver_map[k].read_fd]
           wr == [k \in Pending |-> NP_receiver_map[k].write_fd]
           R == {rd[k] : k \in Pending}
           W == {wr[k] : k \in Pending}
<1>5. \A k \in Pending, j \in Pending : k # j =>
        Fds(NP_receiver_map[k]) \cap Fds(NP_receiver_map[j]) = {}
  <2>1. SUFFICES ASSUME NEW k \in Pending, NEW j \in Pending, k # j
                 PROVE  Fds(NP_receiver_map[k]) \cap Fds(NP_receiver_map[j]) = {}
    OBVIOUS
  <2>2. PICK r : Is(NP_receiver_map[k], r)
    BY <1>3
  <2>3. PICK o : Is(NP_receiver_map[j], o)
    BY <1>3
  <2>4. NP_receiver_map[k] # NP_receiver_map[j]
    BY <1>4, <2>1
  <2>5. NP_receiver_map[k] \in Pipe /\ NP_receiver_map[j] \in Pipe
    BY <1>3
  <2> QED BY <1>1, <2>2, <2>3, <2>4, <2>5, PipesApart
<1>6. \A k \in Pending : /\ rd[k] \in Fds(NP_receiver_map[k]) /\ wr[k] \in Fds(NP_receiver_map[k])
                         /\ rd[k] # wr[k] /\ rd[k] \in Fd /\ wr[k] \in Fd
                         /\ fds[rd[k]] \notin {Closed, Tty} /\ fds[wr[k]] \notin {Closed, Tty}
                         /\ Fds(NP_receiver_map[k]) = {rd[k], wr[k]}
  BY <1>3, PipeFacts, DescrFacts DEF Is, Fds
<1> HIDE DEF rd, wr
<1>7. IsFiniteSet(Pending)
  <2>1. IsFiniteSet(Keys)
    <3>1. 0 \in Int /\ MaxLines + MaxNum \in Int
      BY ConstantTypes
    <3> QED BY <3>1, FS_Interval DEF Keys
  <2> QED BY <1>2, <2>1, FS_Subset
<1>8. IsFiniteSet(R) /\ Cardinality(R) = Cardinality(Pending)
  <2>1. \A k \in Pending, j \in Pending : rd[k] = rd[j] => k = j
    BY <1>5, <1>6
  <2> QED BY <1>7, <2>1, InjectiveImage
<1>9. IsFiniteSet(W) /\ Cardinality(W) = Cardinality(Pending)
  <2>1. \A k \in Pending, j \in Pending : wr[k] = wr[j] => k = j
    BY <1>5, <1>6
  <2> QED BY <1>7, <2>1, InjectiveImage
<1>10. R \cap W = {}
  <2>1. \A k \in Pending, j \in Pending : rd[k] # wr[j]
    BY <1>5, <1>6
  <2> QED BY <2>1
<1> DEFINE T == 0 .. 2
<1>11. IsFiniteSet(T) /\ Cardinality(T) = 3
  <2>1. 0 \in Int /\ 2 \in Int /\ ~(0 > 2) /\ 2 - 0 + 1 = 3
    OBVIOUS
  <2>2. IsFiniteSet(0 .. 2) /\ Cardinality(0 .. 2) = IF 0 > 2 THEN 0 ELSE 2 - 0 + 1
    BY <2>1, FS_Interval
  <2> QED BY <2>1, <2>2
<1>12. \A f \in Fd : f \in T <=> fds[f] = Tty
  BY <1>1, FdFacts DEF Wiring, OwnNumbers
<1>13. T \cap (R \cup W) = {}
  <2>1. \A f \in R \cup W : f \in Fd /\ fds[f] # Tty
    BY <1>6
  <2> QED BY <1>12, <2>1
<1>14. {f \in Fd : fds[f] # Closed} = T \cup (R \cup W)
  <2>1. ASSUME NEW f \in Fd, fds[f] # Closed
        PROVE  f \in T \cup (R \cup W)
    <3>1. fds[f] # File
      BY <1>1 DEF Wiring, OwnNumbers
    <3>2. CASE fds[f] # Tty
      <4>1. PICK k \in Keys : Awaited(k) /\ f \in Fds(NP_receiver_map[k])
        BY <1>1, <2>1, <3>1, <3>2 DEF OnlyNeeded
      <4>2. k \in Pending /\ f \in {rd[k], wr[k]}
        BY <1>1, <1>6, <4>1
      <4> QED BY <4>2
    <3>3. CASE fds[f] = Tty
      BY <1>12, <3>3
    <3> QED BY <3>2, <3>3
  <2>2. \A f \in T : f \in Fd /\ fds[f] # Closed
    <3>1. \A f \in T : f \in Fd
      BY MaxFdAssumption DEF Fd
    <3> QED BY <1>12, <3>1, DescrFacts
  <2>3. \A f \in R \cup W : f \in Fd /\ fds[f] # Closed
    BY <1>6
  <2> HIDE DEF T, R, W
  <2> QED BY <2>1, <2>2, <2>3
<1> HIDE DEF T, R, W
<1>15. IsFiniteSet(R \cup W) /\ Cardinality(R \cup W) = 2 * Cardinality(Pending)
  <2>1. Cardinality(R \cap W) = 0 /\ Cardinality(Pending) \in Nat
    BY <1>7, <1>10, FS_EmptySet, FS_CardinalityType
  <2>2. /\ IsFiniteSet(R \cup W)
        /\ Cardinality(R \cup W) = Cardinality(R) + Cardinality(W) - Cardinality(R \cap W)
    BY <1>8, <1>9, FS_Union
  <2> QED BY <1>8, <1>9, <2>1, <2>2
<1>16. Cardinality(T \cup (R \cup W)) = 3 + 2 * Cardinality(Pending)
  <2> DEFINE V == R \cup W
  <2>1. Cardinality(T \cap V) = 0 /\ Cardinality(Pending) \in Nat
    BY <1>7, <1>13, FS_EmptySet, FS_CardinalityType
  <2>2. IsFiniteSet(V) /\ Cardinality(V) = 2 * Cardinality(Pending)
    BY <1>15
  <2> HIDE DEF V
  <2>3. Cardinality(T \cup V) = Cardinality(T) + Cardinality(V) - Cardinality(T \cap V)
    BY <1>11, <2>2, FS_Union
  <2>4. Cardinality(T \cup V) = 3 + 2 * Cardinality(Pending)
    BY <1>11, <2>1, <2>2, <2>3
  <2> QED BY <2>4 DEF V
<1> QED BY <1>3, <1>14, <1>16

(* What the shell holds between two lines are pipes nobody reads yet.       *)
LEMMA NoOwnEnd ==
  ASSUME Shape, Wiring, Tidy
  PROVE  ReaderNotWriter
<1>1. ASSUME NEW p \in Running, FromPipe(p), pc \in {"prompt", "wait"}
      PROVE  WriteEnd(procs[p].in[2]) \notin Held(fds)
  <2>1. p \in Forked
    BY DEF Running, Forked
  <2>2. PICK r \in 1 .. Len(buf) : procs[p].in = ReadEnd(r) /\ procs[p].in[2] = r
    BY <1>1, <2>1, ReadsPipe DEF Shape
  <2>3. Live /\ pc \notin Busy \cup {"release"} /\ TypeOK
    BY <1>1 DEF Live, Busy, Shape, Types
  <2>4. ASSUME NEW f \in Fd, fds[f] = WriteEnd(r)
        PROVE  FALSE
    <3>1. PICK k \in Keys : Awaited(k) /\ f \in Fds(NP_receiver_map[k])
      BY <2>3, <2>4, DescrFacts DEF Tidy, OnlyNeeded
    <3>2. PICK o \in 1 .. Len(buf) : Is(NP_receiver_map[k], o) /\ NoReader(o)
      BY <2>3, <3>1 DEF Wiring, AwaitedPipes
    <3>3. o = r
      BY <2>4, <3>1, <3>2, DescrFacts DEF Is, Fds
    <3> QED BY <2>1, <2>2, <3>2, <3>3 DEF NoReader
  <2> QED BY <2>2, <2>4 DEF Held
<1> QED BY <1>1 DEF ReaderNotWriter, Tidy, NotOwn

Orderly == Shape /\ Wiring /\ Tidy

LEMMA OrderlyInit ==
  ASSUME Init
  PROVE  Orderly
<1>1. Shape /\ Wiring
  BY ShapeInit, WiringInit
<1>2. Running = {} /\ pc = "prompt" /\ \A f \in Fd : fds[f] \in {Closed, Tty}
  BY DEF Init, Running, NoProc
<1> QED BY <1>1, <1>2 DEF Orderly, Tidy, TableWhole, OnlyNeeded, NotOwn, Busy

LEMMA OrderlyNext ==
  ASSUME Orderly, NoFailures, Sparing, [Next]_vars
  PROVE  Orderly'
<1>1. Shape' /\ Wiring'
  BY ShapeNext, WiringNext DEF Orderly
<1>2. TableWhole' /\ OnlyNeeded' /\ NotOwn'
  BY TableWholeNext, NeededNext, NotOwnNext DEF Orderly, Tidy
<1> QED BY <1>1, <1>2 DEF Orderly, Tidy

(* While fork() does not fail, the shell that waits or prompts holds the    *)
(* terminal and both ends of every pipe that a later line will read, and no *)
(* other descriptor, however many lines it has run.                         *)
THEOREM ShellHoldsCorrect ==
  ASSUME Sparing, ForkFailures = 0
  PROVE  Spec => []ShellHolds
<1>1. Init => Orderly
  BY OrderlyInit
<1>2. Orderly /\ [Next]_vars => Orderly'
  BY OrderlyNext DEF NoFailures
<1>3. Orderly => ShellHolds
  BY OpenNumbers DEF Orderly, Tidy, ShellHolds, Is
<1> QED BY <1>1, <1>2, <1>3, PTL DEF Spec

(* While fork() does not fail, no command holds the write end of the pipe   *)
(* it reads, nor does the shell that waits for it: the end of file does not *)
(* wait for who waits for it.                                               *)
THEOREM ReaderNotWriterCorrect ==
  ASSUME Sparing, ForkFailures = 0
  PROVE  Spec => []ReaderNotWriter
<1>1. Init => Orderly
  BY OrderlyInit
<1>2. Orderly /\ [Next]_vars => Orderly'
  BY OrderlyNext DEF NoFailures
<1>3. Orderly => ReaderNotWriter
  BY NoOwnEnd DEF Orderly
<1> QED BY <1>1, <1>2, <1>3, PTL DEF Spec
=============================================================================
