---------------------------- MODULE VolumePlans -----------------------------
(***************************************************************************)
(* What the writes a command has to issue will do to the device of Volume, *)
(* in whatever order the asynchronous ones land and wherever the program   *)
(* stops: requests, devices between two others, and plans; what the        *)
(* operators of Volume do to a run; and the plans of create, rm and owrite. *)
(***************************************************************************)
EXTENDS Volume, FiniteSetTheorems, WellFoundedInduction, TLAPS

-----------------------------------------------------------------------------
(***************************************************************************)
(* Requests and what they do.                                              *)
(***************************************************************************)
Sums     == UNION {[S -> SUBSET Bit] : S \in SUBSET Block}
Nodes    == UNION {[S -> Dinodes] : S \in SUBSET Inode}
Contents == (SUBSET Inode) \cup (SUBSET Block) \cup Seq(Word) \cup Sums \cup Nodes
Requests == [area : Written \cup {"wait", "stop"},
             val  : UNION {[S -> Contents] : S \in SUBSET Nat},
             sync : BOOLEAN, risk : SUBSET Inode]

\* The device d has what w writes where w writes it.
Agrees(d, w) ==
  /\ Hits(w, "imap", 0) => w.val[0] = d.imap
  /\ \A b \in Block :
       /\ Hits(w, "bmap", Group(b)) => (b \in w.val[Group(b)] <=> b \in d.bmap)
       /\ Hits(w, "csum", Group(b)) => w.val[Group(b)][b] = d.csum[b]
       /\ Hits(w, "block", b) => w.val[b] = d.block[b]
  /\ \A i \in Inode :
       Hits(w, "inodes", InodeBlock(i)) => w.val[InodeBlock(i)][i] = d.node[i]

\* Everywhere, x is as a or as l.
Between(x, a, l) ==
  /\ x.imap \in {a.imap, l.imap}
  /\ \A b \in Block :
       /\ (b \in x.bmap <=> b \in a.bmap) \/ (b \in x.bmap <=> b \in l.bmap)
       /\ x.csum[b] \in {a.csum[b], l.csum[b]}
       /\ x.block[b] \in {a.block[b], l.block[b]}
  /\ \A i \in Inode : x.node[i] \in {a.node[i], l.node[i]}

\* Where x is not as l, one of the requests Q writes.
Covered(x, l, Q) ==
  /\ x.imap # l.imap => \E w \in Q : Hits(w, "imap", 0)
  /\ \A b \in Block :
       /\ ~(b \in x.bmap <=> b \in l.bmap) => \E w \in Q : Hits(w, "bmap", Group(b))
       /\ x.csum[b] # l.csum[b] => \E w \in Q : Hits(w, "csum", Group(b))
       /\ x.block[b] # l.block[b] => \E w \in Q : Hits(w, "block", b)
  /\ \A i \in Inode :
       x.node[i] # l.node[i] => \E w \in Q : Hits(w, "inodes", InodeBlock(i))

LEMMA SameDevice ==
  ASSUME NEW d \in Device, NEW e \in Device, d.imap = e.imap,
         \A b \in Block : /\ b \in d.bmap <=> b \in e.bmap
                          /\ d.csum[b] = e.csum[b] /\ d.block[b] = e.block[b],
         \A i \in Inode : d.node[i] = e.node[i]
  PROVE  d = e
<1>1. d.bmap = e.bmap
  BY DEF Device
<1>2. d.csum = e.csum /\ d.block = e.block /\ d.node = e.node
  BY DEF Device
<1> QED BY <1>1, <1>2 DEF Device

\* The device e is d with what w writes.
After(e, d, w) ==
  /\ e.imap = IF Hits(w, "imap", 0) THEN w.val[0] ELSE d.imap
  /\ \A b \in Block :
       /\ b \in e.bmap <=> IF Hits(w, "bmap", Group(b))
                           THEN b \in w.val[Group(b)] ELSE b \in d.bmap
       /\ e.csum[b] = IF Hits(w, "csum", Group(b)) THEN w.val[Group(b)][b] ELSE d.csum[b]
       /\ e.block[b] = IF Hits(w, "block", b) THEN w.val[b] ELSE d.block[b]
  /\ \A i \in Inode :
       e.node[i] = IF Hits(w, "inodes", InodeBlock(i))
                   THEN w.val[InodeBlock(i)][i] ELSE d.node[i]

\* A request changes what it hits and nothing else.
LEMMA PutAt ==
  ASSUME NEW d \in Device, NEW w
  PROVE  After(Put(d, w), d, w)
<1> USE DEF After
<1>1. CASE w.area = "imap"
  BY <1>1 DEF Put, Device, Hits
<1>2. CASE w.area = "bmap"
  BY <1>2 DEF Put, Device, Hits
<1>3. CASE w.area = "csum"
  BY <1>3 DEF Put, Device, Hits
<1>4. CASE w.area = "inodes"
  BY <1>4 DEF Put, Device, Hits
<1>5. CASE w.area = "block"
  BY <1>5 DEF Put, Device, Hits
<1>6. CASE w.area \notin Written
  BY <1>6 DEF Put, Device, Hits, Written
<1> QED BY <1>1, <1>2, <1>3, <1>4, <1>5, <1>6 DEF Written

LEMMA PutNothing ==
  ASSUME NEW d, NEW w, w.area \notin Written
  PROVE  Put(d, w) = d
BY DEF Put, Written

LEMMA PutAgrees ==
  ASSUME NEW d \in Device, NEW w
  PROVE  Agrees(Put(d, w), w)
BY PutAt DEF Agrees, After

\* What is put on a device that is to become l.
LEMMA PutOnWay ==
  ASSUME NEW d \in Device, NEW l \in Device, NEW w, Agrees(l, w)
  PROVE  Put(d, w) \in Device /\ Between(Put(d, w), d, l)
<1> DEFINE e == Put(d, w)
<1>1. e = Put(d, w)
  OBVIOUS
<1>2. e \in Device
  <2>1. CASE w.area = "imap"
    BY <2>1 DEF Put, Device, Agrees, Hits
  <2>2. CASE w.area = "bmap"
    BY <2>2 DEF Put, Device, Agrees, Hits
  <2>3. CASE w.area = "csum"
    <3>1. \A b \in Block : (IF Hits(w, "csum", Group(b)) THEN w.val[Group(b)][b] ELSE d.csum[b]) \in SUBSET Bit
      BY DEF Device, Agrees
    <3> QED BY <2>3, <3>1 DEF Put, Device
  <2>4. CASE w.area = "inodes"
    <3>1. \A i \in Inode : (IF Hits(w, "inodes", InodeBlock(i)) THEN w.val[InodeBlock(i)][i] ELSE d.node[i]) \in Dinodes
      BY DEF Device, Agrees
    <3> QED BY <2>4, <3>1 DEF Put, Device
  <2>5. CASE w.area = "block"
    <3>1. \A b \in Block : (IF Hits(w, "block", b) THEN w.val[b] ELSE d.block[b]) \in Seq(Word)
      BY DEF Device, Agrees
    <3> QED BY <2>5, <3>1 DEF Put, Device
  <2>6. CASE w.area \notin Written
    BY <2>6, PutNothing
  <2> QED BY <2>1, <2>2, <2>3, <2>4, <2>5, <2>6 DEF Written
<1>3. After(e, d, w)
  BY <1>1, PutAt
<1> HIDE DEF e
<1>4. Between(e, d, l)
  BY <1>3 DEF Between, Agrees, After
<1> QED BY <1>1, <1>2, <1>4

LEMMA BetweenSame ==
  ASSUME NEW x \in Device, NEW d \in Device, Between(x, d, d)
  PROVE  x = d
BY SameDevice DEF Between

LEMMA BetweenEnds ==
  ASSUME NEW a, NEW l
  PROVE  Between(a, a, l) /\ Between(l, a, l)
BY DEF Between

LEMMA BetweenMore ==
  ASSUME NEW x, NEW a, NEW k, NEW l, Between(x, a, k), Between(k, a, l)
  PROVE  Between(x, a, l)
BY DEF Between

LEMMA BetweenWithin ==
  ASSUME NEW x, NEW d, NEW a, NEW l, Between(x, d, l), Between(d, a, l)
  PROVE  Between(x, a, l)
BY DEF Between

-----------------------------------------------------------------------------
(***************************************************************************)
(* Plans.                                                                  *)
(*                                                                         *)
(* A plan says for each request of a command what is known once it is      *)
(* issued: `a' is the device when no request was under way for the last    *)
(* time, `l' the device when all requests have landed, `p' has those that  *)
(* may not have landed, `r' the inodes at risk; `up' until dev_stop.       *)
(***************************************************************************)
Points == [a : Device, l : Device, p : SUBSET Requests, r : SUBSET Inode, up : BOOLEAN]

\* Everything is on the device d.
On(d, R) == [a |-> d, l |-> d, p |-> {}, r |-> R, up |-> TRUE]

\* What is whole on the device d, when B are the blocks marked, unless in R.
DirOK(d) ==
  LET root  == d.node[Root]
      words == d.block[root.direct]
  IN  /\ root.type = "dir" /\ root.direct \in Block /\ root.indirect = 0
      /\ root.size <= Len(words)
      /\ \A j, k \in 1 .. root.size : words[j] = words[k] /\ words[j] \in File => j = k

FileOK(d, i) ==
  LET n == d.node[i]
  IN  /\ n.type = "file"
      /\ n.direct # 0 => d.block[n.direct] = Data
      /\ \/ n.size = 0 /\ n.direct = 0 /\ n.indirect = 0
         \/ n.size = 1 /\ n.direct # 0 /\ n.indirect = 0
         \/ /\ n.size = 2 /\ n.direct # 0 /\ n.indirect # 0 /\ n.direct # n.indirect
            /\ \E b \in Block \ {n.direct, n.indirect} :
                 d.block[n.indirect] = <<b>> /\ d.block[b] = Data

Sound(d, B, R) ==
  /\ Root \notin R
  /\ DirOK(d)
  /\ \A i \in Entries(d) \ R : FileOK(d, i)
  /\ \A i \in Reached(d) \ R : i \in d.imap /\ BlocksOf(d, i) \subseteq B
  /\ \A i, j \in Reached(d) \ R : i # j => BlocksOf(d, i) \cap BlocksOf(d, j) = {}
  /\ \A i \in Inode \ (d.imap \cup R) : d.node[i] = NoDinode

\* A program that stops now leaves the device d, the inodes in R damaged.
Recoverable(d, R) == FsExists(d) /\ R # Inode => Sound(d, d.bmap, R)

\* Wherever the program stops at s, unless the volume is damaged already.
Secure(h, s) ==
  "damaged" \in h \/ \A x \in Device : Between(x, s.a, s.l) => Recoverable(x, s.r)

\* The request w takes the plan from s to t.
IsWait(w, s, t) ==
  w.area = "wait" /\ t = On(s.l, w.risk)
IsStop(w, s, t) ==
  w.area = "stop" /\ s.p = {} /\ s.r = {} /\ t = [s EXCEPT !.up = FALSE]
IsSync(w, s, t) ==
  w.area \in Written /\ w.sync /\ s.p = {} /\ t = On(Put(s.l, w), w.risk)
IsAsync(w, s, t) ==
  /\ w.area \in Written /\ ~w.sync
  /\ t = [s EXCEPT !.l = Put(@, w), !.p = @ \cup {w}, !.r = w.risk]
  /\ Between(s.l, s.a, t.l)
  /\ \A v \in t.p : Agrees(t.l, v)

Goes(h, w, s, t) ==
  /\ s.up
  /\ IsWait(w, s, t) \/ IsStop(w, s, t) \/ IsSync(w, s, t) \/ IsAsync(w, s, t)
  /\ Secure(h, t)

Plan(h, q, f) ==
  /\ f \in [0 .. Len(q) -> Points]
  /\ \A k \in 1 .. Len(q) : Goes(h, q[k], f[k - 1], f[k])

\* The requests q lead from s to t.
Leads(h, q, s, t) == \E f : Plan(h, q, f) /\ f[0] = s /\ f[Len(q)] = t

LEMMA LeadsNowhere ==
  ASSUME NEW h, NEW s \in Points
  PROVE  Leads(h, <<>>, s, s)
<1> DEFINE f == [k \in 0 .. 0 |-> s]
<1>1. Plan(h, <<>>, f) /\ f[0] = s
  BY DEF Plan
<1> QED BY <1>1 DEF Leads

\* Some requests more.
LEMMA LeadsOn ==
  ASSUME NEW h, NEW q \in Seq(Requests), NEW w \in Seq(Requests), NEW s, NEW t, NEW u,
         Leads(h, q, s, t), Leads(h, w, t, u)
  PROVE  Leads(h, q \o w, s, u) /\ q \o w \in Seq(Requests)
<1>1. PICK f : Plan(h, q, f) /\ f[0] = s /\ f[Len(q)] = t
  BY DEF Leads
<1>2. PICK g : Plan(h, w, g) /\ g[0] = t /\ g[Len(w)] = u
  BY DEF Leads
<1> DEFINE n == Len(q)
           both == [k \in 0 .. n + Len(w) |-> IF k <= n THEN f[k] ELSE g[k - n]]
<1>3. n \in Nat /\ Len(w) \in Nat /\ q \o w \in Seq(Requests) /\ Len(q \o w) = n + Len(w)
  OBVIOUS
<1>4. f \in [0 .. n -> Points] /\ g \in [0 .. Len(w) -> Points]
  BY <1>1, <1>2 DEF Plan
<1>5. both \in [0 .. n + Len(w) -> Points]
  BY <1>3, <1>4
<1>6. both[0] = s /\ both[n + Len(w)] = u
  BY <1>1, <1>2, <1>3
<1>7. ASSUME NEW k \in 1 .. n + Len(w)
      PROVE  Goes(h, (q \o w)[k], both[k - 1], both[k])
  <2>1. CASE k <= n
    <3>1. k \in 1 .. n /\ (q \o w)[k] = q[k] /\ both[k - 1] = f[k - 1] /\ both[k] = f[k]
      BY <1>3, <2>1
    <3> QED BY <1>1, <3>1 DEF Plan
  <2>2. CASE k > n
    <3>1. k - n \in 1 .. Len(w) /\ (q \o w)[k] = w[k - n] /\ both[k] = g[k - n]
      BY <1>3, <2>2
    <3>2. both[k - 1] = g[(k - n) - 1]
      <4>1. CASE k = n + 1
        <5>1. k - 1 = n /\ (k - n) - 1 = 0
          BY <1>3, <4>1
        <5>2. both[k - 1] = f[n]
          BY <1>3, <5>1
        <5>3. g[(k - n) - 1] = g[0]
          BY <5>1
        <5>4. f[n] = g[0]
          BY <1>1, <1>2
        <5> HIDE DEF both, n
        <5> QED BY <5>2, <5>3, <5>4
      <4>2. CASE k # n + 1
        <5>1. (k - 1) - n = (k - n) - 1 /\ k - 1 \in 0 .. n + Len(w) /\ ~(k - 1 <= n)
          BY <1>3, <2>2, <4>2
        <5>2. both[k - 1] = g[(k - 1) - n]
          BY <5>1
        <5> QED BY <5>1, <5>2
      <4> QED BY <4>1, <4>2
    <3> QED BY <1>2, <3>1, <3>2 DEF Plan
  <2> QED BY <1>3, <2>1, <2>2
<1>8. Plan(h, q \o w, both)
  BY <1>3, <1>5, <1>7 DEF Plan
<1> HIDE DEF both
<1> QED BY <1>3, <1>6, <1>8 DEF Leads

LEMMA LeadsOne ==
  ASSUME NEW h, NEW w \in Requests, NEW s \in Points, NEW t \in Points, Goes(h, w, s, t)
  PROVE  Leads(h, <<w>>, s, t)
<1> DEFINE f == [k \in 0 .. 1 |-> IF k = 0 THEN s ELSE t]
<1>1. f \in [0 .. 1 -> Points] /\ f[0] = s /\ f[1] = t
  OBVIOUS
<1> HIDE DEF f
<1>2. Len(<<w>>) = 1 /\ <<w>>[1] = w
  OBVIOUS
<1>3. Plan(h, <<w>>, f)
  BY <1>1, <1>2 DEF Plan
<1> QED BY <1>1, <1>2, <1>3 DEF Leads

\* The first request, and the others.
LEMMA LeadsFirst ==
  ASSUME NEW h, NEW q \in Seq(Requests), NEW s, NEW u, q # <<>>, Leads(h, q, s, u)
  PROVE  \E t \in Points : Goes(h, Head(q), s, t) /\ Leads(h, Tail(q), t, u)
<1>1. PICK f : Plan(h, q, f) /\ f[0] = s /\ f[Len(q)] = u
  BY DEF Leads
<1> DEFINE n == Len(Tail(q))
           g == [k \in 0 .. n |-> f[k + 1]]
<1>2. n \in Nat /\ Len(q) = n + 1 /\ \A k \in 1 .. n : Tail(q)[k] = q[k + 1]
  OBVIOUS
<1>3. Head(q) = q[1] /\ f[1] \in Points
  BY <1>1, <1>2 DEF Plan
<1>4. g \in [0 .. n -> Points] /\ g[0] = f[1] /\ g[n] = u
  BY <1>1, <1>2 DEF Plan
<1>5. ASSUME NEW k \in 1 .. n
      PROVE  Goes(h, Tail(q)[k], g[k - 1], g[k])
  <2>1. k + 1 \in 1 .. Len(q) /\ g[k] = f[k + 1] /\ g[k - 1] = f[(k + 1) - 1]
    BY <1>2
  <2> QED BY <1>1, <1>2, <2>1 DEF Plan
<1>6. Plan(h, Tail(q), g)
  BY <1>4, <1>5 DEF Plan
<1>7. Goes(h, q[1], f[0], f[1])
  BY <1>1, <1>2 DEF Plan
<1> HIDE DEF g
<1> QED BY <1>1, <1>3, <1>4, <1>6, <1>7 DEF Leads

\* No requests lead nowhere; nothing comes after dev_stop.
LEMMA LeadsEmpty ==
  ASSUME NEW h, NEW s, NEW u, Leads(h, <<>>, s, u)
  PROVE  s = u
BY DEF Leads

LEMMA LeadsEnd ==
  ASSUME NEW h, NEW q \in Seq(Requests), NEW s, NEW u, Leads(h, q, s, u), ~s.up
  PROVE  q = <<>> /\ s = u
<1>1. q # <<>> => \E t \in Points : Goes(h, Head(q), s, t)
  BY LeadsFirst
<1> QED BY <1>1, LeadsEmpty DEF Goes

-----------------------------------------------------------------------------
(***************************************************************************)
(* The volume as the program has it.                                       *)
(***************************************************************************)

\* The volume on the device d and in the memory m, with the inodes X and the
\* blocks `hand' left out, which a command works on; R are the inodes that
\* have blocks which the freemap on the device does not mark, h the history.
Consistent(d, m, R, X, hand, h) ==
  /\ FsExists(d) /\ Sound(d, m.bmap, X)
  /\ d.bmap \subseteq m.bmap /\ d.imap = m.imap
  /\ R \subseteq File
  /\ \A i \in Reached(d) \ (R \cup X) : BlocksOf(d, i) \subseteq d.bmap
  /\ hand \subseteq m.bmap
  /\ \A i \in Reached(d) \ X : BlocksOf(d, i) \cap hand = {}
  /\ h \subseteq {"csumLost"} =>
       /\ m.imap \subseteq Reached(d) \cup X
       /\ \A b \in m.bmap \ hand : \E i \in Reached(d) \ X : b \in BlocksOf(d, i)
  /\ h = {} => \A i \in Reached(d) \ X : \A b \in DataBlocks(d, i) :
                 m.csum[b] = Csum(d.block[b])

\* A checksum that differs from the one on the device is to be flushed.
Mirror(d, m) == \A b \in Block : Group(b) \in m.dirty \/ m.csum[b] = d.csum[b]

\* Between two commands.
Rests(d, m, R, h) ==
  /\ ~FsExists(d) => R = {}
  /\ FsExists(d) /\ "damaged" \notin h =>
       Consistent(d, m, R, {}, {}, h) /\ Mirror(d, m)

\* After a benchmark with files of this size.
Durable(d, m, size) ==
  /\ d.bmap = m.bmap /\ d.imap = m.imap /\ d.csum = m.csum /\ m.dirty = {}
  /\ \A i \in Entries(d) : d.node[i].size = size /\ Intact(d, i, Reached(d))

\* What the point u at the end of a command has to be.
HistoryAfter(name, h) == IF name \in {"mkfs", "bench"} THEN {} ELSE h
Achieves(name, size, m, h, u) ==
  /\ u.p = {}
  /\ IF u.up
     THEN /\ Rests(u.l, m, u.r, HistoryAfter(name, h))
          /\ name = "bench" => Durable(u.l, m, size)
     ELSE Rests(u.l, Load(u.l), {}, h \cup IF m.dirty = {} THEN {} ELSE {"csumLost"})

\* The device x and the requests Q under way are at the point s of a plan.
Stands(x, Q, s) ==
  /\ Q \subseteq s.p /\ \A w \in s.p : Agrees(s.l, w)
  /\ Between(x, s.a, s.l)
  /\ Covered(x, s.l, Q)

Names == {"none", "mkfs", "create", "rm", "owrite", "write", "bench", "quit"}
IsCommand == cmd \in [name : Names, size : Nat, writes : Seq(Requests)]

Working ==
  /\ up /\ cmd.writes # <<>>
  /\ \E s, u \in Points :
       /\ Stands(dev, inflight, s) /\ s.r = risk /\ s.up
       /\ Secure(history, s)
       /\ Leads(history, cmd.writes, s, u)
       /\ Achieves(cmd.name, cmd.size, mem, history, u)

IInv ==
  /\ TypeOK /\ IsCommand
  /\ cmd # Idle => Working
  /\ cmd = Idle => inflight = {} /\ Rests(dev, IF up THEN mem ELSE Load(dev), risk, history)
  /\ ~up => risk = {}

\* What BenchDurable says of a step.
BenchEnds == cmd.name = "bench" /\ cmd' = Idle /\ up' => Durable(dev', mem', cmd.size)

\* With nothing under way, all is on the device.
LEMMA NothingPending ==
  ASSUME NEW x \in Device, NEW Q, NEW s \in Points, Stands(x, Q, s)
  PROVE  /\ s.p = {} => Q = {}
         /\ Q = {} => x = s.l
<1>1. s.l \in Device
  BY DEF Points
<1> QED BY <1>1, SameDevice DEF Stands, Covered

LEMMA StandsOn ==
  ASSUME NEW x \in Device, NEW R
  PROVE  Stands(x, {}, On(x, R))
BY DEF Stands, On, Between, Covered

LEMMA IdleIsCommand ==
  Idle \in [name : Names, size : Nat, writes : Seq(Requests)] /\ Idle.writes = <<>>
<1>1. <<>> \in Seq(Requests)
  OBVIOUS
<1> QED BY <1>1 DEF Idle, Names

LEMMA OnPoint ==
  ASSUME NEW d \in Device, NEW R \in SUBSET Inode
  PROVE  On(d, R) \in Points
BY DEF On, Points

\* A request less to issue.
LEMMA ProceedInv ==
  ASSUME IInv, Working, Proceed, dev' \in Device,
         NEW s \in Points, NEW t \in Points, NEW u \in Points,
         Goes(history, Head(cmd.writes), s, t), t.up, t.r = Head(cmd.writes).risk,
         Leads(history, Tail(cmd.writes), t, u),
         Achieves(cmd.name, cmd.size, mem, history, u),
         Stands(dev', inflight', t)
  PROVE  IInv' /\ BenchEnds
<1> DEFINE q == cmd.writes
<1>1. q \in Seq(Requests) /\ q # <<>> /\ Tail(q) \in Seq(Requests) /\ up
      /\ cmd \in [name : Names, size : Nat, writes : Seq(Requests)]
  BY DEF IInv, Working, IsCommand
<1>2. UNCHANGED <<up, mem, crashes>> /\ risk' = t.r
  BY DEF Proceed
<1>3. TypeOK'
  BY <1>1, <1>2 DEF Proceed, IInv, TypeOK, Points
<1>4. CASE Tail(q) = <<>>
  <2>1. cmd' = Idle /\ history' = HistoryAfter(cmd.name, history)
    BY <1>4 DEF Proceed, HistoryAfter
  <2>2. u = t
    <3>1. Leads(history, <<>>, t, u)
      BY <1>4
    <3> QED BY <3>1, LeadsEmpty
  <2>3. inflight' = {} /\ dev' = t.l
    BY <2>2, NothingPending DEF Achieves
  <2>4. Rests(dev', mem', risk', history')
    BY <1>2, <2>1, <2>2, <2>3 DEF Achieves
  <2>5. IsCommand'
    BY <2>1, IdleIsCommand DEF IsCommand
  <2>6. BenchEnds
    BY <1>2, <2>2, <2>3 DEF BenchEnds, Achieves
  <2> QED BY <1>1, <1>2, <1>3, <2>1, <2>3, <2>4, <2>5, <2>6 DEF IInv
<1>5. CASE Tail(q) # <<>>
  <2>1. cmd' = [cmd EXCEPT !.writes = Tail(q)] /\ history' = history
    BY <1>5 DEF Proceed
  <2>2. IsCommand' /\ cmd'.writes = Tail(q) /\ cmd'.name = cmd.name /\ cmd'.size = cmd.size
    BY <1>1, <2>1 DEF IsCommand
  <2>3. Secure(history, t)
    BY DEF Goes
  <2>4. Working'
    BY <1>1, <1>2, <1>5, <2>1, <2>2, <2>3 DEF Working
  <2>5. cmd' # Idle
    BY <1>5, <2>2, IdleIsCommand
  <2> QED BY <1>1, <1>2, <1>3, <2>2, <2>4, <2>5 DEF IInv, BenchEnds
<1> QED BY <1>4, <1>5

\* The plan of the command being executed.
LEMMA NextPoint ==
  ASSUME IInv, cmd.writes # <<>>
  PROVE  /\ Working /\ cmd.writes \in Seq(Requests) /\ Head(cmd.writes) \in Requests
         /\ \E s, t, u \in Points :
              /\ Stands(dev, inflight, s) /\ s.r = risk /\ s.up
              /\ Goes(history, Head(cmd.writes), s, t)
              /\ Leads(history, Tail(cmd.writes), t, u)
              /\ Achieves(cmd.name, cmd.size, mem, history, u)
<1>1. Working /\ cmd.writes \in Seq(Requests)
  BY DEF IInv, Idle, IsCommand
<1>2. PICK s, u \in Points :
        /\ Stands(dev, inflight, s) /\ s.r = risk /\ s.up
        /\ Leads(history, cmd.writes, s, u)
        /\ Achieves(cmd.name, cmd.size, mem, history, u)
  BY <1>1 DEF Working
<1>3. PICK t \in Points : /\ Goes(history, Head(cmd.writes), s, t)
                          /\ Leads(history, Tail(cmd.writes), t, u)
  BY <1>1, <1>2, LeadsFirst
<1> QED BY <1>1, <1>2, <1>3

LEMMA DoWriteSyncInv == IInv /\ DoWriteSync => IInv' /\ BenchEnds
<1> SUFFICES ASSUME IInv, DoWriteSync PROVE IInv' /\ BenchEnds
  OBVIOUS
<1> DEFINE w == Head(cmd.writes)
<1>1. /\ cmd.writes # <<>> /\ w.area \in Written /\ w.sync
      /\ dev' = Put(dev, w) /\ Proceed /\ inflight' = inflight
  BY DEF DoWriteSync, NextIs
<1>2. Working /\ w \in Requests
  BY <1>1, NextPoint
<1>3. PICK s, t, u \in Points :
        /\ Stands(dev, inflight, s) /\ s.r = risk /\ s.up
        /\ Goes(history, w, s, t)
        /\ Leads(history, Tail(cmd.writes), t, u)
        /\ Achieves(cmd.name, cmd.size, mem, history, u)
  BY <1>1, NextPoint
<1>4. s.p = {} /\ t = On(Put(s.l, w), w.risk)
  BY <1>1, <1>3 DEF Goes, IsWait, IsStop, IsSync, IsAsync, Written
<1>5. dev \in Device
  BY DEF IInv, TypeOK
<1>6. inflight = {} /\ dev = s.l
  BY <1>3, <1>4, <1>5, NothingPending
<1>7. dev' = t.l /\ dev' \in Device /\ t.up /\ t.r = w.risk /\ t = On(dev', w.risk)
  BY <1>1, <1>4, <1>6 DEF On, Points
<1>8. Stands(dev', inflight', t)
  BY <1>1, <1>6, <1>7, StandsOn
<1> QED BY <1>1, <1>2, <1>3, <1>7, <1>8, ProceedInv

LEMMA DoSpinWaitInv == IInv /\ DoSpinWait => IInv' /\ BenchEnds
<1> SUFFICES ASSUME IInv, DoSpinWait PROVE IInv' /\ BenchEnds
  OBVIOUS
<1> DEFINE w == Head(cmd.writes)
<1>1. /\ cmd.writes # <<>> /\ w.area = "wait" /\ inflight = {}
      /\ dev' = dev /\ Proceed /\ inflight' = inflight
  BY DEF DoSpinWait, NextIs
<1>2. Working /\ w \in Requests
  BY <1>1, NextPoint
<1>3. PICK s, t, u \in Points :
        /\ Stands(dev, inflight, s) /\ s.r = risk /\ s.up
        /\ Goes(history, w, s, t)
        /\ Leads(history, Tail(cmd.writes), t, u)
        /\ Achieves(cmd.name, cmd.size, mem, history, u)
  BY <1>1, NextPoint
<1>4. t = On(s.l, w.risk)
  BY <1>1, <1>3 DEF Goes, IsWait, IsStop, IsSync, IsAsync, Written
<1>5. dev \in Device
  BY DEF IInv, TypeOK
<1>6. dev = s.l
  BY <1>1, <1>3, <1>5, NothingPending
<1>7. dev' \in Device /\ t.up /\ t.r = w.risk /\ t = On(dev', w.risk)
  BY <1>1, <1>4, <1>5, <1>6 DEF On
<1>8. Stands(dev', inflight', t)
  BY <1>1, <1>7, StandsOn
<1> QED BY <1>1, <1>2, <1>3, <1>7, <1>8, ProceedInv

LEMMA DoWriteAsyncInv == IInv /\ DoWriteAsync => IInv' /\ BenchEnds
<1> SUFFICES ASSUME IInv, DoWriteAsync PROVE IInv' /\ BenchEnds
  OBVIOUS
<1> DEFINE w == Head(cmd.writes)
<1>1. /\ cmd.writes # <<>> /\ w.area \in Written /\ ~w.sync
      /\ inflight' = inflight \cup {w} /\ Proceed /\ dev' = dev
  BY DEF DoWriteAsync, NextIs
<1>2. Working /\ w \in Requests
  BY <1>1, NextPoint
<1>3. PICK s, t, u \in Points :
        /\ Stands(dev, inflight, s) /\ s.r = risk /\ s.up
        /\ Goes(history, w, s, t)
        /\ Leads(history, Tail(cmd.writes), t, u)
        /\ Achieves(cmd.name, cmd.size, mem, history, u)
  BY <1>1, NextPoint
<1>4. IsAsync(w, s, t)
  BY <1>1, <1>3 DEF Goes, IsWait, IsStop, IsSync, Written
<1>5. dev \in Device
  BY DEF IInv, TypeOK
<1>6. /\ t.a = s.a /\ t.l = Put(s.l, w) /\ t.p = s.p \cup {w} /\ t.r = w.risk /\ t.up
      /\ Between(s.l, t.a, t.l) /\ \A v \in t.p : Agrees(t.l, v)
  BY <1>3, <1>4 DEF IsAsync, Points
<1>7. /\ inflight \subseteq s.p /\ Between(dev, s.a, s.l) /\ Covered(dev, s.l, inflight)
  BY <1>3 DEF Stands
<1>8. Between(dev', t.a, t.l)
  BY <1>1, <1>6, <1>7, BetweenMore
<1>9. Covered(dev', t.l, inflight')
  <2> HIDE DEF w
  <2>1. s.l \in Device
    BY DEF Points
  <2>2. After(t.l, s.l, w)
    <3>1. After(Put(s.l, w), s.l, w)
      BY <2>1, PutAt
    <3> QED BY <1>6, <3>1
  <2>3. w \in inflight' /\ inflight \subseteq inflight' /\ dev' = dev
    BY <1>1
  <2>4. dev.imap # t.l.imap => \E v \in inflight' : Hits(v, "imap", 0)
    BY <1>7, <2>2, <2>3 DEF Covered, After
  <2>5. ASSUME NEW b \in Block
        PROVE  /\ ~(b \in dev.bmap <=> b \in t.l.bmap) =>
                    \E v \in inflight' : Hits(v, "bmap", Group(b))
               /\ dev.csum[b] # t.l.csum[b] => \E v \in inflight' : Hits(v, "csum", Group(b))
               /\ dev.block[b] # t.l.block[b] => \E v \in inflight' : Hits(v, "block", b)
    BY <1>7, <2>2, <2>3 DEF Covered, After
  <2>6. ASSUME NEW i \in Inode
        PROVE  dev.node[i] # t.l.node[i] =>
                 \E v \in inflight' : Hits(v, "inodes", InodeBlock(i))
    BY <1>7, <2>2, <2>3 DEF Covered, After
  <2> QED BY <2>3, <2>4, <2>5, <2>6 DEF Covered
<1>10. Stands(dev', inflight', t)
  BY <1>1, <1>6, <1>7, <1>8, <1>9 DEF Stands
<1> QED BY <1>1, <1>2, <1>3, <1>5, <1>6, <1>10, ProceedInv

LEMMA LandInv == IInv /\ Land => IInv'
<1> SUFFICES ASSUME IInv, Land PROVE IInv'
  OBVIOUS
<1>1. PICK w \in inflight : dev' = Put(dev, w) /\ inflight' = inflight \ {w}
  BY DEF Land
<1>2. UNCHANGED <<up, mem, cmd, risk, history, crashes>>
  BY DEF Land
<1>3. cmd # Idle /\ Working
  BY DEF IInv
<1>4. PICK s, u \in Points :
        /\ Stands(dev, inflight, s) /\ s.r = risk /\ s.up
        /\ Secure(history, s)
        /\ Leads(history, cmd.writes, s, u)
        /\ Achieves(cmd.name, cmd.size, mem, history, u)
  BY <1>3 DEF Working
<1>5. dev \in Device /\ s.l \in Device
  BY DEF IInv, TypeOK, Points
<1>6. /\ inflight \subseteq s.p /\ \A v \in s.p : Agrees(s.l, v)
      /\ Between(dev, s.a, s.l) /\ Covered(dev, s.l, inflight)
  BY <1>4 DEF Stands
<1>7. dev' \in Device /\ Between(dev', dev, s.l) /\ Agrees(s.l, w)
  BY <1>1, <1>5, <1>6, PutOnWay
<1>8. Between(dev', s.a, s.l)
  BY <1>6, <1>7, BetweenWithin
<1>9. Covered(dev', s.l, inflight')
  <2>1. After(dev', dev, w)
    BY <1>1, <1>5, PutAt
  <2> QED BY <1>1, <1>6, <1>7, <2>1 DEF Covered, Agrees, After
<1>10. Stands(dev', inflight', s)
  BY <1>1, <1>6, <1>8, <1>9 DEF Stands
<1>11. Working'
  BY <1>2, <1>3, <1>4, <1>10 DEF Working
<1>12. TypeOK' /\ IsCommand'
  BY <1>2, <1>3, <1>7 DEF IInv, TypeOK, IsCommand, Working
<1> QED BY <1>2, <1>3, <1>11, <1>12 DEF IInv, Working

\* What is recoverable with nothing at risk can be started again.
LEMMA RecoveredRests ==
  ASSUME NEW d \in Device, NEW h, Recoverable(d, {}), "crashed" \in h
  PROVE  Rests(d, Load(d), {}, h)
<1>1. {} # Inode
  BY VolumeAssumption DEF Inode
<1>2. ASSUME FsExists(d) PROVE Sound(d, d.bmap, {})
  BY <1>1, <1>2 DEF Recoverable
<1>3. ASSUME FsExists(d) PROVE Consistent(d, Load(d), {}, {}, {}, h)
  <2>1. Sound(d, Load(d).bmap, {}) /\ Load(d).imap = d.imap /\ Load(d).bmap = d.bmap
    BY <1>2, <1>3 DEF Load
  <2>2. \A i \in Reached(d) : BlocksOf(d, i) \subseteq d.bmap
    BY <1>2, <1>3 DEF Sound
  <2> QED BY <1>3, <2>1, <2>2 DEF Consistent
<1>4. Mirror(d, Load(d))
  BY DEF Mirror, Load
<1> QED BY <1>3, <1>4 DEF Rests

\* At rest, the inodes that a crash would damage are those in R.
LEMMA ConsistentRecovers ==
  ASSUME NEW d, NEW m, NEW R, NEW X, NEW hand, NEW h, NEW T, Consistent(d, m, R, X, hand, h),
         R \cup X \subseteq T, Root \notin T
  PROVE  Recoverable(d, T)
<1>1. Sound(d, m.bmap, X) /\ \A i \in Reached(d) \ (R \cup X) : BlocksOf(d, i) \subseteq d.bmap
  BY DEF Consistent
<1>2. Sound(d, d.bmap, T)
  BY <1>1 DEF Sound
<1> QED BY <1>2 DEF Recoverable

LEMMA CrashInv == IInv /\ Crash => IInv'
<1> SUFFICES ASSUME IInv, Crash PROVE IInv'
  OBVIOUS
<1>1. /\ up /\ ~up' /\ mem' = NoMem /\ cmd' = Idle /\ inflight' = {} /\ risk' = {} /\ dev' = dev
      /\ history' = history \cup {"crashed"} \cup (IF risk = {} THEN {} ELSE {"damaged"})
  BY DEF Crash
<1>2. TypeOK'
  <2>1. NoMem \in Memory
    BY DEF NoMem, Memory
  <2>2. crashes' \in 0 .. MaxCrashes
    BY VolumeAssumption DEF Crash, IInv, TypeOK
  <2>3. history' \subseteq {"crashed", "damaged", "csumLost"}
    BY <1>1 DEF IInv, TypeOK
  <2>4. dev' \in Device /\ up' \in BOOLEAN /\ risk' \subseteq Inode
    BY <1>1 DEF Crash, IInv, TypeOK
  <2> QED BY <1>1, <2>1, <2>2, <2>3, <2>4 DEF TypeOK
<1>3. ASSUME "damaged" \notin history' PROVE Recoverable(dev, {})
  <2>1. risk = {} /\ "damaged" \notin history
    BY <1>1, <1>3
  <2>2. CASE cmd = Idle
    <3>1. FsExists(dev) => Consistent(dev, mem, {}, {}, {}, history)
      BY <1>1, <2>1, <2>2 DEF IInv, Rests
    <3>2. FsExists(dev) => Recoverable(dev, {})
      BY <3>1, ConsistentRecovers
    <3> QED BY <3>2 DEF Recoverable
  <2>3. CASE cmd # Idle
    <3>1. PICK s \in Points : /\ Stands(dev, inflight, s) /\ s.r = risk
                              /\ Secure(history, s)
      BY <2>3 DEF IInv, Working
    <3> QED BY <2>1, <3>1 DEF Secure, Stands, IInv, TypeOK
  <2> QED BY <2>2, <2>3
<1>4. Rests(dev, Load(dev), {}, history')
  <2>1. dev \in Device
    BY DEF IInv, TypeOK
  <2>2. CASE "damaged" \notin history'
    BY <1>1, <1>3, <2>1, <2>2, RecoveredRests
  <2>3. CASE "damaged" \in history'
    BY <2>3 DEF Rests
  <2> QED BY <2>2, <2>3
<1>5. IsCommand'
  BY <1>1, IdleIsCommand DEF IsCommand
<1> QED BY <1>1, <1>2, <1>4, <1>5 DEF IInv

LEMMA DoStopInv == IInv /\ DoStop => IInv'
<1> SUFFICES ASSUME IInv, DoStop PROVE IInv'
  OBVIOUS
<1> DEFINE w == Head(cmd.writes)
<1>1. /\ cmd.writes # <<>> /\ w.area = "stop" /\ ~up' /\ mem' = NoMem /\ cmd' = Idle
      /\ history' = history \cup (IF mem.dirty = {} THEN {} ELSE {"csumLost"})
      /\ UNCHANGED <<dev, inflight, risk, crashes>>
  BY DEF DoStop, NextIs
<1>2. Working /\ w \in Requests /\ cmd.writes \in Seq(Requests)
  BY <1>1, NextPoint
<1>3. PICK s, t, u \in Points :
        /\ Stands(dev, inflight, s) /\ s.r = risk /\ s.up
        /\ Goes(history, w, s, t)
        /\ Leads(history, Tail(cmd.writes), t, u)
        /\ Achieves(cmd.name, cmd.size, mem, history, u)
  BY <1>1, NextPoint
<1>4. s.p = {} /\ s.r = {} /\ t = [s EXCEPT !.up = FALSE]
  BY <1>1, <1>3 DEF Goes, IsWait, IsStop, IsSync, IsAsync, Written
<1>5. ~t.up /\ t.l = s.l
  BY <1>4 DEF Points
<1>6. u = t
  <2>1. Tail(cmd.writes) \in Seq(Requests)
    BY <1>1, <1>2
  <2> QED BY <1>3, <1>5, <2>1, LeadsEnd
<1>7. inflight = {} /\ dev = s.l /\ dev \in Device
  BY <1>3, <1>4, NothingPending DEF IInv, TypeOK
<1>8. Rests(dev, Load(dev), {}, history')
  BY <1>1, <1>3, <1>5, <1>6, <1>7 DEF Achieves
<1>9. TypeOK'
  <2>1. NoMem \in Memory
    BY DEF NoMem, Memory
  <2>2. history' \subseteq {"crashed", "damaged", "csumLost"}
    BY <1>1 DEF IInv, TypeOK
  <2>3. /\ dev' \in Device /\ up' \in BOOLEAN /\ risk' \subseteq Inode
        /\ crashes' \in 0 .. MaxCrashes
    BY <1>1 DEF DoStop, IInv, TypeOK
  <2> QED BY <1>1, <1>7, <2>1, <2>2, <2>3 DEF TypeOK
<1>10. IsCommand'
  BY <1>1, IdleIsCommand DEF IsCommand
<1> QED BY <1>1, <1>3, <1>4, <1>7, <1>8, <1>9, <1>10 DEF IInv

LEMMA BootInv == IInv /\ Boot => IInv'
<1> SUFFICES ASSUME IInv, Boot PROVE IInv'
  OBVIOUS
<1>1. /\ ~up /\ up' /\ up' = TRUE /\ mem' = Load(dev)
      /\ UNCHANGED <<dev, cmd, inflight, risk, history, crashes>>
  BY DEF Boot
<1>2. cmd = Idle /\ inflight = {} /\ risk = {}
  BY <1>1 DEF IInv, TypeOK
<1>3. Load(dev) \in Memory
  BY DEF IInv, TypeOK, Load, Device, Memory
<1>4. TypeOK' /\ IsCommand'
  BY <1>1, <1>3 DEF IInv, TypeOK, IsCommand
<1> QED BY <1>1, <1>2, <1>4 DEF IInv

LEMMA InitInv == Init => IInv
<1> SUFFICES ASSUME Init PROVE IInv
  OBVIOUS
<1>1. Blank \in Device /\ NoMem \in Memory
  <2>1. NoDinode \in Dinodes /\ Zero \in Seq(Word)
    BY DEF NoDinode, Dinode, Dinodes, BlockPtr, Zero
  <2> QED BY <2>1 DEF Blank, Device, NoMem, Memory
<1>2. ~FsExists(Blank)
  BY VolumeAssumption DEF FsExists, Blank, NoDinode, Dinode, Root, Inode
<1>3. TypeOK
  <2>1. crashes \in 0 .. MaxCrashes
    BY VolumeAssumption DEF Init
  <2> QED BY <1>1, <2>1 DEF Init, TypeOK
<1>4. IsCommand
  BY IdleIsCommand DEF Init, IsCommand
<1> QED BY <1>2, <1>3, <1>4 DEF Init, IInv, Rests

-----------------------------------------------------------------------------
(***************************************************************************)
(* Runs and the points they have got to.                                   *)
(***************************************************************************)
Runs == [dev : Device, mem : Memory, ino : [Inode -> Dinodes],
         ind : [Inode -> Seq(Word)], writes : Seq(Requests),
         open : SUBSET Inode, unsaved : SUBSET Inode]

AtRisk(r) == r.open \cup r.unsaved

Safe(h, x, R) == "damaged" \in h \/ Recoverable(x, R)

\* The writes of r lead from s to t.
Led(h, s, r, t) ==
  /\ r \in Runs /\ t \in Points /\ Leads(h, r.writes, s, t)
  /\ t.up /\ t.l = r.dev /\ Covered(t.a, t.l, t.p) /\ \A v \in t.p : Agrees(t.l, v)

\* All that r has written is on the device.
Still(h, s, r) == \E R : Led(h, s, r, On(r.dev, R))

\* The run q is r but for what is on the device, now d.
Wrote(h, s, q, r, d) ==
  /\ Led(h, s, q, On(d, AtRisk(r))) /\ q.dev = d /\ q.writes # <<>>
  /\ q.mem = r.mem /\ q.ino = r.ino /\ q.ind = r.ind
  /\ q.open = r.open /\ q.unsaved = r.unsaved

LEMMA WroteStill ==
  ASSUME NEW h, NEW s, NEW q, NEW r, NEW d, Wrote(h, s, q, r, d)
  PROVE  Still(h, s, q)
BY DEF Wrote, Still

\* Memory changes nothing of what was written.
LEMMA StillWith ==
  ASSUME NEW h, NEW s, NEW r, NEW q \in Runs, Still(h, s, r),
         q.dev = r.dev, q.writes = r.writes
  PROVE  Still(h, s, q)
<1>1. PICK R : Led(h, s, r, On(r.dev, R))
  BY DEF Still
<1>2. Led(h, s, q, On(q.dev, R))
  BY <1>1 DEF Led
<1> QED BY <1>2 DEF Still

LEMMA AtIs ==
  ASSUME NEW n, NEW x
  PROVE  DOMAIN At(n, x) = {n} /\ At(n, x)[n] = x
BY DEF At

Vals == UNION {[S -> Contents] : S \in SUBSET Nat}

LEMMA ValsAre ==
  ASSUME NEW S \in SUBSET Nat, NEW val \in [S -> Contents]
  PROVE  val \in Vals
BY DEF Vals

LEMMA RequestIs ==
  ASSUME NEW r \in Runs, NEW how, NEW area \in Written, NEW val \in Vals
  PROVE  /\ Request(r, how, area, val) \in Requests
         /\ Request(r, how, area, val).area = area /\ Request(r, how, area, val).val = val
         /\ Request(r, how, area, val).sync <=> how = "sync"
         /\ Request(r, how, area, val).risk = AtRisk(r)
BY DEF Request, Requests, Runs, AtRisk, Vals

LEMMA BareRequest ==
  ASSUME NEW r \in Runs, NEW area \in {"wait", "stop"}
  PROVE  /\ Request(r, "sync", area, <<>>) \in Requests
         /\ Request(r, "sync", area, <<>>).area = area
         /\ Request(r, "sync", area, <<>>).risk = AtRisk(r)
<1>1. <<>> \in [{} -> Contents]
  OBVIOUS
<1>2. <<>> \in UNION {[S -> Contents] : S \in SUBSET Nat}
  BY <1>1
<1> QED BY <1>2 DEF Request, Requests, Runs, AtRisk

LEMMA RequestAt ==
  ASSUME NEW r \in Runs, NEW how, NEW area \in Written, NEW n \in Nat, NEW x \in Contents
  PROVE  LET w == Request(r, how, area, At(n, x))
         IN  /\ w \in Requests /\ w.area = area /\ w.val = At(n, x)
             /\ (w.sync <=> how = "sync") /\ w.risk = AtRisk(r)
<1> DEFINE val == At(n, x)
<1>1. {n} \in SUBSET Nat /\ val \in [{n} -> Contents]
  BY DEF At
<1> HIDE DEF val
<1>3. val \in Vals
  BY <1>1, ValsAre
<1>2. /\ Request(r, how, area, val) \in Requests
      /\ Request(r, how, area, val).area = area /\ Request(r, how, area, val).val = val
      /\ Request(r, how, area, val).sync <=> how = "sync"
      /\ Request(r, how, area, val).risk = AtRisk(r)
  BY <1>3, RequestIs
<1> QED BY <1>2 DEF val

LEMMA SecureOn ==
  ASSUME NEW h, NEW d \in Device, NEW R, Safe(h, d, R)
  PROVE  Secure(h, On(d, R))
<1>1. ASSUME NEW x \in Device, Between(x, d, d) PROVE x = d
  BY <1>1, BetweenSame
<1> QED BY <1>1 DEF Secure, Safe, On

LEMMA AppendIs ==
  ASSUME NEW q \in Seq(Requests), NEW w \in Requests
  PROVE  /\ Append(q, w) \in Seq(Requests) /\ Append(q, w) = q \o <<w>>
         /\ Append(q, w) # <<>>
<1>1. Append(q, w) \in Seq(Requests) /\ Len(Append(q, w)) = Len(q) + 1 /\ Len(q) \in Nat
  OBVIOUS
<1>2. Append(q, w) # <<>>
  <2>1. \A z : z = <<>> => Len(z) = 0
    OBVIOUS
  <2> QED BY <1>1, <2>1
<1>3. Append(q, w) = q \o <<w>>
  OBVIOUS
<1> QED BY <1>1, <1>2, <1>3

LEMMA IssueIs ==
  ASSUME NEW r \in Runs, NEW w \in Requests, Put(r.dev, w) \in Device
  PROVE  /\ Issue(r, w) \in Runs
         /\ Issue(r, w).dev = Put(r.dev, w)
         /\ Issue(r, w).writes = r.writes \o <<w>> /\ Issue(r, w).writes # <<>>
         /\ Issue(r, w).mem = r.mem /\ Issue(r, w).ino = r.ino /\ Issue(r, w).ind = r.ind
         /\ Issue(r, w).open = r.open /\ Issue(r, w).unsaved = r.unsaved
<1>1. Append(r.writes, w) \in Seq(Requests) /\ Append(r.writes, w) = r.writes \o <<w>>
      /\ Append(r.writes, w) # <<>>
  BY AppendIs DEF Runs
<1>2. ASSUME NEW d \in Device, NEW q \in Seq(Requests)
      PROVE  LET i == [r EXCEPT !.dev = d, !.writes = q]
             IN  /\ i \in Runs /\ i.dev = d /\ i.writes = q /\ i.mem = r.mem /\ i.ino = r.ino
                 /\ i.ind = r.ind /\ i.open = r.open /\ i.unsaved = r.unsaved
  BY DEF Runs
<1> QED BY <1>1, <1>2 DEF Issue

LEMMA LeadsFurther ==
  ASSUME NEW h, NEW q \in Seq(Requests), NEW w \in Requests, NEW s, NEW t \in Points,
         NEW u \in Points, Leads(h, q, s, t), Goes(h, w, t, u)
  PROVE  Leads(h, q \o <<w>>, s, u)
<1>1. Leads(h, <<w>>, t, u) /\ <<w>> \in Seq(Requests)
  BY LeadsOne
<1> QED BY <1>1, LeadsOn

\* A synchronous write.
LEMMA IssueSync ==
  ASSUME NEW h, NEW s, NEW r, Still(h, s, r), NEW w \in Requests, w.area \in Written, w.sync,
         w.risk = AtRisk(r), Put(r.dev, w) \in Device, Safe(h, Put(r.dev, w), AtRisk(r))
  PROVE  Wrote(h, s, Issue(r, w), r, Put(r.dev, w))
<1>1. PICK R : Led(h, s, r, On(r.dev, R))
  BY DEF Still
<1> DEFINE t == On(r.dev, R)
           d == Put(r.dev, w)
           u == On(d, AtRisk(r))
<1>2. r \in Runs /\ t \in Points /\ u \in Points /\ t.up /\ t.p = {} /\ t.l = r.dev
  BY <1>1, OnPoint DEF Led, On, Runs, AtRisk
<1>3. Goes(h, w, t, u)
  BY <1>2, SecureOn DEF Goes, IsSync
<1>4. Leads(h, r.writes \o <<w>>, s, u)
  BY <1>1, <1>2, <1>3, LeadsFurther DEF Led, Runs
<1>5. Covered(u.a, u.l, u.p) /\ u.up /\ u.l = d /\ u.p = {}
  BY DEF On, Covered
<1> HIDE DEF d, u
<1> QED BY <1>2, <1>4, <1>5, IssueIs DEF Wrote, Led, u, d

\* The request w does not touch what is under way.
Fresh(t, w) == \A v \in t.p : v.area # w.area \/ DOMAIN v.val \cap DOMAIN w.val = {}

Later(t, w) == [t EXCEPT !.l = Put(@, w), !.p = @ \cup {w}, !.r = w.risk]

LEMMA LaterIs ==
  ASSUME NEW t \in Points, NEW w \in Requests, Put(t.l, w) \in Device
  PROVE  /\ Later(t, w) \in Points
         /\ Later(t, w).a = t.a /\ Later(t, w).l = Put(t.l, w)
         /\ Later(t, w).p = t.p \cup {w} /\ Later(t, w).r = w.risk /\ Later(t, w).up = t.up
BY DEF Later, Points, Requests

LEMMA LaterEquals ==
  ASSUME NEW t \in Points, NEW u \in Points, NEW w,
         u.a = t.a, u.l = Put(t.l, w), u.p = t.p \cup {w}, u.r = w.risk, u.up = t.up
  PROVE  u = Later(t, w)
BY DEF Later, Points

\* An asynchronous one, of something else than is under way or once more the
\* same.
LEMMA PutFresh ==
  ASSUME NEW t \in Points, Covered(t.a, t.l, t.p), \A v \in t.p : Agrees(t.l, v),
         NEW w, Fresh(t, w) \/ Agrees(t.l, w), NEW e, After(e, t.l, w)
  PROVE  /\ Between(t.l, t.a, e) /\ Covered(t.a, e, t.p \cup {w})
         /\ \A v \in t.p \cup {w} : Agrees(e, v)
<1>1. CASE Agrees(t.l, w)
  <2>1. /\ e.imap = t.l.imap
        /\ \A b \in Block : /\ b \in e.bmap <=> b \in t.l.bmap
                            /\ e.csum[b] = t.l.csum[b] /\ e.block[b] = t.l.block[b]
        /\ \A i \in Inode : e.node[i] = t.l.node[i]
    BY <1>1 DEF After, Agrees
  <2>2. Between(t.l, t.a, e)
    BY <2>1 DEF Between
  <2>3. Covered(t.a, e, t.p \cup {w})
    BY <2>1 DEF Covered
  <2>4. \A v \in t.p \cup {w} : Agrees(e, v)
    BY <1>1, <2>1 DEF Agrees
  <2> QED BY <2>2, <2>3, <2>4
<1>2. CASE Fresh(t, w)
  <2>1. /\ Hits(w, "imap", 0) => t.a.imap = t.l.imap
        /\ \A b \in Block : /\ Hits(w, "bmap", Group(b)) => (b \in t.a.bmap <=> b \in t.l.bmap)
                            /\ Hits(w, "csum", Group(b)) => t.a.csum[b] = t.l.csum[b]
                            /\ Hits(w, "block", b) => t.a.block[b] = t.l.block[b]
        /\ \A i \in Inode : Hits(w, "inodes", InodeBlock(i)) => t.a.node[i] = t.l.node[i]
    BY <1>2 DEF Fresh, Covered, Hits
  <2>2. Between(t.l, t.a, e)
    BY <2>1 DEF Between, After
  <2>3. Covered(t.a, e, t.p \cup {w})
    <3>1. t.a.imap # e.imap => \E v \in t.p \cup {w} : Hits(v, "imap", 0)
      BY DEF Covered, After
    <3>2. ASSUME NEW b \in Block
          PROVE  /\ ~(b \in t.a.bmap <=> b \in e.bmap) =>
                      \E v \in t.p \cup {w} : Hits(v, "bmap", Group(b))
                 /\ t.a.csum[b] # e.csum[b] => \E v \in t.p \cup {w} : Hits(v, "csum", Group(b))
                 /\ t.a.block[b] # e.block[b] => \E v \in t.p \cup {w} : Hits(v, "block", b)
      BY DEF Covered, After
    <3>3. ASSUME NEW i \in Inode
          PROVE  t.a.node[i] # e.node[i] => \E v \in t.p \cup {w} : Hits(v, "inodes", InodeBlock(i))
      BY DEF Covered, After
    <3> QED BY <3>1, <3>2, <3>3 DEF Covered
  <2>4. Agrees(e, w)
    BY DEF Agrees, After
  <2>5. ASSUME NEW v \in t.p PROVE Agrees(e, v)
    <3>1. \A area, n : ~(Hits(v, area, n) /\ Hits(w, area, n))
      BY <1>2 DEF Fresh, Hits
    <3>2. Agrees(t.l, v)
      OBVIOUS
    <3> QED BY <3>1, <3>2 DEF Agrees, After
  <2> QED BY <2>2, <2>3, <2>4, <2>5
<1> QED BY <1>1, <1>2

LEMMA IssueAsync ==
  ASSUME NEW h, NEW s, NEW r, NEW t, Led(h, s, r, t), NEW w \in Requests, w.area \in Written,
         ~w.sync, Put(r.dev, w) \in Device, Fresh(t, w) \/ Agrees(r.dev, w),
         \A x \in Device : Between(x, t.a, Put(r.dev, w)) => Safe(h, x, w.risk)
  PROVE  Led(h, s, Issue(r, w), Later(t, w)) /\ Later(t, w).l = Put(r.dev, w)
<1>1. r \in Runs /\ t \in Points /\ t.up /\ t.l = r.dev /\ Covered(t.a, t.l, t.p)
      /\ \A v \in t.p : Agrees(t.l, v)
  BY DEF Led
<1>2. After(Put(t.l, w), t.l, w)
  BY <1>1, PutAt DEF Points
<1>3. /\ Between(t.l, t.a, Put(t.l, w)) /\ Covered(t.a, Put(t.l, w), t.p \cup {w})
      /\ \A v \in t.p \cup {w} : Agrees(Put(t.l, w), v)
  BY <1>1, <1>2, PutFresh
<1> DEFINE u == Later(t, w)
<1>4. u \in Points /\ u.a = t.a /\ u.l = Put(t.l, w) /\ u.p = t.p \cup {w} /\ u.r = w.risk /\ u.up
  BY <1>1, LaterIs
<1>5. IsAsync(w, t, u)
  <2>1. u = [t EXCEPT !.l = Put(@, w), !.p = @ \cup {w}, !.r = w.risk]
    BY DEF Later
  <2> HIDE DEF u
  <2> QED BY <1>3, <1>4, <2>1 DEF IsAsync
<1> HIDE DEF u
<1>6. Secure(h, u)
  BY <1>1, <1>4 DEF Secure, Safe
<1>7. Goes(h, w, t, u)
  BY <1>1, <1>5, <1>6 DEF Goes
<1>8. Leads(h, r.writes \o <<w>>, s, u)
  <2>1. Leads(h, r.writes, s, t) /\ r.writes \in Seq(Requests)
    BY DEF Led, Runs
  <2> QED BY <1>1, <1>4, <1>7, <2>1, LeadsFurther
<1>9. Led(h, s, Issue(r, w), u) /\ u.l = Put(r.dev, w)
  BY <1>1, <1>3, <1>4, <1>8, IssueIs DEF Led
<1> QED BY <1>9 DEF u

\* All that is under way lands.
LEMMA WaitWrote ==
  ASSUME NEW h, NEW s, NEW r, NEW t, Led(h, s, r, t), Safe(h, r.dev, AtRisk(r))
  PROVE  Wrote(h, s, SpinWait(r), r, r.dev)
<1> DEFINE w == Request(r, "sync", "wait", <<>>)
           u == On(r.dev, AtRisk(r))
<1>1. r \in Runs /\ t \in Points /\ t.up /\ t.l = r.dev /\ r.dev \in Device /\ u \in Points
  BY OnPoint DEF Led, Runs, AtRisk
<1>2. w \in Requests /\ w.area = "wait" /\ w.risk = AtRisk(r)
  BY <1>1, BareRequest
<1>3. w.area \notin Written
  BY <1>2 DEF Written
<1>4. SpinWait(r) = Issue(r, w)
  BY DEF SpinWait
<1>5. IsWait(w, t, u)
  BY <1>1, <1>2 DEF IsWait
<1> HIDE DEF w
<1>6. Goes(h, w, t, u)
  BY <1>1, <1>5, SecureOn DEF Goes
<1>7. Leads(h, r.writes \o <<w>>, s, u)
  <2>1. Leads(h, r.writes, s, t) /\ r.writes \in Seq(Requests)
    BY DEF Led, Runs
  <2> QED BY <1>1, <1>2, <1>6, <2>1, LeadsFurther
<1>8. Put(r.dev, w) = r.dev
  BY <1>3, PutNothing
<1>9. Covered(u.a, u.l, u.p) /\ u.up /\ u.l = r.dev /\ u.p = {}
  BY DEF On, Covered
<1> HIDE DEF u
<1>10. Wrote(h, s, Issue(r, w), r, r.dev)
  BY <1>1, <1>2, <1>7, <1>8, <1>9, IssueIs DEF Wrote, Led, u
<1> QED BY <1>4, <1>10

-----------------------------------------------------------------------------
(***************************************************************************)
(* What the writes of the five areas put on a device.                      *)
(***************************************************************************)
Filled(d, b, x)   == [d EXCEPT !.block = [c \in Block |-> IF c = b THEN x ELSE d.block[c]]]
Marked(d, m, G)   == [d EXCEPT !.bmap = {b \in Block : IF Group(b) \in G THEN b \in m.bmap
                                                      ELSE b \in d.bmap}]
Summed(d, m, G)   == [d EXCEPT !.csum = [b \in Block |-> IF Group(b) \in G THEN m.csum[b]
                                                        ELSE d.csum[b]]]
Noded(d, ino, S)  == [d EXCEPT !.node = [i \in Inode |-> IF i \in S THEN ino[i]
                                                        ELSE d.node[i]]]
Numbered(d, I)    == [d EXCEPT !.imap = I]

LEMMA FilledDevice ==
  ASSUME NEW d \in Device, NEW b, NEW x \in Seq(Word)
  PROVE  Filled(d, b, x) \in Device
<1>1. [c \in Block |-> IF c = b THEN x ELSE d.block[c]] \in [Block -> Seq(Word)]
  BY DEF Device
<1> QED BY <1>1 DEF Filled, Device

LEMMA MarkedDevice ==
  ASSUME NEW d \in Device, NEW m \in Memory, NEW G
  PROVE  Marked(d, m, G) \in Device
BY DEF Marked, Device

LEMMA SummedDevice ==
  ASSUME NEW d \in Device, NEW m \in Memory, NEW G
  PROVE  Summed(d, m, G) \in Device
<1>1. [b \in Block |-> IF Group(b) \in G THEN m.csum[b] ELSE d.csum[b]] \in [Block -> SUBSET Bit]
  BY DEF Device, Memory
<1> QED BY <1>1 DEF Summed, Device

LEMMA NodedDevice ==
  ASSUME NEW d \in Device, NEW ino \in [Inode -> Dinodes], NEW S
  PROVE  Noded(d, ino, S) \in Device
<1>1. [i \in Inode |-> IF i \in S THEN ino[i] ELSE d.node[i]] \in [Inode -> Dinodes]
  BY DEF Device
<1> QED BY <1>1 DEF Noded, Device

LEMMA NumberedDevice ==
  ASSUME NEW d \in Device, NEW I \in SUBSET Inode
  PROVE  Numbered(d, I) \in Device
BY DEF Numbered, Device

\* What each leaves as it is.
LEMMA FilledIs ==
  ASSUME NEW d \in Device, NEW b, NEW x
  PROVE  /\ Filled(d, b, x).imap = d.imap /\ Filled(d, b, x).bmap = d.bmap
         /\ Filled(d, b, x).csum = d.csum /\ Filled(d, b, x).node = d.node
         /\ Filled(d, b, x).block = [c \in Block |-> IF c = b THEN x ELSE d.block[c]]
BY DEF Filled, Device

LEMMA MarkedIs ==
  ASSUME NEW d \in Device, NEW m, NEW G
  PROVE  /\ Marked(d, m, G).imap = d.imap /\ Marked(d, m, G).csum = d.csum
         /\ Marked(d, m, G).node = d.node /\ Marked(d, m, G).block = d.block
         /\ Marked(d, m, G).bmap = {b \in Block : IF Group(b) \in G THEN b \in m.bmap
                                                  ELSE b \in d.bmap}
BY DEF Marked, Device

LEMMA SummedIs ==
  ASSUME NEW d \in Device, NEW m, NEW G
  PROVE  /\ Summed(d, m, G).imap = d.imap /\ Summed(d, m, G).bmap = d.bmap
         /\ Summed(d, m, G).node = d.node /\ Summed(d, m, G).block = d.block
         /\ Summed(d, m, G).csum = [b \in Block |-> IF Group(b) \in G THEN m.csum[b]
                                                    ELSE d.csum[b]]
BY DEF Summed, Device

LEMMA NodedIs ==
  ASSUME NEW d \in Device, NEW ino, NEW S
  PROVE  /\ Noded(d, ino, S).imap = d.imap /\ Noded(d, ino, S).bmap = d.bmap
         /\ Noded(d, ino, S).csum = d.csum /\ Noded(d, ino, S).block = d.block
         /\ Noded(d, ino, S).node = [i \in Inode |-> IF i \in S THEN ino[i] ELSE d.node[i]]
BY DEF Noded, Device

LEMMA NumberedIs ==
  ASSUME NEW d \in Device, NEW I
  PROVE  /\ Numbered(d, I).bmap = d.bmap /\ Numbered(d, I).csum = d.csum
         /\ Numbered(d, I).node = d.node /\ Numbered(d, I).block = d.block
         /\ Numbered(d, I).imap = I
BY DEF Numbered, Device

LEMMA PutFilled ==
  ASSUME NEW d \in Device, NEW w, NEW b, NEW x, w.area = "block", w.val = At(b, x)
  PROVE  Put(d, w) = Filled(d, b, x)
<1>0. DOMAIN w.val = {b} /\ w.val[b] = x
  BY AtIs
<1>1. \A c \in Block : Hits(w, "block", c) <=> c = b
  BY <1>0 DEF Hits
<1> DEFINE B == [c \in Block |-> IF Hits(w, "block", c) THEN w.val[c] ELSE d.block[c]]
           C == [c \in Block |-> IF c = b THEN x ELSE d.block[c]]
<1>2. \A c \in Block : (IF Hits(w, "block", c) THEN w.val[c] ELSE d.block[c])
                       = (IF c = b THEN x ELSE d.block[c])
  BY <1>0, <1>1
<1>3. B = C
  BY <1>2
<1>4. Put(d, w) = [d EXCEPT !.block = B]
  BY DEF Put
<1> QED BY <1>3, <1>4 DEF Filled

LEMMA PutNumbered ==
  ASSUME NEW d \in Device, NEW w, NEW I, w.area = "imap", w.val = At(0, I)
  PROVE  Put(d, w) = Numbered(d, I)
BY ZenonT(40), AtIs DEF Put, Hits, Numbered, Device

LEMMA PutMarked ==
  ASSUME NEW d \in Device, NEW w, NEW m, NEW G, w.area = "bmap", DOMAIN w.val = G,
         \A g \in G : w.val[g] = m.bmap \cap InGroup(g)
  PROVE  Put(d, w) = Marked(d, m, G)
<1>1. \A b \in Block : Hits(w, "bmap", Group(b)) <=> Group(b) \in G
  BY DEF Hits
<1>2. \A b \in Block : Group(b) \in G => (b \in w.val[Group(b)] <=> b \in m.bmap)
  BY DEF InGroup
<1> DEFINE B == {b \in Block : IF Hits(w, "bmap", Group(b)) THEN b \in w.val[Group(b)] ELSE b \in d.bmap}
           C == {b \in Block : IF Group(b) \in G THEN b \in m.bmap ELSE b \in d.bmap}
<1>3. B = C
  BY <1>1, <1>2
<1>4. Put(d, w) = [d EXCEPT !.bmap = B]
  BY DEF Put
<1> QED BY <1>3, <1>4 DEF Marked

LEMMA PutSummed ==
  ASSUME NEW d \in Device, NEW w, NEW m, NEW G, w.area = "csum", DOMAIN w.val = G,
         \A g \in G : \A b \in InGroup(g) : w.val[g][b] = m.csum[b]
  PROVE  Put(d, w) = Summed(d, m, G)
<1>1. \A b \in Block : Hits(w, "csum", Group(b)) <=> Group(b) \in G
  BY DEF Hits
<1>2. \A b \in Block : Group(b) \in G => w.val[Group(b)][b] = m.csum[b]
  BY DEF InGroup
<1> DEFINE B == [b \in Block |-> IF Hits(w, "csum", Group(b)) THEN w.val[Group(b)][b] ELSE d.csum[b]]
           C == [b \in Block |-> IF Group(b) \in G THEN m.csum[b] ELSE d.csum[b]]
<1>3. B = C
  BY <1>1, <1>2
<1>4. Put(d, w) = [d EXCEPT !.csum = B]
  BY DEF Put
<1> QED BY <1>3, <1>4 DEF Summed

LEMMA PutNoded ==
  ASSUME NEW d \in Device, NEW w, NEW ino, NEW S \in SUBSET Inode, w.area = "inodes",
         \A i \in S : InodeBlock(i) \in DOMAIN w.val,
         \A g \in DOMAIN w.val : w.val[g] = [i \in InBlock(g) |-> IF i \in S THEN ino[i] ELSE d.node[i]]
  PROVE  Put(d, w) = Noded(d, ino, S)
<1>1. \A i \in Inode : InodeBlock(i) \in DOMAIN w.val =>
        w.val[InodeBlock(i)][i] = IF i \in S THEN ino[i] ELSE d.node[i]
  BY ZenonT(40) DEF InBlock
<1> DEFINE B == [i \in Inode |-> IF Hits(w, "inodes", InodeBlock(i)) THEN w.val[InodeBlock(i)][i]
                                ELSE d.node[i]]
           C == [i \in Inode |-> IF i \in S THEN ino[i] ELSE d.node[i]]
<1>2. B = C
  BY <1>1 DEF Hits
<1>3. Put(d, w) = [d EXCEPT !.node = B]
  BY DEF Put
<1> QED BY <1>2, <1>3 DEF Noded

LEMMA Numbers ==
  /\ \A b \in Block : Group(b) \in Nat
  /\ \A i \in Inode : InodeBlock(i) \in Nat
  /\ Block \in SUBSET Nat /\ Inode \in SUBSET Nat /\ Groups \in SUBSET Nat
  /\ Root \in Inode
<1>1. \A b \in Block : Group(b) \in Nat
  BY VolumeAssumption DEF Block, Group
<1>2. \A i \in Inode : InodeBlock(i) \in Nat
  BY VolumeAssumption DEF Inode, InodeBlock
<1>3. Block \in SUBSET Nat /\ Inode \in SUBSET Nat /\ Root \in Inode
  BY VolumeAssumption DEF Block, Inode, Root
<1> QED BY <1>1, <1>2, <1>3 DEF Groups

LEMMA ContentsAre ==
  /\ SUBSET Inode \subseteq Contents /\ SUBSET Block \subseteq Contents
  /\ Seq(Word) \subseteq Contents
  /\ \A S \in SUBSET Block : [S -> SUBSET Bit] \subseteq Contents
  /\ \A S \in SUBSET Inode : [S -> Dinodes] \subseteq Contents
<1>1. SUBSET Inode \subseteq Contents /\ SUBSET Block \subseteq Contents
      /\ Seq(Word) \subseteq Contents
  BY DEF Contents
<1>2. ASSUME NEW S \in SUBSET Block, NEW f \in [S -> SUBSET Bit] PROVE f \in Contents
  <2>1. f \in Sums
    BY DEF Sums
  <2> QED BY <2>1 DEF Contents
<1>3. ASSUME NEW S \in SUBSET Inode, NEW f \in [S -> Dinodes] PROVE f \in Contents
  <2>1. f \in Nodes
    BY DEF Nodes
  <2> QED BY <2>1 DEF Contents
<1> QED BY <1>1, <1>2, <1>3

\* One block of an area.
LEMMA SyncIs ==
  ASSUME NEW h, NEW s, NEW r, Still(h, s, r), NEW area \in Written, NEW n \in Nat,
         NEW x \in Contents, NEW d \in Device, d = Put(r.dev, Request(r, "sync", area, At(n, x))),
         Safe(h, d, AtRisk(r))
  PROVE  Wrote(h, s, WriteSync(r, area, n, x), r, d)
<1> DEFINE w == Request(r, "sync", area, At(n, x))
<1>1. r \in Runs
  BY DEF Still, Led
<1>2. w \in Requests /\ w.area = area /\ w.sync /\ w.risk = AtRisk(r)
  BY <1>1, RequestAt
<1>3. WriteSync(r, area, n, x) = Issue(r, w)
  BY DEF WriteSync, Write
<1>4. d = Put(r.dev, w)
  OBVIOUS
<1> HIDE DEF w
<1>5. Wrote(h, s, Issue(r, w), r, d)
  BY <1>2, <1>4, IssueSync
<1> QED BY <1>3, <1>5

LEMMA FilledWrote ==
  ASSUME NEW h, NEW s, NEW r, Still(h, s, r), NEW b \in Block, NEW x \in Seq(Word),
         Safe(h, Filled(r.dev, b, x), AtRisk(r))
  PROVE  Wrote(h, s, WriteSync(r, "block", b, x), r, Filled(r.dev, b, x))
<1> DEFINE w == Request(r, "sync", "block", At(b, x))
           d == Filled(r.dev, b, x)
<1>1. r \in Runs /\ r.dev \in Device
  BY DEF Still, Led, Runs
<1>2. d \in Device
  BY <1>1, FilledDevice
<1>3. b \in Nat /\ x \in Contents /\ "block" \in Written
  BY Numbers, ContentsAre DEF Written
<1>4. w.area = "block" /\ w.val = At(b, x)
  BY <1>1, <1>3, RequestAt
<1>5. d = Put(r.dev, w)
  BY <1>1, <1>4, PutFilled
<1> QED BY <1>2, <1>3, <1>5, SyncIs

LEMMA NumberedWrote ==
  ASSUME NEW h, NEW s, NEW r, Still(h, s, r), NEW I \in SUBSET Inode,
         Safe(h, Numbered(r.dev, I), AtRisk(r))
  PROVE  Wrote(h, s, WriteSync(r, "imap", 0, I), r, Numbered(r.dev, I))
<1> DEFINE w == Request(r, "sync", "imap", At(0, I))
           d == Numbered(r.dev, I)
<1>1. r \in Runs /\ r.dev \in Device
  BY DEF Still, Led, Runs
<1>2. d \in Device
  BY <1>1, NumberedDevice
<1>3. I \in Contents /\ "imap" \in Written
  BY ContentsAre DEF Written
<1>4. w.area = "imap" /\ w.val = At(0, I)
  BY <1>1, <1>3, RequestAt
<1>5. d = Put(r.dev, w)
  BY <1>1, <1>4, PutNumbered
<1> QED BY <1>2, <1>3, <1>5, SyncIs

\* testfs_write_block_freemap
LEMMA MarkedWrote ==
  ASSUME NEW h, NEW s, NEW r, Still(h, s, r), NEW b \in Block,
         Safe(h, Marked(r.dev, r.mem, {Group(b)}), AtRisk(r))
  PROVE  Wrote(h, s, WriteBlockFreemap(r, b), r, Marked(r.dev, r.mem, {Group(b)}))
<1> DEFINE x == BmapOf(r, Group(b))
           w == Request(r, "sync", "bmap", At(Group(b), x))
           d == Marked(r.dev, r.mem, {Group(b)})
<1>1. r \in Runs /\ r.dev \in Device /\ r.mem \in Memory
  BY DEF Still, Led, Runs
<1>2. d \in Device
  BY <1>1, MarkedDevice
<1>3. Group(b) \in Nat /\ x \in Contents /\ "bmap" \in Written
  BY <1>1, Numbers, ContentsAre DEF Written, BmapOf, Memory
<1>4. w.area = "bmap" /\ w.val = At(Group(b), x)
  BY <1>1, <1>3, RequestAt
<1>5. d = Put(r.dev, w)
  <2>1. DOMAIN w.val = {Group(b)} /\ \A g \in {Group(b)} : w.val[g] = r.mem.bmap \cap InGroup(g)
    BY <1>4, AtIs DEF BmapOf
  <2> HIDE DEF w
  <2> QED BY <1>1, <1>4, <2>1, PutMarked
<1> QED BY <1>2, <1>3, <1>5, SyncIs DEF WriteBlockFreemap

LEMMA SummedWrote ==
  ASSUME NEW h, NEW s, NEW r, Still(h, s, r), NEW b \in Block,
         Safe(h, Summed(r.dev, r.mem, {Group(b)}), AtRisk(r))
  PROVE  Wrote(h, s, WriteSync(r, "csum", Group(b), CsumOf(r, Group(b))), r,
               Summed(r.dev, r.mem, {Group(b)}))
<1> DEFINE x == CsumOf(r, Group(b))
           w == Request(r, "sync", "csum", At(Group(b), x))
           d == Summed(r.dev, r.mem, {Group(b)})
<1>1. r \in Runs /\ r.dev \in Device /\ r.mem \in Memory
  BY DEF Still, Led, Runs
<1>2. d \in Device
  BY <1>1, SummedDevice
<1>3. Group(b) \in Nat /\ "csum" \in Written
  BY Numbers DEF Written
<1>4. x \in Contents
  <2>1. InGroup(Group(b)) \in SUBSET Block
    BY DEF InGroup
  <2>2. x \in [InGroup(Group(b)) -> SUBSET Bit]
    BY <1>1, <2>1 DEF CsumOf, Memory
  <2> QED BY <2>1, <2>2, ContentsAre
<1>5. w.area = "csum" /\ w.val = At(Group(b), x)
  BY <1>1, <1>3, <1>4, RequestAt
<1>6. d = Put(r.dev, w)
  <2>1. /\ DOMAIN w.val = {Group(b)}
        /\ \A g \in {Group(b)} : w.val[g] = [c \in InGroup(g) |-> r.mem.csum[c]]
    BY <1>5, AtIs DEF CsumOf
  <2> HIDE DEF w
  <2> QED BY <1>1, <1>5, <2>1, PutSummed
<1> QED BY <1>2, <1>3, <1>4, <1>6, SyncIs

\* The dinode of i, in testfs_sync_inode.
LEMMA NodedWrote ==
  ASSUME NEW h, NEW s, NEW r, Still(h, s, r), NEW i \in Inode,
         Safe(h, Noded(r.dev, r.ino, {i}), AtRisk(r))
  PROVE  Wrote(h, s, WriteSync(r, "inodes", InodeBlock(i), WithDinodes(r, InodeBlock(i), {i})), r,
               Noded(r.dev, r.ino, {i}))
<1> DEFINE g == InodeBlock(i)
           x == WithDinodes(r, g, {i})
           w == Request(r, "sync", "inodes", At(g, x))
           d == Noded(r.dev, r.ino, {i})
<1>1. r \in Runs /\ r.dev \in Device /\ r.ino \in [Inode -> Dinodes]
  BY DEF Still, Led, Runs
<1>2. d \in Device
  BY <1>1, NodedDevice
<1>3. g \in Nat /\ "inodes" \in Written
  BY Numbers DEF Written
<1>4. x \in Contents
  <2>1. InBlock(g) \in SUBSET Inode
    BY DEF InBlock
  <2>2. x \in [InBlock(g) -> Dinodes]
    BY <1>1, <2>1 DEF WithDinodes, Device
  <2> QED BY <2>1, <2>2, ContentsAre
<1>5. w.area = "inodes" /\ w.val = At(g, x)
  BY <1>1, <1>3, <1>4, RequestAt
<1>6. d = Put(r.dev, w)
  <2>1. /\ DOMAIN w.val = {g} /\ {i} \in SUBSET Inode
        /\ \A f \in {g} : w.val[f] = [j \in InBlock(f) |-> IF j \in {i} THEN r.ino[j] ELSE r.dev.node[j]]
    BY <1>5, AtIs DEF WithDinodes
  <2> HIDE DEF w
  <2> QED BY <1>1, <1>5, <2>1, PutNoded
<1> QED BY <1>2, <1>3, <1>4, <1>6, SyncIs

-----------------------------------------------------------------------------
(***************************************************************************)
(* Several blocks of an area, in their order.                              *)
(***************************************************************************)

LEMMA LeastNumber ==
  ASSUME NEW S, S \subseteq Nat, S # {}
  PROVE  \E x \in S : \A y \in S : x <= y
<1>1. OpToRel(<, Nat) = {ss \in Nat \X Nat : ss[1] < ss[2]}
  BY DEF OpToRel
<1>2. PICK x \in S : \A y \in S : ~(<<y, x>> \in {ss \in Nat \X Nat : ss[1] < ss[2]})
  BY <1>1, NatLessThanWellFounded, WFMin, ZenonT(60)
<1>3. ASSUME NEW y \in S PROVE x <= y
  <2>1. <<y, x>> \in Nat \X Nat
    OBVIOUS
  <2>2. ~(<<y, x>>[1] < <<y, x>>[2])
    BY <1>2, <2>1
  <2> QED BY <2>2
<1> QED BY <1>3

\* A finite set of numbers can be listed in order.
LEMMA AscendingIs ==
  ASSUME NEW S \in SUBSET Nat, IsFiniteSet(S)
  PROVE  /\ Cardinality(S) \in Nat /\ Ascending(S) \in [1 .. Cardinality(S) -> S]
         /\ \A j, k \in 1 .. Cardinality(S) : j < k => Ascending(S)[j] < Ascending(S)[k]
         /\ \A x \in S : \E k \in 1 .. Cardinality(S) : Ascending(S)[k] = x
<1> DEFINE n       == Cardinality(S)
           upto(x) == {y \in S : y <= x}
           rank    == [x \in S |-> Cardinality(upto(x))]
           Up(f)   == f \in [1 .. n -> S] /\ \A j, k \in 1 .. n : j < k => f[j] < f[k]
<1>1. n \in Nat /\ IsFiniteSet(1 .. n) /\ Cardinality(1 .. n) = n
  BY FS_CardinalityType, FS_Interval
<1>2. ASSUME NEW x \in S
      PROVE  IsFiniteSet(upto(x)) /\ Cardinality(upto(x)) \in 1 .. n
  <2>1. upto(x) \in SUBSET S /\ x \in upto(x)
    OBVIOUS
  <2>2. IsFiniteSet(upto(x)) /\ Cardinality(upto(x)) <= n
    BY <2>1, FS_Subset
  <2>3. Cardinality(upto(x)) \in Nat /\ Cardinality(upto(x)) # 0
    BY <2>1, <2>2, FS_CardinalityType, FS_EmptySet
  <2> QED BY <1>1, <2>2, <2>3
<1>3. rank \in [S -> 1 .. n]
  BY <1>2
<1>4. ASSUME NEW x \in S, NEW y \in S, x < y
      PROVE  rank[x] < rank[y]
  <2>1. upto(x) \in SUBSET upto(y) /\ y \in upto(y) /\ y \notin upto(x)
    <3>1. x \in Nat /\ y \in Nat /\ \A z \in S : z \in Nat
      OBVIOUS
    <3>2. \A z \in S : z <= x => z <= y
      BY <1>4, <3>1
    <3>3. y <= y /\ ~(y <= x)
      BY <1>4, <3>1
    <3> QED BY <3>2, <3>3
  <2>2. /\ Cardinality(upto(x)) <= Cardinality(upto(y))
        /\ Cardinality(upto(x)) = Cardinality(upto(y)) => upto(x) = upto(y)
    BY <1>2, <2>1, FS_Subset
  <2>3. Cardinality(upto(x)) # Cardinality(upto(y))
    BY <2>1, <2>2
  <2>4. Cardinality(upto(x)) \in Nat /\ Cardinality(upto(y)) \in Nat
    <3>1. Cardinality(upto(x)) \in 1 .. n /\ Cardinality(upto(y)) \in 1 .. n
      BY <1>2
    <3> QED BY <1>1, <3>1
  <2>5. Cardinality(upto(x)) < Cardinality(upto(y))
    BY <2>2, <2>3, <2>4
  <2> QED BY <2>5
<1> HIDE DEF rank, upto
<1>5. rank \in Injection(S, 1 .. n)
  <2>1. ASSUME NEW x \in S, NEW y \in S, rank[x] = rank[y] PROVE x = y
    <3>1. x \in Nat /\ y \in Nat /\ rank[x] \in Nat /\ rank[y] \in Nat
      BY <1>3
    <3>2. ~(x < y) /\ ~(y < x)
      BY <1>4, <2>1, <3>1
    <3> QED BY <3>1, <3>2
  <2> QED BY <1>3, <2>1 DEF Injection, IsInjective
<1>6. rank \in Surjection(S, 1 .. n)
  BY <1>1, <1>5, FS_Injection
<1> DEFINE f == [k \in 1 .. n |-> CHOOSE x \in S : rank[x] = k]
<1>7. \A k \in 1 .. n : f[k] \in S /\ rank[f[k]] = k
  BY <1>6 DEF Surjection
<1>8. Up(f)
  <2>1. f \in [1 .. n -> S]
    BY <1>7
  <2>2. ASSUME NEW j \in 1 .. n, NEW k \in 1 .. n, j < k PROVE f[j] < f[k]
    <3> HIDE DEF f
    <3>1. f[j] \in Nat /\ f[k] \in Nat /\ f[j] \in S /\ f[k] \in S
      BY <1>7
    <3>2. ~(f[k] < f[j]) /\ f[j] # f[k]
      BY <1>1, <1>4, <1>7, <2>2, <3>1
    <3> QED BY <3>1, <3>2
  <2> QED BY <2>1, <2>2
<1>9. Ascending(S) = CHOOSE g : Up(g)
  BY DEF Ascending
<1> HIDE DEF f, Up
<1>10. Up(Ascending(S))
  BY <1>8, <1>9
<1> DEFINE a == Ascending(S)
<1>11. a \in [1 .. n -> S] /\ \A j, k \in 1 .. n : j < k => a[j] < a[k]
  BY <1>10 DEF Up
<1> HIDE DEF a
<1>12. a \in Injection(1 .. n, S)
  <2>1. ASSUME NEW j \in 1 .. n, NEW k \in 1 .. n, a[j] = a[k] PROVE j = k
    <3>1. a[j] \in Nat /\ a[k] \in Nat
      BY <1>11
    <3>2. ~(j < k) /\ ~(k < j)
      BY <1>11, <2>1, <3>1
    <3> QED BY <1>1, <3>2
  <2> QED BY <1>11, <2>1 DEF Injection, IsInjective
<1>13. a \in Surjection(1 .. n, S)
  BY <1>1, <1>12, FS_Injection
<1>14. \A x \in S : \E k \in 1 .. n : a[k] = x
  BY <1>13 DEF Surjection
<1> QED BY <1>1, <1>11, <1>14 DEF a

\* The request w, of the blocks in P alone.
Part(w, P) == [w EXCEPT !.val = [n \in P |-> w.val[n]]]

LEMMA PartIs ==
  ASSUME NEW w \in Requests, NEW P \in SUBSET DOMAIN w.val
  PROVE  /\ Part(w, P).area = w.area /\ DOMAIN Part(w, P).val = P
         /\ \A n \in P : Part(w, P).val[n] = w.val[n]
         /\ Part(w, P).risk = w.risk /\ Part(w, P).sync = w.sync
BY DEF Part, Requests

LEMMA LessAgrees ==
  ASSUME NEW l, NEW p, NEW q, Agrees(l, p), q.area = p.area, DOMAIN q.val \subseteq DOMAIN p.val,
         \A n \in DOMAIN q.val : q.val[n] = p.val[n]
  PROVE  Agrees(l, q)
BY DEF Agrees, Hits

LEMMA PartAgrees ==
  ASSUME NEW l, NEW w \in Requests, NEW P \in SUBSET DOMAIN w.val, Agrees(l, w)
  PROVE  Agrees(l, Part(w, P))
BY PartIs DEF Agrees, Hits

\* Nothing, and all of it.
LEMMA PartNothing ==
  ASSUME NEW d \in Device, NEW w \in Requests, DOMAIN w.val = {}
  PROVE  Put(d, w) = d
<1>1. After(Put(d, w), d, w) /\ \A area, n : ~Hits(w, area, n)
  BY PutAt DEF Hits
<1>2. Agrees(d, w)
  BY <1>1 DEF Agrees
<1>3. Put(d, w) \in Device
  BY <1>2, PutOnWay
<1> QED BY <1>1, <1>3, SameDevice DEF After

\* One block more.
LEMMA PartMore ==
  ASSUME NEW d \in Device, NEW w \in Requests, Put(d, w) \in Device,
         NEW P, P \subseteq DOMAIN w.val, NEW n, n \in DOMAIN w.val,
         NEW v, v.area = w.area, v.val = At(n, w.val[n])
  PROVE  Put(Put(d, Part(w, P)), v) = Put(d, Part(w, P \cup {n}))
<1> DEFINE l == Put(d, w)
           e == Put(d, Part(w, P))
           o == Put(d, Part(w, P \cup {n}))
           z == Put(e, v)
<1>1. Agrees(l, w) /\ P \cup {n} \in SUBSET DOMAIN w.val
  BY PutAgrees
<1>2. Agrees(l, Part(w, P)) /\ Agrees(l, Part(w, P \cup {n}))
  BY <1>1, PartAgrees
<1>3. e \in Device /\ Between(e, d, l) /\ o \in Device
  BY <1>2, PutOnWay
<1>4. DOMAIN v.val = {n} /\ v.val[n] = w.val[n]
  BY AtIs
<1>5. Agrees(l, v)
  BY <1>1, <1>4 DEF Agrees, Hits
<1>6. z \in Device
  BY <1>3, <1>5, PutOnWay
<1>7. After(e, d, Part(w, P)) /\ After(o, d, Part(w, P \cup {n})) /\ After(z, e, v)
  BY <1>3, PutAt
<1> HIDE DEF e, o, z, l
<1> DEFINE p == Part(w, P)
           q == Part(w, P \cup {n})
<1>8. /\ \A area, m : Hits(p, area, m) <=> area = w.area /\ m \in P
      /\ \A area, m : Hits(q, area, m) <=> area = w.area /\ m \in P \cup {n}
      /\ \A area, m : Hits(v, area, m) <=> area = w.area /\ m = n
  BY <1>1, <1>4, PartIs DEF Hits
<1>9. /\ \A m \in P : p.val[m] = w.val[m]
      /\ \A m \in P \cup {n} : q.val[m] = w.val[m]
  BY <1>1, PartIs
<1>10. After(e, d, p) /\ After(o, d, q)
  BY <1>7
<1> HIDE DEF p, q
<1>11. z.imap = o.imap
  BY <1>4, <1>7, <1>8, <1>9, <1>10 DEF After
<1>12. ASSUME NEW b \in Block
       PROVE  (b \in z.bmap <=> b \in o.bmap) /\ z.csum[b] = o.csum[b] /\ z.block[b] = o.block[b]
  BY <1>4, <1>7, <1>8, <1>9, <1>10 DEF After
<1>13. ASSUME NEW i \in Inode
       PROVE  z.node[i] = o.node[i]
  BY <1>4, <1>7, <1>8, <1>9, <1>10 DEF After
<1>14. z = o
  BY <1>3, <1>6, <1>11, <1>12, <1>13, SameDevice
<1> QED BY <1>14 DEF e, o, z

\* The first block that w writes is on x.
Begun(x, w) ==
  \A n \in DOMAIN w.val : (\A m \in DOMAIN w.val : n <= m) => Agrees(x, Part(w, {n}))

\* The run q is r after the writes u, which leave d on the device.
Became(q, r, u, d) ==
  /\ q \in Runs /\ q.dev = d /\ q.writes = r.writes \o u
  /\ q.mem = r.mem /\ q.ino = r.ino /\ q.ind = r.ind
  /\ q.open = r.open /\ q.unsaved = r.unsaved

\* The request v writes block n as w does.
Single(v, how, w, n) ==
  /\ v.area = w.area /\ v.risk = w.risk /\ v.val = At(n, w.val[n])
  /\ v.sync <=> how = "sync"

\* The requests u write the blocks of S as w does, one by one.
Apart(u, how, w, S) ==
  /\ Len(u) = Cardinality(S)
  /\ \A k \in 1 .. Len(u) : Single(u[k], how, w, Ascending(S)[k])

LEMMA EachIs ==
  ASSUME NEW r \in Runs, NEW how, NEW area \in Written, NEW S \in SUBSET Nat, IsFiniteSet(S),
         NEW val \in [S -> Contents], NEW w, w = Request(r, how, area, val), Put(r.dev, w) \in Device
  PROVE  \E u \in Seq(Requests) :
           Became(WriteEach(r, how, area, val), r, u, Put(r.dev, w)) /\ Apart(u, how, w, S)
<1> DEFINE n == Cardinality(S)
           a == Ascending(S)
           u == [k \in 1 .. n |-> Request(r, how, area, At(a[k], val[a[k]]))]
<1>1. n \in Nat /\ a \in [1 .. n -> S]
  BY AscendingIs
<1>2. Len(a) = n
  <2> HIDE DEF a, n
  <2> QED BY <1>1
<1>3. w \in Requests /\ w.area = area /\ w.val = val /\ w.risk = AtRisk(r)
  BY ValsAre, RequestIs
<1> HIDE DEF n, a
<1>4. ASSUME NEW k \in 1 .. n
      PROVE  u[k] \in Requests /\ Single(u[k], how, w, a[k])
  <2>1. a[k] \in Nat /\ val[a[k]] \in Contents
    BY <1>1
  <2>2. u[k] = Request(r, how, area, At(a[k], val[a[k]]))
    OBVIOUS
  <2> HIDE DEF u
  <2> QED BY <1>3, <2>1, <2>2, RequestAt DEF Single
<1>5. u \in Seq(Requests) /\ Len(u) = n
  <2>1. \A k \in 1 .. n : u[k] \in Requests
    BY <1>4
  <2>2. u \in [1 .. n -> Requests]
    BY <2>1
  <2> HIDE DEF u
  <2> QED BY <1>1, <2>2
<1>6. WriteEach(r, how, area, val) = [r EXCEPT !.dev = Put(r.dev, w), !.writes = r.writes \o u]
  BY <1>2 DEF WriteEach, a, n
<1> HIDE DEF u
<1>7. r.writes \o u \in Seq(Requests)
  BY <1>5 DEF Runs
<1> DEFINE d == Put(r.dev, w)
           v == r.writes \o u
<1>8. d \in Device /\ v \in Seq(Requests)
  BY <1>7
<1>9. Became(WriteEach(r, how, area, val), r, u, Put(r.dev, w))
  <2>1. WriteEach(r, how, area, val) = [r EXCEPT !.dev = d, !.writes = v]
    BY <1>6
  <2> HIDE DEF d, v
  <2>2. LET i == [r EXCEPT !.dev = d, !.writes = v]
        IN  /\ i \in Runs /\ i.dev = d /\ i.writes = v /\ i.mem = r.mem /\ i.ino = r.ino
            /\ i.ind = r.ind /\ i.open = r.open /\ i.unsaved = r.unsaved
    BY <1>8 DEF Runs
  <2> QED BY <2>1, <2>2 DEF Became, d, v
<1>10. Apart(u, how, w, S)
  BY <1>4, <1>5 DEF Apart, a, n
<1> QED BY <1>5, <1>9, <1>10

\* The devices on the way from d to what w makes of it.
BlockByBlock(e, d, w, S) ==
  /\ e[0] = d /\ e[Cardinality(S)] = Put(d, w)
  /\ \A k \in 0 .. Cardinality(S) : Between(e[k], d, Put(d, w))
  /\ \A k \in 1 .. Cardinality(S) :
       /\ Begun(e[k], w)
       /\ \A v, how : Single(v, how, w, Ascending(S)[k]) =>
             /\ Put(e[k - 1], v) = e[k] /\ Agrees(Put(d, w), v)

LEMMA EachOnWay ==
  ASSUME NEW d \in Device, NEW w \in Requests, NEW S \in SUBSET Nat, IsFiniteSet(S),
         DOMAIN w.val = S, Put(d, w) \in Device
  PROVE  \E e \in [0 .. Cardinality(S) -> Device] : BlockByBlock(e, d, w, S)
<1> DEFINE n == Cardinality(S)
           a == Ascending(S)
           first(k) == {a[j] : j \in 1 .. k}
           e == [k \in 0 .. n |-> Put(d, Part(w, first(k)))]
<1>1. /\ n \in Nat /\ a \in [1 .. n -> S] /\ \A j, k \in 1 .. n : j < k => a[j] < a[k]
      /\ \A x \in S : \E k \in 1 .. n : a[k] = x
  BY AscendingIs
<1> HIDE DEF n, a
<1>2. \A k \in 0 .. n : first(k) \in SUBSET DOMAIN w.val
  BY <1>1
<1>3. ASSUME NEW k \in 0 .. n
      PROVE  /\ Put(d, Part(w, first(k))) \in Device
             /\ Between(Put(d, Part(w, first(k))), d, Put(d, w))
             /\ Agrees(Put(d, Part(w, first(k))), Part(w, first(k)))
  <2>1. first(k) \in SUBSET DOMAIN w.val
    BY <1>2
  <2> HIDE DEF first
  <2>2. Agrees(Put(d, w), Part(w, first(k)))
    BY <2>1, PutAgrees, PartAgrees
  <2> QED BY <2>2, PutAgrees, PutOnWay
<1>4. e \in [0 .. n -> Device]
  BY <1>3
<1>5. first(0) = {} /\ first(n) = S
  <2>1. 1 .. 0 = {}
    OBVIOUS
  <2>2. first(0) = {}
    BY <2>1
  <2>3. \A x \in S : x \in first(n)
    BY <1>1
  <2>4. \A x \in first(n) : x \in S
    BY <1>1
  <2> QED BY <2>2, <2>3, <2>4
<1>6. e[0] = d
  <2>1. Part(w, {}) \in Requests /\ DOMAIN Part(w, {}).val = {}
    <3>1. [m \in {} |-> w.val[m]] \in [{} -> Contents]
      OBVIOUS
    <3>2. [m \in {} |-> w.val[m]] \in UNION {[T -> Contents] : T \in SUBSET Nat}
      BY <3>1
    <3> QED BY <3>2 DEF Part, Requests
  <2>2. Put(d, Part(w, {})) = d
    BY <2>1, PartNothing
  <2>3. e[0] = Put(d, Part(w, first(0)))
    BY <1>1
  <2> QED BY <1>5, <2>2, <2>3
<1>7. e[n] = Put(d, w)
  <2>1. Part(w, S) = w
    <3>1. w.val = [m \in S |-> w.val[m]]
      BY DEF Requests
    <3> QED BY <3>1 DEF Part, Requests
  <2>2. e[n] = Put(d, Part(w, first(n)))
    BY <1>1
  <2> QED BY <1>5, <2>1, <2>2
<1>8. ASSUME NEW k \in 1 .. n
      PROVE  /\ Begun(e[k], w)
             /\ \A v, how : Single(v, how, w, a[k]) =>
                   Put(e[k - 1], v) = e[k] /\ Agrees(Put(d, w), v)
  <2>1. /\ k \in 0 .. n /\ k - 1 \in 0 .. n /\ 1 \in 1 .. n /\ a[1] \in first(k)
        /\ a[1] \in S /\ a[k] \in S
    BY <1>1
  <2>2. first(k) = first(k - 1) \cup {a[k]}
    BY <1>1
  <2>3. \A x \in S : a[1] <= x
    <3>1. ASSUME NEW x \in S PROVE a[1] <= x
      <4>1. PICK j \in 1 .. n : a[j] = x
        BY <1>1
      <4>2. a[1] \in Nat /\ x \in Nat
        BY <2>1
      <4>3. j = 1 \/ a[1] < a[j]
        BY <1>1, <2>1
      <4> QED BY <4>1, <4>2, <4>3
    <3> QED BY <3>1
  <2>4. e[k] = Put(d, Part(w, first(k))) /\ e[k - 1] = Put(d, Part(w, first(k - 1)))
    BY <2>1
  <2>5. first(k) \in SUBSET DOMAIN w.val /\ first(k - 1) \in SUBSET DOMAIN w.val
    BY <1>2, <2>1
  <2>6. Agrees(e[k], Part(w, first(k)))
    BY <1>3, <2>1, <2>4
  <2> HIDE DEF first, e
  <2>7. ASSUME NEW m \in S, \A x \in S : m <= x
        PROVE  Agrees(e[k], Part(w, {m}))
    <3>1. m = a[1]
      <4>1. m \in Nat /\ a[1] \in Nat /\ m <= a[1] /\ a[1] <= m
        BY <2>1, <2>3, <2>7
      <4> QED BY <4>1
    <3>2. m \in first(k) /\ {m} \in SUBSET DOMAIN w.val
      BY <2>1, <3>1
    <3>3. /\ Part(w, first(k)).area = w.area /\ DOMAIN Part(w, first(k)).val = first(k)
          /\ Part(w, first(k)).val[m] = w.val[m]
      BY <2>5, <3>2, PartIs
    <3>4. /\ Part(w, {m}).area = w.area /\ DOMAIN Part(w, {m}).val = {m}
          /\ Part(w, {m}).val[m] = w.val[m]
      BY <3>2, PartIs
    <3> QED BY <2>6, <3>2, <3>3, <3>4, LessAgrees, ZenonT(60)
  <2>8. Begun(e[k], w)
    BY <2>7 DEF Begun
  <2>9. ASSUME NEW v, NEW how, Single(v, how, w, a[k])
        PROVE  Put(e[k - 1], v) = e[k] /\ Agrees(Put(d, w), v)
    <3> DEFINE P == first(k - 1)
               x == a[k]
    <3>2. P \subseteq DOMAIN w.val /\ x \in DOMAIN w.val /\ v.val = At(x, w.val[x])
          /\ v.area = w.area
      BY <2>1, <2>5, <2>9 DEF Single
    <3> HIDE DEF P, x
    <3>3. Put(Put(d, Part(w, P)), v) = Put(d, Part(w, P \cup {x}))
      BY <3>2, PartMore
    <3>4. Agrees(Put(d, w), v)
      <4>1. DOMAIN v.val = {x} /\ v.val[x] = w.val[x] /\ Agrees(Put(d, w), w)
        BY ZenonT(40), <3>2, AtIs, PutAgrees
      <4> QED BY <3>2, <4>1, LessAgrees
    <3>1. Put(Put(d, Part(w, first(k - 1))), v) = Put(d, Part(w, first(k - 1) \cup {a[k]}))
      BY <3>3 DEF P, x
    <3> QED BY <2>2, <2>4, <3>1, <3>4
  <2> QED BY <2>8, <2>9
<1>9. \A k \in 0 .. n : Between(e[k], d, Put(d, w))
  BY <1>3
<1> HIDE DEF e
<1>10. BlockByBlock(e, d, w, S)
  BY <1>6, <1>7, <1>8, <1>9 DEF BlockByBlock, a, n
<1> QED BY <1>4, <1>10 DEF n

\* The run q is r after such writes, which leave d on the device.
WroteEach(h, s, q, r, d) ==
  /\ Led(h, s, q, On(d, AtRisk(r))) /\ q.dev = d
  /\ q.mem = r.mem /\ q.ino = r.ino /\ q.ind = r.ind
  /\ q.open = r.open /\ q.unsaved = r.unsaved
  /\ r.writes # <<>> => q.writes # <<>>

\* The program may stop on the way to l once the first block is written.
SafeOnce(h, d, l, w, R) == \A x \in Device : Between(x, d, l) /\ Begun(x, w) => Safe(h, x, R)

\* Synchronously, when the program may stop before each block but the first.
LEMMA EachSync ==
  ASSUME NEW h, NEW s, NEW r, NEW R, Led(h, s, r, On(r.dev, R)),
         NEW area \in Written, NEW S \in SUBSET Nat, IsFiniteSet(S), NEW val \in [S -> Contents],
         S # {} \/ R = AtRisk(r),
         NEW w, w = Request(r, "sync", area, val), NEW l \in Device, l = Put(r.dev, w),
         SafeOnce(h, r.dev, l, w, AtRisk(r)),
         NEW q, q = WriteEach(r, "sync", area, val)
  PROVE  WroteEach(h, s, q, r, l)
<1> DEFINE T == AtRisk(r)
           d == r.dev
           n == Cardinality(S)
           a == Ascending(S)
<1>1. r \in Runs /\ d \in Device /\ On(d, R) \in Points /\ T \in SUBSET Inode
      /\ Leads(h, r.writes, s, On(d, R)) /\ r.writes \in Seq(Requests)
  BY DEF Led, Runs, AtRisk
<1>0. w \in Requests /\ w.area = area /\ w.val = val /\ w.risk = T
  BY <1>1, ValsAre, RequestIs
<1>2. PICK u \in Seq(Requests) : Became(q, r, u, l) /\ Apart(u, "sync", w, S)
  BY <1>1, EachIs
<1>15. /\ Len(u) = n
       /\ \A k \in 1 .. n : Single(u[k], "sync", w, a[k])
  BY <1>2 DEF Apart
<1>3. PICK e \in [0 .. n -> Device] :
        /\ e[0] = d /\ e[n] = l
        /\ \A k \in 0 .. n : Between(e[k], d, l)
        /\ \A k \in 1 .. n :
             /\ Begun(e[k], w)
             /\ \A v, how : Single(v, how, w, a[k]) =>
                   Put(e[k - 1], v) = e[k] /\ Agrees(l, v)
  <2>1. DOMAIN w.val = S /\ w \in Requests
    BY <1>0
  <2>2. PICK e \in [0 .. n -> Device] : BlockByBlock(e, d, w, S)
    BY <1>1, <2>1, EachOnWay
  <2> QED BY <2>2 DEF BlockByBlock
<1>4. n \in Nat /\ (n = 0 => S = {})
  BY FS_CardinalityType, FS_EmptySet
<1> HIDE DEF n, a
<1> DEFINE f == [k \in 0 .. n |-> IF k = 0 THEN On(d, R) ELSE On(e[k], T)]
<1>5. ASSUME NEW k \in 1 .. n
      PROVE  e[k] \in Device /\ Safe(h, e[k], T) /\ On(e[k], T) \in Points
  <2>1. e[k] \in Device /\ Between(e[k], d, l) /\ Begun(e[k], w)
    BY <1>3, <1>4
  <2> QED BY <1>1, <2>1, OnPoint DEF SafeOnce
<1>6. f \in [0 .. n -> Points] /\ f[0] = On(d, R)
  <2>1. \A k \in 0 .. n : k # 0 => k \in 1 .. n
    BY <1>4
  <2>2. \A k \in 0 .. n : (IF k = 0 THEN On(d, R) ELSE On(e[k], T)) \in Points
    BY <1>1, <1>5, <2>1
  <2> QED BY <1>4, <2>2
<1>7. f[n] = On(l, T)
  <2>1. CASE n = 0
    <3>1. f[n] = On(d, R) /\ R = T /\ e[0] = d /\ e[0] = l
      BY SMTT(30), <1>3, <1>4, <2>1
    <3> HIDE DEF f, d, T
    <3> QED BY <3>1
  <2>2. CASE n # 0
    BY <1>3, <1>4, <2>2
  <2> QED BY <2>1, <2>2
<1>8. ASSUME NEW k \in 1 .. n
      PROVE  Goes(h, u[k], f[k - 1], f[k])
  <2>1. k - 1 \in 0 .. n /\ k \in 0 .. n /\ k # 0
    BY <1>4
  <2>2. f[k] = On(e[k], T)
    BY <2>1
  <2>3. f[k - 1].l = e[k - 1] /\ f[k - 1].up /\ f[k - 1].p = {}
    BY <1>3, <2>1 DEF On
  <2>4. Single(u[k], "sync", w, a[k])
    BY <1>15
  <2>5. Put(e[k - 1], u[k]) = e[k]
    BY <1>3, <2>4
  <2> HIDE DEF f
  <2>6. IsSync(u[k], f[k - 1], f[k])
    BY <1>0, <2>2, <2>3, <2>4, <2>5 DEF IsSync, Single
  <2>7. Secure(h, f[k])
    BY <1>5, <2>2, SecureOn
  <2> QED BY <2>3, <2>6, <2>7 DEF Goes
<1> HIDE DEF f
<1>9. Leads(h, u, On(d, R), On(l, T))
  BY <1>15, <1>6, <1>7, <1>8 DEF Leads, Plan
<1>10. Leads(h, r.writes \o u, s, On(l, T))
  BY <1>1, <1>2, <1>9, LeadsOn
<1>11. On(l, T) \in Points /\ On(l, T).up /\ On(l, T).l = l /\ Covered(On(l, T).a, On(l, T).l, On(l, T).p)
       /\ On(l, T).p = {}
  <2>1. On(l, T) \in Points
    BY <1>1, OnPoint
  <2> QED BY <2>1 DEF On, Covered
<1>12. q.writes = r.writes \o u /\ q \in Runs /\ q.dev = l
       /\ q.mem = r.mem /\ q.ino = r.ino /\ q.ind = r.ind
       /\ q.open = r.open /\ q.unsaved = r.unsaved
  BY <1>2 DEF Became
<1>13. Led(h, s, q, On(l, T))
  BY <1>10, <1>11, <1>12 DEF Led
<1>14. r.writes # <<>> => q.writes # <<>>
  BY <1>1, <1>2, <1>12
<1> QED BY <1>12, <1>13, <1>14 DEF WroteEach

\* Asynchronously, of blocks of which nothing is under way.
LEMMA EachAsync ==
  ASSUME NEW h, NEW s, NEW r, NEW t, Led(h, s, r, t),
         NEW area \in Written, NEW S \in SUBSET Nat, IsFiniteSet(S), NEW val \in [S -> Contents],
         S # {},
         NEW w, w = Request(r, "async", area, val), Put(r.dev, w) \in Device,
         \A v \in t.p : v.area # area \/ DOMAIN v.val \cap S = {},
         \A x \in Device : Between(x, t.a, Put(r.dev, w)) => Safe(h, x, AtRisk(r)),
         NEW q, q = WriteEach(r, "async", area, val)
  PROVE  /\ \E z \in Points :
              /\ Led(h, s, q, z) /\ z.a = t.a /\ z.r = AtRisk(r)
              /\ \A v \in z.p : v \in t.p \/ (v.area = area /\ DOMAIN v.val \subseteq S)
         /\ q.dev = Put(r.dev, w)
         /\ q.mem = r.mem /\ q.ino = r.ino /\ q.ind = r.ind
         /\ q.open = r.open /\ q.unsaved = r.unsaved
<1> DEFINE T == AtRisk(r)
           l == Put(r.dev, w)
           d == r.dev
           n == Cardinality(S)
           a == Ascending(S)
<1>1. r \in Runs /\ d \in Device /\ t \in Points /\ T \in SUBSET Inode /\ t.up /\ t.l = d
      /\ Leads(h, r.writes, s, t) /\ r.writes \in Seq(Requests) /\ Covered(t.a, d, t.p)
      /\ (\A v \in t.p : Agrees(d, v)) /\ t.a \in Device /\ t.p \subseteq Requests
  BY DEF Led, Runs, AtRisk, Points
<1>0. w \in Requests /\ w.area = area /\ w.val = val /\ w.risk = T
  BY <1>1, ValsAre, RequestIs
<1>2. PICK u \in Seq(Requests) : Became(q, r, u, l) /\ Apart(u, "async", w, S)
  BY <1>1, EachIs
<1>15. /\ Len(u) = n
       /\ \A k \in 1 .. n : Single(u[k], "async", w, a[k])
  BY <1>2 DEF Apart
<1>3. PICK e \in [0 .. n -> Device] :
        /\ e[0] = d /\ e[n] = l
        /\ \A k \in 0 .. n : Between(e[k], d, l)
        /\ \A k \in 1 .. n :
             /\ Begun(e[k], w)
             /\ \A v, how : Single(v, how, w, a[k]) =>
                   Put(e[k - 1], v) = e[k] /\ Agrees(l, v)
  <2>1. DOMAIN w.val = S /\ w \in Requests
    BY <1>0
  <2>2. PICK e \in [0 .. n -> Device] : BlockByBlock(e, d, w, S)
    BY <1>1, <2>1, EachOnWay
  <2> QED BY <2>2 DEF BlockByBlock
<1>4. n \in Nat /\ n # 0 /\ a \in [1 .. n -> S]
      /\ \A j, k \in 1 .. n : j < k => a[j] < a[k]
  BY FS_CardinalityType, FS_EmptySet, AscendingIs
<1> HIDE DEF n, a
<1> DEFINE pend(k) == t.p \cup {u[j] : j \in 1 .. k}
           f == [k \in 0 .. n |-> [a |-> t.a, l |-> e[k], p |-> pend(k),
                                   r |-> IF k = 0 THEN t.r ELSE T, up |-> TRUE]]
<1>5. \A k \in 1 .. n : u[k] \in Requests /\ u[k].area = area /\ ~u[k].sync /\ u[k].risk = T
                        /\ DOMAIN u[k].val = {a[k]} /\ a[k] \in S /\ u[k].val = At(a[k], w.val[a[k]])
  <2>1. ASSUME NEW k \in 1 .. n
        PROVE  u[k] \in Requests /\ u[k].area = area /\ ~u[k].sync /\ u[k].risk = T
               /\ u[k].val = At(a[k], w.val[a[k]])
    <3>1. u[k] \in Requests
      BY <1>15, <1>4
    <3>2. Single(u[k], "async", w, a[k])
      BY <1>15
    <3> QED BY <1>0, <3>1, <3>2 DEF Single
  <2>2. ASSUME NEW k \in 1 .. n PROVE DOMAIN u[k].val = {a[k]} /\ a[k] \in S
    <3>1. u[k].val = At(a[k], w.val[a[k]])
      BY <2>1
    <3> QED BY <1>4, <3>1, AtIs
  <2> QED BY <2>1, <2>2
<1>6. f \in [0 .. n -> Points]
  <2>1. ASSUME NEW k \in 0 .. n
        PROVE  /\ e[k] \in Device /\ pend(k) \in SUBSET Requests
               /\ (IF k = 0 THEN t.r ELSE T) \in SUBSET Inode
    <3>1. \A j \in 1 .. k : u[j] \in Requests
      BY <1>4, <1>5
    <3> QED BY <1>1, <1>3, <3>1 DEF Points
  <2> HIDE DEF pend
  <2> QED BY <1>1, <2>1 DEF Points
<1>7. f[0] = t
  <2>1. pend(0) = t.p
    OBVIOUS
  <2>2. f[0] = [a |-> t.a, l |-> e[0], p |-> pend(0), r |-> t.r, up |-> TRUE]
    BY <1>4
  <2> HIDE DEF pend, f
  <2> QED BY <1>1, <1>3, <2>1, <2>2 DEF Points
\* The writes of before have been made; those to come touch other blocks.
<1>8. ASSUME NEW k \in 0 .. n, NEW j \in k + 1 .. n
      PROVE  \A v \in pend(k) : v.area # area \/ DOMAIN v.val \cap DOMAIN u[j].val = {}
  <2>1. ASSUME NEW i \in 1 .. k PROVE DOMAIN u[i].val \cap DOMAIN u[j].val = {}
    <3>1. i \in 1 .. n /\ j \in 1 .. n /\ i < j
      BY <1>4
    <3>2. a[i] < a[j] /\ a[i] \in Nat /\ a[j] \in Nat
      BY <1>4, <3>1
    <3>3. a[i] # a[j]
      BY <3>2
    <3> QED BY <1>5, <3>1, <3>3
  <2>2. ASSUME NEW v \in t.p PROVE v.area # area \/ DOMAIN v.val \cap DOMAIN u[j].val = {}
    <3>1. j \in 1 .. n
      BY <1>4
    <3> QED BY <1>5, <3>1
  <2> QED BY <2>1, <2>2
<1> DEFINE Good(k) == /\ Covered(t.a, e[k], pend(k)) /\ \A v \in pend(k) : Agrees(e[k], v)
<1>9. Good(0)
  <2>1. pend(0) = t.p
    OBVIOUS
  <2> QED BY <1>1, <1>3, <2>1
<1>10. ASSUME NEW k \in 1 .. n, Good(k - 1)
       PROVE  Good(k) /\ Between(e[k - 1], t.a, e[k])
  <2>1. k - 1 \in 0 .. n /\ k \in (k - 1) + 1 .. n /\ k \in 0 .. n
    BY <1>4
  <2>2. f[k - 1] \in Points /\ f[k - 1].a = t.a /\ f[k - 1].l = e[k - 1] /\ f[k - 1].p = pend(k - 1)
    BY <1>6, <2>1
  <2>3. pend(k) = pend(k - 1) \cup {u[k]}
    BY <2>1
  <2>4. Fresh(f[k - 1], u[k])
    BY <1>5, <1>8, <2>1, <2>2 DEF Fresh
  <2>5. Put(e[k - 1], u[k]) = e[k] /\ e[k - 1] \in Device
    <3>1. Single(u[k], "async", w, a[k])
      BY <1>15
    <3> QED BY <1>3, <2>1, <3>1
  <2>6. After(e[k], f[k - 1].l, u[k])
    BY <2>2, <2>5, PutAt
  <2>7. Covered(f[k - 1].a, f[k - 1].l, f[k - 1].p) /\ \A v \in f[k - 1].p : Agrees(f[k - 1].l, v)
    BY <1>10, <2>2
  <2> HIDE DEF f, pend
  <2>8. /\ Between(f[k - 1].l, f[k - 1].a, e[k]) /\ Covered(f[k - 1].a, e[k], f[k - 1].p \cup {u[k]})
        /\ \A v \in f[k - 1].p \cup {u[k]} : Agrees(e[k], v)
    BY <2>2, <2>4, <2>6, <2>7, PutFresh
  <2> QED BY <2>2, <2>3, <2>8
<1> HIDE DEF Good
<1>11. \A k \in 0 .. n : Good(k)
  <2> DEFINE bad == {k \in 0 .. n : ~Good(k)}
  <2> SUFFICES ASSUME bad # {} PROVE FALSE
    OBVIOUS
  <2>1. PICK k \in bad : \A j \in bad : k <= j
    <3>1. bad \subseteq Nat
      BY <1>4
    <3> HIDE DEF bad
    <3> QED BY <3>1, LeastNumber
  <2>2. k \in 0 .. n /\ ~Good(k) /\ k # 0
    BY <1>9
  <2>3. k \in 1 .. n /\ k - 1 \in 0 .. n /\ ~(k <= k - 1)
    BY <1>4, <2>2
  <2>4. Good(k - 1)
    BY <2>1, <2>3
  <2> QED BY <1>10, <2>2, <2>3, <2>4
<1>12. ASSUME NEW k \in 0 .. n
       PROVE  Between(e[k], t.a, l)
  <2>1. Between(e[k], d, l)
    BY <1>3
  <2>2. After(l, d, w)
    BY <1>1, PutAt
  <2>3. /\ Hits(w, "imap", 0) => t.a.imap = d.imap
        /\ \A b \in Block : /\ Hits(w, "bmap", Group(b)) => (b \in t.a.bmap <=> b \in d.bmap)
                            /\ Hits(w, "csum", Group(b)) => t.a.csum[b] = d.csum[b]
                            /\ Hits(w, "block", b) => t.a.block[b] = d.block[b]
        /\ \A i \in Inode : Hits(w, "inodes", InodeBlock(i)) => t.a.node[i] = d.node[i]
    <3>1. ASSUME NEW v \in t.p, NEW c, NEW m, Hits(w, c, m) PROVE ~Hits(v, c, m)
      BY <1>0, <3>1 DEF Hits
    <3> QED BY <1>1, <3>1 DEF Covered
  <2> HIDE DEF d, l
  <2> QED BY <2>1, <2>2, <2>3 DEF Between, After
<1>13. ASSUME NEW k \in 1 .. n
       PROVE  Goes(h, u[k], f[k - 1], f[k])
  <2>1. k - 1 \in 0 .. n /\ k \in 0 .. n /\ k # 0
    BY <1>4
  <2>2. /\ f[k].a = t.a /\ f[k].l = e[k] /\ f[k].p = pend(k) /\ f[k].r = T /\ f[k].up = TRUE
        /\ f[k - 1].a = t.a /\ f[k - 1].l = e[k - 1] /\ f[k - 1].p = pend(k - 1)
        /\ f[k - 1].up = TRUE
    BY <2>1
  <2>3. pend(k) = pend(k - 1) \cup {u[k]}
    BY <2>1
  <2>4. Single(u[k], "async", w, a[k])
    BY <1>15
  <2>5. Put(e[k - 1], u[k]) = e[k]
    BY <1>3, <2>4
  <2>6. Good(k) /\ Good(k - 1) /\ Between(e[k - 1], t.a, e[k])
    BY <1>10, <1>11, <2>1
  <2>7. f[k] \in Points /\ f[k - 1] \in Points
    BY <1>6, <2>1
  <2> HIDE DEF f, pend
  <2>8. f[k] = [f[k - 1] EXCEPT !.l = Put(@, u[k]), !.p = @ \cup {u[k]}, !.r = u[k].risk]
    <3>1. u[k].risk = T
      BY <1>5
    <3> HIDE DEF T
    <3>2. /\ f[k].a = f[k - 1].a /\ f[k].l = Put(f[k - 1].l, u[k]) /\ f[k].up = f[k - 1].up
          /\ f[k].p = f[k - 1].p \cup {u[k]} /\ f[k].r = u[k].risk
      BY <2>2, <2>3, <2>5, <3>1
    <3>3. f[k] = Later(f[k - 1], u[k])
      BY <2>7, <3>2, LaterEquals
    <3> QED BY <3>3 DEF Later
  <2>9. \A v \in f[k].p : Agrees(f[k].l, v)
    BY <2>2, <2>6 DEF Good
  <2>10. IsAsync(u[k], f[k - 1], f[k])
    BY <1>5, <2>2, <2>6, <2>8, <2>9 DEF IsAsync
  <2>11. ASSUME NEW x \in Device, Between(x, f[k].a, f[k].l) PROVE Safe(h, x, f[k].r)
    <3>1. Between(e[k], t.a, l) /\ Between(x, t.a, e[k])
      BY <1>12, <2>1, <2>2, <2>11
    <3>2. Between(x, t.a, l)
      BY <3>1, BetweenMore
    <3> QED BY <2>2, <3>2
  <2>12. Secure(h, f[k])
    BY <2>11 DEF Secure, Safe
  <2> QED BY <2>2, <2>10, <2>12 DEF Goes
<1>14. f[n] \in Points /\ f[n].a = t.a /\ f[n].l = l /\ f[n].p = pend(n) /\ f[n].r = T /\ f[n].up
  <2>1. f[n] \in Points
    BY <1>4, <1>6
  <2>2. f[n] = [a |-> t.a, l |-> e[n], p |-> pend(n), r |-> T, up |-> TRUE]
    BY <1>4
  <2> HIDE DEF f, pend
  <2> QED BY <1>3, <2>1, <2>2
<1>16. Leads(h, u, t, f[n])
  <2> HIDE DEF f
  <2> QED BY <1>15, <1>6, <1>7, <1>13 DEF Leads, Plan
<1>17. Leads(h, r.writes \o u, s, f[n])
  BY <1>1, <1>2, <1>16, LeadsOn
<1>18. q.writes = r.writes \o u /\ q \in Runs /\ q.dev = l
       /\ q.mem = r.mem /\ q.ino = r.ino /\ q.ind = r.ind
       /\ q.open = r.open /\ q.unsaved = r.unsaved
  BY <1>2 DEF Became
<1>19. Good(n)
  BY <1>4, <1>11
<1>20. \A v \in pend(n) : v \in t.p \/ (v.area = area /\ DOMAIN v.val \subseteq S)
  BY <1>5
<1> HIDE DEF f, pend
<1>21. Led(h, s, q, f[n])
  BY <1>3, <1>14, <1>17, <1>18, <1>19 DEF Led, Good
<1> QED BY <1>14, <1>18, <1>20, <1>21

-----------------------------------------------------------------------------
(***************************************************************************)
(* What keeps the volume consistent.                                       *)
(***************************************************************************)

\* Every part of a file is one of its blocks.
LEMMA OwnBlocks ==
  ASSUME NEW d, NEW i
  PROVE  /\ d.node[i].direct # 0 => d.node[i].direct \in DataBlocks(d, i)
         /\ d.node[i].indirect # 0 => d.node[i].indirect \in BlocksOf(d, i)
         /\ DataBlocks(d, i) \subseteq BlocksOf(d, i)
         /\ \A b : d.node[i].indirect # 0 /\ d.block[d.node[i].indirect] = <<b>> /\ b # 0 =>
              b \in DataBlocks(d, i)
<1>1. ASSUME NEW b, d.node[i].indirect # 0, d.block[d.node[i].indirect] = <<b>>, b # 0
      PROVE  b \in DataBlocks(d, i)
  <2>1. b \in ToSet(<<b>>)
    BY DEF ToSet
  <2> QED BY <1>1, <2>1 DEF DataBlocks, Indirected
<1> QED BY <1>1 DEF BlocksOf, DataBlocks

\* The blocks of a file that is whole.
LEMMA FileBlocks ==
  ASSUME NEW d, NEW i, FileOK(d, i)
  PROVE  /\ d.node[i].size = 0 => DataBlocks(d, i) = {} /\ BlocksOf(d, i) = {}
         /\ d.node[i].size = 1 => DataBlocks(d, i) = {d.node[i].direct}
                                  /\ BlocksOf(d, i) = {d.node[i].direct}
         /\ d.node[i].size = 2 =>
              \E b \in Block \ {d.node[i].direct, d.node[i].indirect} :
                /\ d.block[d.node[i].indirect] = <<b>> /\ d.block[b] = Data
                /\ DataBlocks(d, i) = {d.node[i].direct, b}
                /\ BlocksOf(d, i) = {d.node[i].direct, d.node[i].indirect, b}
         /\ d.node[i].size \in {0, 1, 2}
         /\ \A b \in DataBlocks(d, i) : d.block[b] = Data
         /\ Cardinality(DataBlocks(d, i)) = d.node[i].size
<1> DEFINE n == d.node[i]
<1>1. CASE n.size = 0
  <2>1. n.direct = 0 /\ n.indirect = 0
    BY <1>1 DEF FileOK
  <2>2. DataBlocks(d, i) = {} /\ BlocksOf(d, i) = {}
    BY <2>1 DEF DataBlocks, BlocksOf, Indirected
  <2> QED BY <1>1, <2>2, FS_EmptySet
<1>2. CASE n.size = 1
  <2>1. n.direct # 0 /\ n.indirect = 0 /\ d.block[n.direct] = Data
    BY <1>2 DEF FileOK
  <2>2. DataBlocks(d, i) = {n.direct} /\ BlocksOf(d, i) = {n.direct}
    BY <2>1 DEF DataBlocks, BlocksOf, Indirected
  <2>3. Cardinality({n.direct}) = 1
    BY FS_Singleton
  <2> QED BY <1>2, <2>1, <2>2, <2>3
<1>3. CASE n.size = 2
  <2>1. n.direct # 0 /\ n.indirect # 0 /\ d.block[n.direct] = Data /\ n.direct # n.indirect
    BY <1>3 DEF FileOK
  <2>2. PICK b \in Block \ {n.direct, n.indirect} : d.block[n.indirect] = <<b>> /\ d.block[b] = Data
    BY <1>3 DEF FileOK
  <2>3. b # 0
    BY DEF Block
  <2>4. ToSet(<<b>>) = {b}
    <3>1. DOMAIN <<b>> = {1} /\ <<b>>[1] = b
      OBVIOUS
    <3> QED BY <3>1 DEF ToSet
  <2>5. DataBlocks(d, i) = {n.direct, b} /\ BlocksOf(d, i) = {n.direct, n.indirect, b}
    BY <2>1, <2>2, <2>3, <2>4 DEF DataBlocks, BlocksOf, Indirected
  <2>6. Cardinality({n.direct, b}) = 2
    <3>1. IsFiniteSet({n.direct}) /\ Cardinality({n.direct}) = 1 /\ b \notin {n.direct}
      BY FS_Singleton
    <3>2. Cardinality({n.direct} \cup {b}) = 1 + 1
      BY <3>1, FS_AddElement
    <3>3. {n.direct} \cup {b} = {n.direct, b}
      OBVIOUS
    <3> QED BY <3>2, <3>3
  <2> QED BY <1>3, <2>1, <2>2, <2>5, <2>6
<1> QED BY <1>1, <1>2, <1>3 DEF FileOK

\* Files whose dinodes and blocks are the same.
LEMMA SameBlocks ==
  ASSUME NEW d, NEW x, NEW i, x.node[i] = d.node[i],
         d.node[i].indirect # 0 => x.block[d.node[i].indirect] = d.block[d.node[i].indirect]
  PROVE  DataBlocks(x, i) = DataBlocks(d, i) /\ BlocksOf(x, i) = BlocksOf(d, i)
BY DEF DataBlocks, BlocksOf, Indirected

LEMMA SameFile ==
  ASSUME NEW d, NEW x, NEW i, x.node[i] = d.node[i],
         \A b \in BlocksOf(d, i) : x.block[b] = d.block[b]
  PROVE  /\ DataBlocks(x, i) = DataBlocks(d, i) /\ BlocksOf(x, i) = BlocksOf(d, i)
         /\ FileOK(d, i) => FileOK(x, i)
<1>1. DataBlocks(x, i) = DataBlocks(d, i) /\ BlocksOf(x, i) = BlocksOf(d, i)
  BY OwnBlocks, SameBlocks
<1>2. ASSUME FileOK(d, i) PROVE FileOK(x, i)
  <2> DEFINE n == d.node[i]
  <2>1. n.direct # 0 => x.block[n.direct] = Data
    BY <1>2, OwnBlocks DEF FileOK
  <2>2. ASSUME n.indirect # 0, NEW b \in Block, d.block[n.indirect] = <<b>>, d.block[b] = Data
        PROVE  x.block[n.indirect] = <<b>> /\ x.block[b] = Data
    <3>1. b # 0
      BY DEF Block
    <3> QED BY <2>2, <3>1, OwnBlocks
  <2> QED BY <1>2, <2>1, <2>2 DEF FileOK
<1> QED BY <1>1, <1>2

LEMMA SameEntries ==
  ASSUME NEW d, NEW x, x.node[Root] = d.node[Root],
         d.node[Root].direct # 0 => x.block[d.node[Root].direct] = d.block[d.node[Root].direct]
  PROVE  /\ Entries(x) = Entries(d) /\ Reached(x) = Reached(d) /\ FsExists(x) = FsExists(d)
         /\ DirOK(d) => DirOK(x)
<1>1. Entries(x) = Entries(d)
  BY DEF Entries
<1>2. FsExists(x) = FsExists(d)
  BY DEF FsExists
<1>3. Reached(x) = Reached(d)
  BY <1>1, <1>2 DEF Reached
<1>4. ASSUME DirOK(d) PROVE DirOK(x)
  <2>1. d.node[Root].direct # 0
    BY <1>4 DEF DirOK, Block
  <2> QED BY SMTT(30), <1>4, <2>1 DEF DirOK
<1> QED BY <1>1, <1>2, <1>3, <1>4

\* What is reached is marked and not in hand.
LEMMA Owned ==
  ASSUME NEW d, NEW m, NEW R, NEW X, NEW hand, NEW h, Consistent(d, m, R, X, hand, h)
  PROVE  /\ \A i \in Reached(d) \ X : BlocksOf(d, i) \subseteq m.bmap \ hand
         /\ Root \notin X /\ Root \in Reached(d) /\ DirOK(d) /\ FsExists(d)
         /\ d.node[Root].direct \in m.bmap \ hand /\ d.node[Root].direct \in DataBlocks(d, Root)
         /\ d.node[Root].direct # 0
         /\ Reached(d) = {Root} \cup Entries(d) /\ Entries(d) \subseteq File
<1>1. \A i \in Reached(d) \ X : BlocksOf(d, i) \subseteq m.bmap \ hand
  BY DEF Consistent, Sound
<1>2. Root \notin X /\ DirOK(d) /\ FsExists(d)
  BY DEF Consistent, Sound
<1>3. Reached(d) = {Root} \cup Entries(d) /\ Entries(d) \subseteq File
  BY <1>2 DEF Reached, Entries
<1>4. d.node[Root].direct # 0
  BY <1>2 DEF DirOK, Block
<1>5. d.node[Root].direct \in DataBlocks(d, Root) /\ d.node[Root].direct \in BlocksOf(d, Root)
  BY <1>4, OwnBlocks
<1> QED BY <1>1, <1>2, <1>3, <1>4, <1>5

\* What happens to the inodes in X, to blocks in hand and to free blocks
\* happens beside the rest of the volume.
Beside(x, n, d, m, X, hand, new, h) ==
  /\ \A i \in Inode \ X : x.node[i] = d.node[i] /\ (i \in x.imap <=> i \in d.imap)
  /\ \A b \in m.bmap \ hand :
       /\ x.block[b] = d.block[b] /\ (b \in d.bmap => b \in x.bmap)
       /\ h = {} => n.csum[b] \in {m.csum[b], Csum(d.block[b])}
  /\ n.bmap \ new = m.bmap \ hand /\ new \subseteq n.bmap
  /\ x.bmap \subseteq n.bmap /\ x.imap = n.imap

LEMMA BesideIs ==
  ASSUME NEW d \in Device, NEW x \in Device, NEW m, NEW n, NEW R, NEW X, NEW hand, NEW new, NEW h,
         Consistent(d, m, R, X, hand, h), Beside(x, n, d, m, X, hand, new, h)
  PROVE  /\ Consistent(x, n, R, X, new, h)
         /\ Entries(x) = Entries(d) /\ Reached(x) = Reached(d)
         /\ \A i \in Reached(d) \ X : /\ BlocksOf(x, i) = BlocksOf(d, i)
                                      /\ DataBlocks(x, i) = DataBlocks(d, i)
<1>1. /\ \A i \in Reached(d) \ X : BlocksOf(d, i) \subseteq m.bmap \ hand
      /\ Root \notin X /\ Root \in Inode /\ DirOK(d) /\ FsExists(d)
      /\ d.node[Root].direct \in m.bmap \ hand
      /\ Reached(d) = {Root} \cup Entries(d) /\ Entries(d) \subseteq Inode
  BY Owned, Numbers DEF File
<1>2. /\ Entries(x) = Entries(d) /\ Reached(x) = Reached(d) /\ FsExists(x) /\ DirOK(x)
  <2>1. x.node[Root] = d.node[Root] /\ x.block[d.node[Root].direct] = d.block[d.node[Root].direct]
    BY <1>1 DEF Beside
  <2> QED BY <1>1, <2>1, SameEntries
<1>3. ASSUME NEW i \in Reached(d) \ X
      PROVE  /\ BlocksOf(x, i) = BlocksOf(d, i) /\ DataBlocks(x, i) = DataBlocks(d, i)
             /\ FileOK(d, i) => FileOK(x, i)
             /\ \A b \in BlocksOf(d, i) : x.block[b] = d.block[b]
  <2>1. x.node[i] = d.node[i] /\ \A b \in BlocksOf(d, i) : x.block[b] = d.block[b]
    BY <1>1 DEF Beside
  <2> QED BY <2>1, SameFile
<1>4. Sound(d, m.bmap, X)
  BY DEF Consistent
<1>5. Sound(x, n.bmap, X)
  <2>1. \A i \in Entries(x) \ X : FileOK(x, i)
    BY <1>1, <1>2, <1>3, <1>4 DEF Sound
  <2>2. ASSUME NEW i \in Reached(x) \ X PROVE i \in x.imap /\ BlocksOf(x, i) \subseteq n.bmap
    <3>1. i \in d.imap /\ i \in Inode
      BY <1>1, <1>2, <1>4 DEF Sound
    <3>2. i \in x.imap
      BY <3>1 DEF Beside
    <3>3. BlocksOf(x, i) \subseteq m.bmap \ hand
      BY <1>1, <1>2, <1>3
    <3> QED BY <3>2, <3>3 DEF Beside
  <2>3. \A i, j \in Reached(x) \ X : i # j => BlocksOf(x, i) \cap BlocksOf(x, j) = {}
    BY <1>2, <1>3, <1>4 DEF Sound
  <2>4. \A i \in Inode \ (x.imap \cup X) : x.node[i] = NoDinode
    BY <1>4 DEF Sound, Beside
  <2> QED BY <1>1, <1>2, <2>1, <2>2, <2>3, <2>4 DEF Sound
<1>6. \A i \in Reached(x) \ (R \cup X) : BlocksOf(x, i) \subseteq x.bmap
  <2>1. ASSUME NEW i \in Reached(d) \ (R \cup X), NEW b \in BlocksOf(d, i) PROVE b \in x.bmap
    <3>1. b \in d.bmap /\ b \in m.bmap \ hand
      BY <1>1 DEF Consistent
    <3> QED BY <3>1 DEF Beside
  <2> QED BY <1>2, <1>3, <2>1
<1>7. new \subseteq n.bmap /\ \A i \in Reached(x) \ X : BlocksOf(x, i) \cap new = {}
  BY <1>1, <1>2, <1>3 DEF Beside
<1>8. ASSUME h \subseteq {"csumLost"}
      PROVE  /\ n.imap \subseteq Reached(x) \cup X
             /\ \A b \in n.bmap \ new : \E i \in Reached(x) \ X : b \in BlocksOf(x, i)
  <2>1. /\ m.imap \subseteq Reached(d) \cup X
        /\ \A b \in m.bmap \ hand : \E i \in Reached(d) \ X : b \in BlocksOf(d, i)
    BY <1>8 DEF Consistent
  <2>2. x.imap \subseteq d.imap \cup X /\ d.imap = m.imap /\ n.imap = x.imap
    BY DEF Device, Beside, Consistent
  <2> QED BY <1>2, <1>3, <2>1, <2>2 DEF Beside
<1>9. ASSUME h = {}, NEW i \in Reached(x) \ X, NEW b \in DataBlocks(x, i)
      PROVE  n.csum[b] = Csum(x.block[b])
  <2>1. b \in DataBlocks(d, i) /\ b \in BlocksOf(d, i) /\ b \in m.bmap \ hand
    BY <1>1, <1>2, <1>3, OwnBlocks
  <2>2. m.csum[b] = Csum(d.block[b])
    BY <1>2, <1>9, <2>1 DEF Consistent
  <2> QED BY <1>9, <2>1, <2>2 DEF Beside
<1>10. x.bmap \subseteq n.bmap /\ x.imap = n.imap /\ R \subseteq File
  BY DEF Beside, Consistent
<1>11. Consistent(x, n, R, X, new, h)
  BY <1>2, <1>5, <1>6, <1>7, <1>8, <1>9, <1>10 DEF Consistent
<1> QED BY <1>2, <1>3, <1>11

\* A file to be worked on, and its blocks.
LEMMA Checkout ==
  ASSUME NEW d, NEW m, NEW R, NEW X, NEW hand, NEW h, Consistent(d, m, R, X, hand, h),
         NEW i \in Entries(d) \ X
  PROVE  Consistent(d, m, R, X \cup {i}, hand \cup BlocksOf(d, i), h)
<1> DEFINE Y == X \cup {i}
           new == hand \cup BlocksOf(d, i)
<1>1. Sound(d, m.bmap, X) /\ i # Root /\ i \in Reached(d) \ X
  <2>1. Sound(d, m.bmap, X)
    BY DEF Consistent
  <2>2. Reached(d) = {Root} \cup Entries(d) /\ Entries(d) \subseteq File
    BY Owned
  <2> QED BY <2>1, <2>2 DEF File
<1>2. Sound(d, m.bmap, Y)
  BY <1>1 DEF Sound
<1>3. new \subseteq m.bmap /\ \A j \in Reached(d) \ Y : BlocksOf(d, j) \cap new = {}
  BY <1>1 DEF Consistent, Sound
<1>4. ASSUME h \subseteq {"csumLost"}
      PROVE  /\ m.imap \subseteq Reached(d) \cup Y
             /\ \A b \in m.bmap \ new : \E j \in Reached(d) \ Y : b \in BlocksOf(d, j)
  <2>1. /\ m.imap \subseteq Reached(d) \cup X
        /\ \A b \in m.bmap \ hand : \E j \in Reached(d) \ X : b \in BlocksOf(d, j)
    BY <1>4 DEF Consistent
  <2> QED BY <2>1
<1> QED BY <1>2, <1>3, <1>4 DEF Consistent

\* An inode that is not marked yet, to be.
LEMMA CheckoutFree ==
  ASSUME NEW d, NEW m, NEW R, NEW X, NEW hand, NEW h, Consistent(d, m, R, X, hand, h),
         NEW i \in File \ Reached(d)
  PROVE  Consistent(d, m, R, X \cup {i}, hand, h)
<1>1. Sound(d, m.bmap, X) /\ i # Root
  BY DEF Consistent, File
<1>2. Sound(d, m.bmap, X \cup {i})
  BY <1>1 DEF Sound
<1>3. ASSUME h \subseteq {"csumLost"}
      PROVE  /\ m.imap \subseteq Reached(d) \cup (X \cup {i})
             /\ \A b \in m.bmap \ hand : \E j \in Reached(d) \ (X \cup {i}) : b \in BlocksOf(d, j)
  BY <1>3 DEF Consistent
<1> QED BY <1>2, <1>3 DEF Consistent

\* A file that is whole again.
LEMMA Checkin ==
  ASSUME NEW d, NEW m, NEW R, NEW X, NEW hand, NEW h, Consistent(d, m, R, X, hand, h),
         NEW i \in X \cap Entries(d), FileOK(d, i), i \in d.imap, BlocksOf(d, i) \subseteq hand,
         i \in R \/ BlocksOf(d, i) \subseteq d.bmap,
         h = {} => \A b \in DataBlocks(d, i) : m.csum[b] = Csum(d.block[b])
  PROVE  Consistent(d, m, R, X \ {i}, hand \ BlocksOf(d, i), h)
<1> DEFINE Y == X \ {i}
           new == hand \ BlocksOf(d, i)
<1>1. Sound(d, m.bmap, X) /\ hand \subseteq m.bmap
      /\ \A j \in Reached(d) \ X : BlocksOf(d, j) \cap hand = {}
  BY DEF Consistent
<1>2. \A j \in Reached(d) \ Y : j = i \/ j \in Reached(d) \ X
  OBVIOUS
<1>3. Sound(d, m.bmap, Y)
  <2>1. \A j \in Entries(d) \ Y : FileOK(d, j)
    BY <1>1 DEF Sound
  <2>2. \A j \in Reached(d) \ Y : j \in d.imap /\ BlocksOf(d, j) \subseteq m.bmap
    BY <1>1, <1>2 DEF Sound
  <2>3. \A j, k \in Reached(d) \ Y : j # k => BlocksOf(d, j) \cap BlocksOf(d, k) = {}
    <3>1. ASSUME NEW j \in Reached(d) \ Y, NEW k \in Reached(d) \ Y, j # k
          PROVE  BlocksOf(d, j) \cap BlocksOf(d, k) = {}
      <4>1. CASE j # i /\ k # i
        BY <1>1, <1>2, <3>1, <4>1 DEF Sound
      <4>2. CASE j = i
        BY <1>1, <1>2, <3>1, <4>2
      <4>3. CASE k = i
        BY <1>1, <1>2, <3>1, <4>3
      <4> QED BY <4>1, <4>2, <4>3
    <3> QED BY <3>1
  <2>4. \A j \in Inode \ (d.imap \cup Y) : d.node[j] = NoDinode
    BY <1>1 DEF Sound
  <2>5. Root \notin Y /\ DirOK(d)
    BY <1>1 DEF Sound
  <2> HIDE DEF Y
  <2> QED BY <2>1, <2>2, <2>3, <2>4, <2>5 DEF Sound
<1>4. \A j \in Reached(d) \ (R \cup Y) : BlocksOf(d, j) \subseteq d.bmap
  BY <1>2 DEF Consistent
<1>5. new \subseteq m.bmap /\ \A j \in Reached(d) \ Y : BlocksOf(d, j) \cap new = {}
  BY <1>1, <1>2
<1>6. i \in Reached(d)
  BY DEF Consistent, Reached
<1>7. ASSUME h \subseteq {"csumLost"}
      PROVE  /\ m.imap \subseteq Reached(d) \cup Y
             /\ \A b \in m.bmap \ new : \E j \in Reached(d) \ Y : b \in BlocksOf(d, j)
  BY <1>6, <1>7 DEF Consistent
<1>8. h = {} => \A j \in Reached(d) \ Y : \A b \in DataBlocks(d, j) : m.csum[b] = Csum(d.block[b])
  BY <1>2 DEF Consistent
<1> QED BY <1>3, <1>4, <1>5, <1>7, <1>8 DEF Consistent

\* An inode that is free again.
LEMMA CheckinFree ==
  ASSUME NEW d, NEW m, NEW R, NEW X, NEW hand, NEW h, Consistent(d, m, R, X, hand, h),
         NEW i \in X, i \notin Entries(d), i \notin d.imap, d.node[i] = NoDinode
  PROVE  Consistent(d, m, R \ {i}, X \ {i}, hand, h)
<1> DEFINE Y == X \ {i}
<1>1. Sound(d, m.bmap, X) /\ Root \notin X /\ Reached(d) = {Root} \cup Entries(d)
  <2>1. Sound(d, m.bmap, X)
    BY DEF Consistent
  <2>2. Root \notin X /\ Reached(d) = {Root} \cup Entries(d)
    BY Owned
  <2> QED BY <2>1, <2>2
<1>2. Reached(d) \ Y = Reached(d) \ X /\ Entries(d) \ Y = Entries(d) \ X
      /\ Reached(d) \ ((R \ {i}) \cup Y) = Reached(d) \ (R \cup X)
  BY <1>1
<1>3. Sound(d, m.bmap, Y)
  BY <1>1, <1>2 DEF Sound
<1> HIDE DEF Y
<1>4. ASSUME h \subseteq {"csumLost"} PROVE m.imap \subseteq Reached(d) \cup Y
  BY <1>4 DEF Consistent, Y
<1> QED BY <1>2, <1>3, <1>4 DEF Consistent, Y

\* The directory changes in what it says of inodes in X.
Redirects(x, n, d, m, X, h) ==
  LET b == d.node[Root].direct
  IN  /\ \A i \in Inode \ {Root} : x.node[i] = d.node[i]
      /\ x.node[Root].direct = b /\ \A c \in Block \ {b} : x.block[c] = d.block[c]
      /\ DirOK(x) /\ Entries(x) \ X = Entries(d) \ X
      /\ x.imap = d.imap /\ x.bmap = d.bmap /\ n.bmap = m.bmap /\ n.imap = m.imap
      /\ h = {} => /\ n.csum[b] = Csum(x.block[b])
                   /\ \A c \in Block \ {b} : n.csum[c] = m.csum[c]

LEMMA RedirectsIs ==
  ASSUME NEW d \in Device, NEW x \in Device, NEW m \in Memory, NEW n \in Memory, NEW R, NEW X,
         NEW hand, NEW h, Consistent(d, m, R, X, hand, h), Redirects(x, n, d, m, X, h)
  PROVE  /\ Consistent(x, n, R, X, hand, h)
         /\ \A i \in Entries(d) \ X : BlocksOf(x, i) = BlocksOf(d, i)
<1> DEFINE b == d.node[Root].direct
<1>1. /\ \A i \in Reached(d) \ X : BlocksOf(d, i) \subseteq m.bmap \ hand
      /\ Root \notin X /\ DirOK(d) /\ FsExists(d) /\ Root \in Reached(d)
      /\ Reached(d) = {Root} \cup Entries(d) /\ Entries(d) \subseteq File
      /\ b \in BlocksOf(d, Root) /\ m.bmap \subseteq Block
  BY Owned, OwnBlocks DEF Memory
<1>2. FsExists(x) /\ Reached(x) = {Root} \cup Entries(x) /\ Reached(x) \ X = Reached(d) \ X
      /\ Entries(x) \ X = Entries(d) \ X
  BY <1>1 DEF Redirects, DirOK, FsExists, Reached
<1>3. BlocksOf(d, Root) = {b} /\ BlocksOf(x, Root) = {b}
      /\ DataBlocks(d, Root) = {b} /\ DataBlocks(x, Root) = {b}
  <2>1. b # 0 /\ d.node[Root].indirect = 0 /\ x.node[Root].indirect = 0 /\ x.node[Root].direct = b
    BY SMTT(30), <1>1 DEF Redirects, DirOK, Block
  <2> QED BY <2>1 DEF BlocksOf, DataBlocks, Indirected
<1>4. Sound(d, m.bmap, X)
  BY DEF Consistent
<1>5. ASSUME NEW i \in Entries(d) \ X
      PROVE  /\ BlocksOf(x, i) = BlocksOf(d, i) /\ DataBlocks(x, i) = DataBlocks(d, i)
             /\ FileOK(x, i)
             /\ \A c \in BlocksOf(d, i) : x.block[c] = d.block[c] /\ c # b /\ c \in Block
  <2>1. i \in Inode \ {Root} /\ i \in Reached(d) \ X /\ Root \in Reached(d) \ X
    BY <1>1 DEF File
  <2>2. b \notin BlocksOf(d, i)
    BY <1>1, <1>4, <2>1 DEF Sound
  <2>3. x.node[i] = d.node[i] /\ \A c \in BlocksOf(d, i) : x.block[c] = d.block[c]
    BY <1>1, <2>1, <2>2 DEF Redirects
  <2>4. FileOK(d, i)
    BY <1>4 DEF Sound
  <2>5. \A c \in BlocksOf(d, i) : c # b /\ c \in Block
    BY <1>1, <2>1, <2>2
  <2> QED BY <2>3, <2>4, <2>5, SameFile
<1>6. ASSUME NEW i \in Reached(d) \ X
      PROVE  BlocksOf(x, i) = BlocksOf(d, i) /\ DataBlocks(x, i) = DataBlocks(d, i)
  BY <1>1, <1>3, <1>5
<1>7. Sound(x, n.bmap, X)
  <2>1. \A i \in Entries(x) \ X : FileOK(x, i)
    BY <1>2, <1>5
  <2>2. ASSUME NEW i \in Reached(x) \ X PROVE i \in x.imap /\ BlocksOf(x, i) \subseteq n.bmap
    BY <1>2, <1>4, <1>6 DEF Sound, Redirects
  <2>3. \A i, j \in Reached(x) \ X : i # j => BlocksOf(x, i) \cap BlocksOf(x, j) = {}
    BY <1>2, <1>4, <1>6 DEF Sound
  <2>4. \A i \in Inode \ (x.imap \cup X) : x.node[i] = NoDinode
    <3>1. Root \in d.imap
      BY <1>1, <1>4 DEF Sound
    <3> QED BY <1>4, <3>1 DEF Sound, Redirects
  <2>5. DirOK(x)
    BY DEF Redirects
  <2> QED BY <1>1, <2>1, <2>2, <2>3, <2>4, <2>5 DEF Sound
<1>8. \A i \in Reached(x) \ (R \cup X) : BlocksOf(x, i) \subseteq x.bmap
  BY <1>2, <1>6 DEF Consistent, Redirects
<1>9. hand \subseteq n.bmap /\ \A i \in Reached(x) \ X : BlocksOf(x, i) \cap hand = {}
  BY <1>2, <1>6 DEF Consistent, Redirects
<1>10. ASSUME h \subseteq {"csumLost"}
       PROVE  /\ n.imap \subseteq Reached(x) \cup X
              /\ \A c \in n.bmap \ hand : \E i \in Reached(x) \ X : c \in BlocksOf(x, i)
  BY <1>2, <1>6, <1>10 DEF Consistent, Redirects
<1>11. ASSUME h = {}, NEW i \in Reached(x) \ X, NEW c \in DataBlocks(x, i)
       PROVE  n.csum[c] = Csum(x.block[c])
  <2>1. CASE i = Root
    BY <1>3, <1>11, <2>1 DEF Redirects
  <2>2. CASE i # Root
    <3>1. i \in Entries(d) \ X /\ c \in DataBlocks(d, i) /\ c \in BlocksOf(d, i) /\ i \in Reached(d) \ X
      BY <1>1, <1>2, <1>6, <2>2, <1>11, OwnBlocks
    <3>2. x.block[c] = d.block[c] /\ c \in Block \ {b}
      BY <1>5, <3>1
    <3>3. m.csum[c] = Csum(d.block[c])
      BY <1>11, <3>1 DEF Consistent
    <3> QED BY <1>11, <3>2, <3>3 DEF Redirects
  <2> QED BY <2>1, <2>2
<1>12. x.bmap \subseteq n.bmap /\ x.imap = n.imap /\ R \subseteq File
  BY DEF Redirects, Consistent
<1>13. Consistent(x, n, R, X, hand, h)
  BY <1>2, <1>7, <1>8, <1>9, <1>10, <1>11, <1>12 DEF Consistent
<1> QED BY <1>5, <1>13

\* The inodes of X that a crash now would damage are in T.
Fits(d, R, X, T) ==
  /\ R \subseteq T /\ Root \notin T
  /\ \A i \in X \ T : i \notin Entries(d) /\ (i \in d.imap \/ d.node[i] = NoDinode)

LEMMA FitsRecovers ==
  ASSUME NEW d, NEW m, NEW R, NEW X, NEW hand, NEW h, NEW T, Consistent(d, m, R, X, hand, h),
         Fits(d, R, X, T)
  PROVE  Recoverable(d, T)
<1>1. Sound(d, m.bmap, X) /\ (\A i \in Reached(d) \ (R \cup X) : BlocksOf(d, i) \subseteq d.bmap)
      /\ Reached(d) = {Root} \cup Entries(d) /\ Root \notin X
  <2>1. Reached(d) = {Root} \cup Entries(d) /\ Root \notin X
    BY Owned
  <2> QED BY <2>1 DEF Consistent
<1>2. \A i \in Reached(d) \ T : i \in Reached(d) \ (R \cup X)
  BY <1>1 DEF Fits
<1>3. Sound(d, d.bmap, T)
  <2>1. Root \notin T /\ DirOK(d)
    BY <1>1 DEF Fits, Sound
  <2>2. \A i \in Entries(d) \ T : FileOK(d, i)
    BY <1>1, <1>2 DEF Sound
  <2>3. \A i \in Reached(d) \ T : i \in d.imap /\ BlocksOf(d, i) \subseteq d.bmap
    BY <1>1, <1>2 DEF Sound
  <2>4. \A i, j \in Reached(d) \ T : i # j => BlocksOf(d, i) \cap BlocksOf(d, j) = {}
    BY <1>1, <1>2 DEF Sound
  <2>5. \A i \in Inode \ (d.imap \cup T) : d.node[i] = NoDinode
    BY <1>1 DEF Sound, Fits
  <2> QED BY <2>1, <2>2, <2>3, <2>4, <2>5 DEF Sound
<1> QED BY <1>3 DEF Recoverable

-----------------------------------------------------------------------------
(***************************************************************************)
(* What the operators of the source do to a run.                           *)
(***************************************************************************)

\* Memory changes.
Same(q, r) ==
  /\ q \in Runs /\ q.dev = r.dev /\ q.writes = r.writes /\ q.ino = r.ino /\ q.ind = r.ind

LEMMA WithOpen ==
  ASSUME NEW r \in Runs, NEW O \in SUBSET Inode, NEW q, q = [r EXCEPT !.open = O]
  PROVE  Same(q, r) /\ q.mem = r.mem /\ q.open = O /\ q.unsaved = r.unsaved
BY DEF Runs, Same

\* The inode i in memory is now n.
LEMMA WithNode ==
  ASSUME NEW r \in Runs, NEW i \in Inode, NEW n \in Dinodes, NEW q, q = [r EXCEPT !.ino[i] = n]
  PROVE  /\ q \in Runs /\ q.dev = r.dev /\ q.writes = r.writes /\ q.ind = r.ind /\ q.mem = r.mem
         /\ q.open = r.open /\ q.unsaved = r.unsaved /\ q.ino = [r.ino EXCEPT ![i] = n]
BY DEF Runs

\* The device and the memory of a run are consistent, but for what is left out.
Holds(h, s, r, R, X, hand) ==
  Still(h, s, r) /\ Consistent(r.dev, r.mem, R, X, hand, h) /\ Mirror(r.dev, r.mem)

\* A crash after the last write would damage the inodes at risk.
Settled(h, s, r) == Led(h, s, r, On(r.dev, AtRisk(r)))

LEMMA SettledStill ==
  ASSUME NEW h, NEW s, NEW r, Settled(h, s, r)
  PROVE  Still(h, s, r)
BY DEF Settled, Still

LEMMA StillIs ==
  ASSUME NEW h, NEW s, NEW r, Still(h, s, r)
  PROVE  /\ r \in Runs /\ r.dev \in Device /\ r.mem \in Memory /\ r.ino \in [Inode -> Dinodes]
         /\ r.ind \in [Inode -> Seq(Word)] /\ r.open \in SUBSET Inode /\ r.unsaved \in SUBSET Inode
         /\ r.writes \in Seq(Requests) /\ AtRisk(r) \in SUBSET Inode
BY DEF Still, Led, Runs, AtRisk

LEMMA SameStill ==
  ASSUME NEW h, NEW s, NEW r, NEW q, Still(h, s, r), Same(q, r)
  PROVE  Still(h, s, q)
BY StillWith DEF Same

LEMMA WroteSettled ==
  ASSUME NEW h, NEW s, NEW q, NEW r, NEW d, Wrote(h, s, q, r, d)
  PROVE  Settled(h, s, q) /\ Still(h, s, q) /\ AtRisk(q) = AtRisk(r)
<1>1. AtRisk(q) = AtRisk(r)
  BY DEF Wrote, AtRisk
<1>2. Settled(h, s, q)
  BY <1>1 DEF Wrote, Settled
<1> QED BY <1>1, <1>2, SettledStill

\* A write that leaves the volume consistent is safe.
LEMMA FitsSafe ==
  ASSUME NEW h, NEW d, NEW m, NEW R, NEW X, NEW hand, NEW T, Consistent(d, m, R, X, hand, h),
         Fits(d, R, X, T)
  PROVE  Safe(h, d, T)
BY FitsRecovers DEF Safe

LEMMA FilledMirrors ==
  ASSUME NEW d \in Device, NEW e \in Device, NEW m, NEW n, Mirror(d, m), e.csum = d.csum,
         n.csum = m.csum, n.dirty = m.dirty
  PROVE  Mirror(e, n)
BY DEF Mirror

\* The first free block.
LEMMA FirstFreeIs ==
  ASSUME NEW r, Block \ r.mem.bmap # {}
  PROVE  FirstFreeBlock(r) \in Block \ r.mem.bmap
<1>1. Block \ r.mem.bmap \subseteq Nat
  BY Numbers
<1>2. \E b \in Block \ r.mem.bmap : \A c \in Block \ r.mem.bmap : b <= c
  BY <1>1, LeastNumber
<1> QED BY <1>2 DEF FirstFreeBlock

\* What is kept of the run r but memory and what is in blocks.
Kept(q, r) ==
  /\ q.ino = r.ino /\ q.ind = r.ind /\ q.unsaved = r.unsaved
  /\ q.dev.node = r.dev.node /\ q.dev.imap = r.dev.imap /\ q.mem.imap = r.mem.imap
  /\ q.writes # <<>>

\* A block of data or of entries, and its checksum.
Stored(m, b, x) == [m EXCEPT !.csum[b] = Csum(x)]
Store(r, b, x)  == PutCsum(WriteSync(r, "block", b, x), b, Csum(x))

\* What the run q is, r being the run before: after a block is allocated,
HasAllocated(q, r, b) ==
  /\ Kept(q, r) /\ q.open = r.open /\ q.dev.block = r.dev.block
  /\ q.mem.bmap = r.mem.bmap \cup {b} /\ q.mem.csum = r.mem.csum /\ q.mem.dirty = r.mem.dirty
  /\ b \in q.dev.bmap /\ r.dev.bmap \subseteq q.dev.bmap
  /\ Entries(q.dev) = Entries(r.dev)

\* ... one of inode i is freed,
HasFreed(q, r, i, b) ==
  /\ Kept(q, r) /\ q.open = r.open \cup ({i} \cap Entries(r.dev))
  /\ \A c \in Block \ {b} : q.dev.block[c] = r.dev.block[c]
  /\ q.mem.bmap = r.mem.bmap \ {b} /\ q.mem.csum = r.mem.csum /\ q.mem.dirty = r.mem.dirty
  /\ r.dev.bmap \ {b} \subseteq q.dev.bmap
  /\ Entries(q.dev) = Entries(r.dev)

\* ... a block and its checksum are written,
HasStored(q, r, b, x) ==
  /\ Kept(q, r) /\ q.open = r.open /\ q.mem = Stored(r.mem, b, x)
  /\ q.dev.block = Filled(r.dev, b, x).block /\ q.dev.bmap = r.dev.bmap
  /\ Entries(q.dev) = Entries(Filled(r.dev, b, x))

\* ... the dinode of i is,
HasSynced(q, r, i) ==
  /\ q.writes # <<>> /\ q.dev = Noded(r.dev, r.ino, {i})
  /\ q.mem = r.mem /\ q.ino = r.ino /\ q.ind = r.ind
  /\ q.open = r.open \ {i} /\ q.unsaved = r.unsaved

\* ... the inode freemap is.
HasNumbered(q, r) ==
  /\ q.writes # <<>> /\ q.dev = Numbered(r.dev, r.mem.imap)
  /\ q.mem = r.mem /\ q.ino = r.ino /\ q.ind = r.ind
  /\ q.open = r.open /\ q.unsaved = r.unsaved

LEMMA AllocBlockHolds ==
  ASSUME NEW h, NEW s, NEW r, NEW R, NEW X, NEW hand, Holds(h, s, r, R, X, hand),
         Fits(r.dev, R, X, AtRisk(r)), Block \ r.mem.bmap # {}
  PROVE  /\ FirstFreeBlock(r) \in Block \ r.mem.bmap
         /\ Holds(h, s, AllocBlock(r), R, X, hand \cup {FirstFreeBlock(r)})
         /\ HasAllocated(AllocBlock(r), r, FirstFreeBlock(r))
<1>0. PICK b, q : b = FirstFreeBlock(r) /\ q = AllocBlock(r)
  OBVIOUS
<1> DEFINE B == r.mem.bmap \cup {b}
           p == [r EXCEPT !.mem.bmap = B]
           d == Marked(r.dev, p.mem, {Group(b)})
<1>1. b \in Block \ r.mem.bmap
  BY <1>0, FirstFreeIs
<1>2. Still(h, s, r) /\ Consistent(r.dev, r.mem, R, X, hand, h) /\ Mirror(r.dev, r.mem)
  BY DEF Holds
<1>3. r \in Runs /\ r.dev \in Device /\ r.mem \in Memory /\ B \in SUBSET Block
  BY <1>1, <1>2, StillIs DEF Memory
<1>4. /\ Same(p, r) /\ p.open = r.open /\ p.unsaved = r.unsaved
      /\ p.mem.bmap = B /\ p.mem.imap = r.mem.imap /\ p.mem.csum = r.mem.csum
      /\ p.mem.dirty = r.mem.dirty
  <2>1. p = [r EXCEPT !.mem.bmap = B]
    OBVIOUS
  <2> HIDE DEF B, p
  <2> QED BY <1>3, <2>1 DEF Runs, Memory, Same
<1>5. q = WriteBlockFreemap(p, b)
  BY <1>0 DEF AllocBlock
<1> HIDE DEF p
<1>6. Still(h, s, p) /\ p.mem \in Memory /\ AtRisk(p) = AtRisk(r) /\ p.dev = r.dev
  BY <1>2, <1>4, SameStill, StillIs DEF Same, AtRisk
<1>7. d \in Device /\ d.imap = r.dev.imap /\ d.csum = r.dev.csum /\ d.node = r.dev.node
      /\ d.block = r.dev.block
      /\ d.bmap = {c \in Block : IF Group(c) \in {Group(b)} THEN c \in B ELSE c \in r.dev.bmap}
  BY <1>3, <1>4, <1>6, MarkedDevice, MarkedIs
<1>8. b \in d.bmap /\ r.dev.bmap \subseteq d.bmap /\ d.bmap \subseteq B
  <2>1. r.dev.bmap \subseteq r.mem.bmap /\ r.dev.bmap \subseteq Block
    BY <1>2, <1>3 DEF Consistent, Device
  <2> QED BY <1>1, <1>7, <2>1
<1> HIDE DEF d
<1>9. Beside(d, p.mem, r.dev, r.mem, X, hand, hand \cup {b}, h)
  <2>1. hand \subseteq r.mem.bmap /\ r.dev.imap = r.mem.imap
    BY <1>2 DEF Consistent
  <2> QED BY <1>1, <1>4, <1>7, <1>8, <2>1 DEF Beside
<1>10. Consistent(d, p.mem, R, X, hand \cup {b}, h) /\ Entries(d) = Entries(r.dev)
  BY <1>2, <1>3, <1>7, <1>9, BesideIs
<1>11. Fits(d, R, X, AtRisk(p))
  BY <1>6, <1>7, <1>10 DEF Fits
<1>12. Safe(h, d, AtRisk(p))
  BY <1>10, <1>11, FitsSafe
<1>13. Wrote(h, s, q, p, d)
  BY <1>1, <1>5, <1>6, <1>12, MarkedWrote DEF d
<1>14. Still(h, s, q) /\ q.dev = d /\ q.mem = p.mem
  BY <1>13, WroteSettled DEF Wrote
<1>15. Mirror(q.dev, q.mem)
  BY <1>2, <1>3, <1>4, <1>7, <1>14, FilledMirrors
<1>16. Holds(h, s, q, R, X, hand \cup {b})
  BY <1>10, <1>14, <1>15 DEF Holds
<1>17. Kept(q, r) /\ q.open = r.open
  BY <1>4, <1>7, <1>13, <1>14 DEF Kept, Wrote, Same
<1>18. HasAllocated(q, r, b)
  BY <1>4, <1>7, <1>8, <1>10, <1>14, <1>17 DEF HasAllocated
<1> QED BY <1>0, <1>1, <1>16, <1>18

LEMMA FreeBlockHolds ==
  ASSUME NEW h, NEW s, NEW r, NEW R, NEW X, NEW hand, Holds(h, s, r, R, X, hand), NEW i \in Inode,
         Fits(r.dev, R, X, AtRisk(r) \cup ({i} \cap Entries(r.dev))), NEW b \in hand
  PROVE  /\ Holds(h, s, FreeBlock(r, i, b), R, X, hand \ {b})
         /\ HasFreed(FreeBlock(r, i, b), r, i, b)
<1>0. PICK q : q = FreeBlock(r, i, b)
  OBVIOUS
<1> DEFINE O == r.open \cup ({i} \cap Entries(r.dev))
           o == [r EXCEPT !.open = @ \cup ({i} \cap Entries(r.dev))]
           z == WriteSync(o, "block", b, Zero)
           B == z.mem.bmap \ {b}
           p == [z EXCEPT !.mem.bmap = @ \ {b}]
           e == Filled(o.dev, b, Zero)
           d == Marked(e, p.mem, {Group(b)})
<1>1. Still(h, s, r) /\ Consistent(r.dev, r.mem, R, X, hand, h) /\ Mirror(r.dev, r.mem)
  BY DEF Holds
<1>2. /\ r \in Runs /\ r.dev \in Device /\ r.mem \in Memory /\ O \in SUBSET Inode
      /\ b \in Block /\ hand \subseteq r.mem.bmap
  BY <1>1, StillIs DEF Memory, Consistent
<1>3. Same(o, r) /\ o.mem = r.mem /\ o.open = O /\ o.unsaved = r.unsaved
  <2>1. o = [r EXCEPT !.open = O]
    OBVIOUS
  <2> HIDE DEF O, o
  <2> QED BY <1>2, <2>1, WithOpen
<1>4. q = WriteBlockFreemap(p, b)
  BY <1>0 DEF FreeBlock
<1> HIDE DEF o
<1>5. Still(h, s, o) /\ AtRisk(o) = AtRisk(r) \cup ({i} \cap Entries(r.dev)) /\ o.dev = r.dev
  BY <1>1, <1>3, SameStill DEF Same, AtRisk
<1> HIDE DEF O
<1>6. e \in Device /\ e.imap = r.dev.imap /\ e.bmap = r.dev.bmap /\ e.csum = r.dev.csum
      /\ e.node = r.dev.node /\ e.block = [c \in Block |-> IF c = b THEN Zero ELSE r.dev.block[c]]
  <2>1. Zero \in Seq(Word)
    BY DEF Zero
  <2> QED BY <1>2, <1>5, <2>1, FilledDevice, FilledIs
<1> HIDE DEF e
<1>7. Beside(e, r.mem, r.dev, r.mem, X, hand, hand, h)
  <2>1. r.dev.imap = r.mem.imap /\ r.dev.bmap \subseteq r.mem.bmap /\ r.mem.bmap \subseteq Block
    BY <1>1, <1>2 DEF Consistent, Memory
  <2> QED BY <1>2, <1>6, <2>1 DEF Beside
<1>8. Consistent(e, r.mem, R, X, hand, h) /\ Entries(e) = Entries(r.dev)
  BY <1>1, <1>2, <1>6, <1>7, BesideIs
<1>9. Fits(e, R, X, AtRisk(o))
  BY <1>5, <1>6, <1>8 DEF Fits
<1>10. Safe(h, e, AtRisk(o))
  BY <1>8, <1>9, FitsSafe
<1>11. Wrote(h, s, z, o, e)
  <2>1. Zero \in Seq(Word)
    BY DEF Zero
  <2> QED BY <1>2, <1>5, <1>10, <2>1, FilledWrote DEF e
<1>12. Still(h, s, z) /\ z.dev = e /\ z.mem = r.mem /\ AtRisk(z) = AtRisk(o) /\ z.open = o.open
       /\ z.ino = r.ino /\ z.ind = r.ind /\ z.unsaved = r.unsaved
  BY <1>3, <1>11, WroteSettled DEF Wrote, Same
<1> HIDE DEF z
<1>13. /\ Same(p, z) /\ p.open = z.open /\ p.unsaved = z.unsaved
       /\ p.mem.bmap = B /\ p.mem.imap = z.mem.imap /\ p.mem.csum = z.mem.csum
       /\ p.mem.dirty = z.mem.dirty
  <2>1. p = [z EXCEPT !.mem.bmap = B] /\ z \in Runs /\ B \in SUBSET Block
    BY <1>2, <1>12, StillIs DEF Memory
  <2> HIDE DEF B, p
  <2> QED BY <2>1 DEF Runs, Memory, Same
<1> HIDE DEF p
<1>14. Still(h, s, p) /\ p.mem \in Memory /\ AtRisk(p) = AtRisk(o) /\ p.dev = e
  BY <1>12, <1>13, SameStill, StillIs DEF Same, AtRisk
<1>15. d \in Device /\ d.imap = e.imap /\ d.csum = e.csum /\ d.node = e.node
       /\ d.block = e.block
       /\ d.bmap = {c \in Block : IF Group(c) \in {Group(b)} THEN c \in B ELSE c \in e.bmap}
  BY <1>6, <1>13, <1>14, MarkedDevice, MarkedIs
<1>16. /\ r.dev.bmap \ {b} \subseteq d.bmap /\ d.bmap \subseteq B /\ B = r.mem.bmap \ {b}
  <2>1. r.dev.bmap \subseteq r.mem.bmap /\ r.dev.bmap \subseteq Block
    BY <1>1, <1>2 DEF Consistent, Device
  <2> QED BY <1>6, <1>12, <1>15, <2>1
<1> HIDE DEF d, B
<1>17. Beside(d, p.mem, e, r.mem, X, hand, hand \ {b}, h)
  <2>1. r.dev.imap = r.mem.imap
    BY <1>1 DEF Consistent
  <2> QED BY <1>2, <1>6, <1>12, <1>13, <1>15, <1>16, <2>1 DEF Beside
<1>18. Consistent(d, p.mem, R, X, hand \ {b}, h) /\ Entries(d) = Entries(e)
  BY <1>6, <1>8, <1>15, <1>17, BesideIs
<1>19. Fits(d, R, X, AtRisk(p))
  BY <1>9, <1>14, <1>15, <1>18 DEF Fits
<1>20. Safe(h, d, AtRisk(p))
  BY <1>18, <1>19, FitsSafe
<1>21. Wrote(h, s, q, p, d)
  BY <1>2, <1>4, <1>14, <1>20, MarkedWrote DEF d
<1>22. Still(h, s, q) /\ q.dev = d /\ q.mem = p.mem
  BY <1>21, WroteSettled DEF Wrote
<1>23. Mirror(q.dev, q.mem)
  BY <1>1, <1>2, <1>6, <1>12, <1>13, <1>15, <1>22, FilledMirrors
<1>24. Holds(h, s, q, R, X, hand \ {b})
  BY <1>18, <1>22, <1>23 DEF Holds
<1>25. Kept(q, r) /\ q.open = o.open
  BY <1>6, <1>12, <1>13, <1>15, <1>21, <1>22 DEF Kept, Wrote, Same
<1>26. \A c \in Block \ {b} : q.dev.block[c] = r.dev.block[c]
  BY <1>6, <1>15, <1>22
<1>27. q.mem.bmap = r.mem.bmap \ {b} /\ q.mem.csum = r.mem.csum /\ q.mem.dirty = r.mem.dirty
  BY <1>12, <1>13, <1>16, <1>22
<1>28. r.dev.bmap \ {b} \subseteq q.dev.bmap /\ Entries(q.dev) = Entries(r.dev)
  BY <1>8, <1>16, <1>18, <1>22
<1>29. HasFreed(q, r, i, b)
  BY <1>3, <1>25, <1>26, <1>27, <1>28 DEF O, HasFreed
<1> QED BY <1>0, <1>24, <1>29

LEMMA StoreHolds ==
  ASSUME NEW h, NEW s, NEW r, Still(h, s, r), Mirror(r.dev, r.mem), NEW b \in Block,
         NEW x \in Seq(Word), NEW R, NEW X, NEW hand,
         Consistent(Filled(r.dev, b, x), Stored(r.mem, b, x), R, X, hand, h),
         Fits(Filled(r.dev, b, x), R, X, AtRisk(r))
  PROVE  Holds(h, s, Store(r, b, x), R, X, hand) /\ HasStored(Store(r, b, x), r, b, x)
<1>0. PICK d, m, q : d = Filled(r.dev, b, x) /\ m = Stored(r.mem, b, x) /\ q = Store(r, b, x)
  OBVIOUS
<1> DEFINE z == WriteSync(r, "block", b, x)
           p == [z EXCEPT !.mem.csum[b] = Csum(x)]
           e == Summed(d, p.mem, {Group(b)})
<1>1. /\ r \in Runs /\ r.dev \in Device /\ r.mem \in Memory
  BY StillIs
<1>2. d \in Device /\ d.imap = r.dev.imap /\ d.bmap = r.dev.bmap /\ d.csum = r.dev.csum
      /\ d.node = r.dev.node
  <2>1. Filled(r.dev, b, x) \in Device
    BY <1>1, FilledDevice
  <2>2. LET f == Filled(r.dev, b, x)
        IN  f.imap = r.dev.imap /\ f.bmap = r.dev.bmap /\ f.csum = r.dev.csum /\ f.node = r.dev.node
    BY <1>1 DEF Filled, Device
  <2> QED BY <1>0, <2>1, <2>2
<1>c. Consistent(d, m, R, X, hand, h) /\ Fits(d, R, X, AtRisk(r))
  BY <1>0
<1>3. Safe(h, d, AtRisk(r))
  BY <1>c, FitsSafe
<1>4. Wrote(h, s, z, r, d)
  BY <1>0, <1>3, FilledWrote
<1>5. Still(h, s, z) /\ z.dev = d /\ z.mem = r.mem /\ AtRisk(z) = AtRisk(r) /\ z.open = r.open
      /\ z.ino = r.ino /\ z.ind = r.ind /\ z.unsaved = r.unsaved
  BY <1>4, WroteSettled DEF Wrote
<1>6. q = WriteSync(p, "csum", Group(b), CsumOf(p, Group(b)))
  BY <1>0 DEF Store, PutCsum
<1> HIDE DEF z
<1>7. Csum(x) \in SUBSET Bit
  BY DEF Csum
<1>8. /\ Same(p, z) /\ p.open = z.open /\ p.unsaved = z.unsaved
      /\ p.mem.csum = [z.mem.csum EXCEPT ![b] = Csum(x)]
      /\ p.mem.bmap = z.mem.bmap /\ p.mem.imap = z.mem.imap /\ p.mem.dirty = z.mem.dirty
  <2>1. p = [z EXCEPT !.mem.csum[b] = Csum(x)] /\ z \in Runs
    BY <1>5, StillIs
  <2> HIDE DEF p
  <2> QED BY <1>7, <2>1 DEF Runs, Memory, Same
<1>9. p.mem = m
  BY <1>0, <1>5 DEF Stored
<1> HIDE DEF p
<1>10. Still(h, s, p) /\ p.mem \in Memory /\ AtRisk(p) = AtRisk(r) /\ p.dev = d
  BY <1>5, <1>8, SameStill, StillIs DEF Same, AtRisk
<1>11. e \in Device /\ e.imap = d.imap /\ e.bmap = d.bmap /\ e.node = d.node /\ e.block = d.block
       /\ e.csum = [c \in Block |-> IF Group(c) \in {Group(b)} THEN p.mem.csum[c] ELSE d.csum[c]]
  BY <1>2, <1>10, SummedDevice, SummedIs
<1> HIDE DEF e
<1>12. Beside(e, m, d, m, X, hand, hand, h)
  BY <1>c, <1>11 DEF Beside, Consistent
<1>13. Consistent(e, m, R, X, hand, h) /\ Entries(e) = Entries(d)
  BY <1>c, <1>2, <1>11, <1>12, BesideIs
<1>14. Fits(e, R, X, AtRisk(p))
  BY <1>c, <1>10, <1>11, <1>13 DEF Fits
<1>15. Safe(h, e, AtRisk(p))
  BY <1>13, <1>14, FitsSafe
<1>16. Wrote(h, s, q, p, e)
  BY <1>6, <1>10, <1>15, SummedWrote DEF e
<1>17. Still(h, s, q) /\ q.dev = e /\ q.mem = m
  BY <1>9, <1>16, WroteSettled DEF Wrote
<1>18. Mirror(e, m)
  <2>1. ASSUME NEW c \in Block PROVE Group(c) \in m.dirty \/ m.csum[c] = e.csum[c]
    <3>1. CASE Group(c) = Group(b)
      BY <1>9, <1>11, <3>1
    <3>2. CASE Group(c) # Group(b)
      <4>1. c # b /\ e.csum[c] = r.dev.csum[c]
        BY <1>2, <1>11, <3>2
      <4>2. m.csum[c] = r.mem.csum[c] /\ m.dirty = r.mem.dirty
        BY <1>1, <1>5, <1>8, <1>9, <4>1 DEF Memory
      <4> QED BY <4>1, <4>2 DEF Mirror
    <3> QED BY <3>1, <3>2
  <2> QED BY <2>1 DEF Mirror
<1>19. Holds(h, s, q, R, X, hand)
  BY <1>13, <1>17, <1>18 DEF Holds
<1>20. Kept(q, r) /\ q.open = r.open
  BY <1>2, <1>5, <1>8, <1>9, <1>11, <1>16, <1>17 DEF Kept, Wrote, Same
<1>21. HasStored(q, r, b, x)
  BY <1>0, <1>2, <1>11, <1>13, <1>17, <1>20 DEF HasStored
<1> QED BY <1>0, <1>19, <1>21

\* testfs_sync_inode
LEMMA SyncInodeHolds ==
  ASSUME NEW h, NEW s, NEW r, Still(h, s, r), Mirror(r.dev, r.mem), NEW i \in Inode,
         r.ind[i] = Zero, NEW R, NEW X, NEW hand,
         Consistent(Noded(r.dev, r.ino, {i}), r.mem, R, X, hand, h),
         Fits(Noded(r.dev, r.ino, {i}), R, X, (r.open \ {i}) \cup r.unsaved)
  PROVE  /\ Holds(h, s, SyncInode(r, i), R, X, hand) /\ Settled(h, s, SyncInode(r, i))
         /\ HasSynced(SyncInode(r, i), r, i)
<1>0. PICK d, q : d = Noded(r.dev, r.ino, {i}) /\ q = SyncInode(r, i)
  OBVIOUS
<1> DEFINE O == r.open \ {i}
           o == [r EXCEPT !.open = @ \ {i}]
           z == WriteSync(o, "inodes", InodeBlock(i), WithDinodes(o, InodeBlock(i), {i}))
<1>1. r \in Runs /\ r.dev \in Device /\ r.ino \in [Inode -> Dinodes] /\ O \in SUBSET Inode
  BY StillIs
<1>2. Same(o, r) /\ o.mem = r.mem /\ o.open = O /\ o.unsaved = r.unsaved
  <2>1. o = [r EXCEPT !.open = O]
    OBVIOUS
  <2> HIDE DEF O, o
  <2> QED BY <1>1, <2>1 DEF Runs, Same
<1>3. q = FlushIndirect(z, i, "sync")
  BY <1>0 DEF SyncInode
<1> HIDE DEF o
<1>4. Still(h, s, o) /\ AtRisk(o) = O \cup r.unsaved /\ o.dev = r.dev /\ o.ino = r.ino
      /\ o.ind = r.ind
  BY <1>2, SameStill DEF Same, AtRisk
<1>5. Safe(h, d, AtRisk(o))
  BY <1>0, <1>4, FitsSafe
<1>6. Wrote(h, s, z, o, d)
  BY <1>0, <1>4, <1>5, NodedWrote
<1>7. z.ind = r.ind
  BY <1>4, <1>6 DEF Wrote
<1>8. q = z
  BY <1>3, <1>7 DEF FlushIndirect
<1> HIDE DEF z
<1>9. Settled(h, s, q) /\ Still(h, s, q) /\ q.dev = d /\ q.mem = r.mem /\ q.writes # <<>>
      /\ q.ino = r.ino /\ q.ind = r.ind /\ q.open = O /\ q.unsaved = r.unsaved
  BY <1>2, <1>4, <1>6, <1>8, WroteSettled DEF Wrote
<1>10. d \in Device /\ d.csum = r.dev.csum
  <2>1. d = Noded(r.dev, r.ino, {i})
    BY <1>0
  <2>2. Noded(r.dev, r.ino, {i}) \in Device
    BY <1>1, NodedDevice
  <2>3. Noded(r.dev, r.ino, {i}).csum = r.dev.csum
    BY <1>1 DEF Noded, Device
  <2> QED BY <2>1, <2>2, <2>3
<1>11. Mirror(q.dev, q.mem)
  BY <1>9, <1>10 DEF Mirror
<1>12. Holds(h, s, q, R, X, hand)
  BY <1>0, <1>9, <1>11 DEF Holds
<1>13. HasSynced(q, r, i)
  BY <1>0, <1>9 DEF HasSynced
<1> QED BY <1>0, <1>9, <1>12, <1>13

\* The inode freemap.
LEMMA NumberHolds ==
  ASSUME NEW h, NEW s, NEW r, Still(h, s, r), Mirror(r.dev, r.mem),
         NEW R, NEW X, NEW hand, Consistent(Numbered(r.dev, r.mem.imap), r.mem, R, X, hand, h),
         Fits(Numbered(r.dev, r.mem.imap), R, X, AtRisk(r))
  PROVE  LET q == WriteSync(r, "imap", 0, r.mem.imap)
         IN  Holds(h, s, q, R, X, hand) /\ Settled(h, s, q) /\ HasNumbered(q, r)
<1>0. PICK d, q : d = Numbered(r.dev, r.mem.imap) /\ q = WriteSync(r, "imap", 0, r.mem.imap)
  OBVIOUS
<1>1. r \in Runs /\ r.dev \in Device /\ r.mem.imap \in SUBSET Inode
  BY StillIs DEF Memory
<1>2. Safe(h, d, AtRisk(r))
  BY <1>0, FitsSafe
<1>3. Wrote(h, s, q, r, d)
  BY <1>0, <1>1, <1>2, NumberedWrote
<1>4. d \in Device /\ d.csum = r.dev.csum
  BY <1>0, <1>1, NumberedDevice, NumberedIs
<1>5. Settled(h, s, q) /\ Still(h, s, q) /\ q.dev = d /\ q.mem = r.mem
  BY <1>3, WroteSettled DEF Wrote
<1>6. Mirror(q.dev, q.mem)
  BY <1>1, <1>4, <1>5, FilledMirrors
<1>7. Holds(h, s, q, R, X, hand)
  BY <1>0, <1>5, <1>6 DEF Holds
<1>8. HasNumbered(q, r)
  BY <1>0, <1>3, <1>5 DEF HasNumbered, Wrote
<1> QED BY <1>0, <1>5, <1>7, <1>8

-----------------------------------------------------------------------------
(***************************************************************************)
(* Commands.                                                               *)
(***************************************************************************)

\* A command may start whose writes lead to what it has to achieve.
LEMMA ExecuteInv ==
  ASSUME IInv, Ready, NEW name \in Names, NEW size \in Nat, NEW q \in Runs, q.writes # <<>>,
         Execute(name, size, q), NEW u \in Points, Leads(history, q.writes, On(dev, risk), u),
         Achieves(name, size, q.mem, history, u)
  PROVE  IInv'
<1> DEFINE s == On(dev, risk)
<1>1. /\ up /\ cmd = Idle /\ inflight = {} /\ Rests(dev, mem, risk, history)
      /\ dev \in Device /\ risk \in SUBSET Inode
  BY DEF IInv, Ready, TypeOK
<1>2. /\ cmd' = [name |-> name, size |-> size, writes |-> q.writes] /\ mem' = q.mem
      /\ UNCHANGED <<dev, up, inflight, risk, history, crashes>>
  BY DEF Execute
<1>3. q.writes \in Seq(Requests) /\ q.mem \in Memory
  BY DEF Runs
<1>4. IsCommand' /\ cmd'.writes = q.writes /\ cmd'.name = name /\ cmd'.size = size /\ cmd' # Idle
  BY <1>2, <1>3, IdleIsCommand DEF IsCommand
<1>5. TypeOK'
  BY <1>1, <1>2, <1>3 DEF IInv, TypeOK
<1>6. s \in Points /\ s.r = risk /\ s.up /\ Stands(dev, {}, s)
  <2>1. s \in Points /\ Stands(dev, {}, s)
    BY <1>1, OnPoint, StandsOn
  <2> QED BY <2>1 DEF On
<1>7. Secure(history, s)
  <2>1. CASE "damaged" \in history
    BY <2>1 DEF Secure
  <2>2. CASE ~FsExists(dev)
    <3>1. Recoverable(dev, risk)
      BY <2>2 DEF Recoverable
    <3> QED BY <1>1, <3>1, SecureOn DEF Safe
  <2>3. CASE FsExists(dev) /\ "damaged" \notin history
    <3>1. Consistent(dev, mem, risk, {}, {}, history)
      BY <1>1, <2>3 DEF Rests
    <3>2. Root \notin risk
      BY <3>1 DEF Consistent, File
    <3>3. Recoverable(dev, risk)
      BY <3>1, <3>2, ConsistentRecovers
    <3> QED BY <1>1, <3>3, SecureOn DEF Safe
  <2> QED BY <2>1, <2>2, <2>3
<1> HIDE DEF s
<1>8. Working'
  <2>1. /\ Stands(dev, inflight, s) /\ s.r = risk /\ s.up /\ Secure(history, s)
        /\ Leads(history, q.writes, s, u) /\ Achieves(name, size, q.mem, history, u)
    BY <1>1, <1>6, <1>7 DEF s
  <2> QED BY <1>1, <1>2, <1>4, <1>6, <2>1 DEF Working
<1> QED BY <1>1, <1>2, <1>4, <1>5, <1>8 DEF IInv

\* The run a command starts with.
LEMMA NowIs ==
  ASSUME IInv, Ready
  PROVE  /\ Settled(history, On(dev, risk), Now)
         /\ Now.dev = dev /\ Now.mem = mem /\ Now.ino = dev.node /\ Now.open = {}
         /\ Now.unsaved = risk /\ AtRisk(Now) = risk
         /\ \A i \in Inode : Now.ind[i] = Zero
<1> DEFINE r == Now
<1>1. /\ dev \in Device /\ mem \in Memory /\ risk \in SUBSET Inode
  BY DEF IInv, TypeOK
<1>2. /\ r.dev = dev /\ r.mem = mem /\ r.ino = dev.node /\ r.open = {}
      /\ r.unsaved = risk /\ r.writes = <<>> /\ r.ind = [i \in Inode |-> Zero]
  BY DEF Now, RunFrom
<1>3. r \in Runs
  <2>1. <<>> \in Seq(Requests) /\ [i \in Inode |-> Zero] \in [Inode -> Seq(Word)]
    BY DEF Zero
  <2> QED BY <1>1, <2>1 DEF Now, RunFrom, Runs, Device
<1> HIDE DEF r
<1>4. AtRisk(r) = risk
  BY <1>2 DEF AtRisk
<1>5. On(dev, risk) \in Points
  BY <1>1, OnPoint
<1>6. Leads(history, r.writes, On(dev, risk), On(dev, risk))
  BY <1>2, <1>5, LeadsNowhere
<1>7. Settled(history, On(dev, risk), r)
  BY <1>2, <1>3, <1>4, <1>5, <1>6 DEF Settled, Led, On, Covered
<1> QED BY <1>2, <1>4, <1>7 DEF r

\* A command whose writes have all landed leaves the volume consistent.
LEMMA SettledInv ==
  ASSUME IInv, Ready, NEW name \in Names \ {"mkfs", "bench"}, NEW size \in Nat, NEW q,
         Execute(name, size, q), Settled(history, On(dev, risk), q), q.writes # <<>>,
         Holds(history, On(dev, risk), q, AtRisk(q), {}, {})
  PROVE  IInv'
<1> DEFINE u == On(q.dev, AtRisk(q))
<1>1. q \in Runs /\ u \in Points /\ Leads(history, q.writes, On(dev, risk), u)
  BY DEF Settled, Led
<1>2. u.p = {} /\ u.up = TRUE /\ u.l = q.dev /\ u.r = AtRisk(q)
  BY DEF On
<1>3. FsExists(q.dev) /\ Consistent(q.dev, q.mem, AtRisk(q), {}, {}, history) /\ Mirror(q.dev, q.mem)
  BY DEF Holds, Consistent
<1>4. Rests(u.l, q.mem, u.r, history)
  BY <1>2, <1>3 DEF Rests
<1> HIDE DEF u
<1>5. Achieves(name, size, q.mem, history, u)
  BY <1>2, <1>4 DEF Achieves, HistoryAfter
<1> QED BY <1>1, <1>5, ExecuteInv

-----------------------------------------------------------------------------
(***************************************************************************)
(* The directory.                                                          *)
(***************************************************************************)
Entered(words, k, w) == IF k > Len(words) THEN Append(words, w) ELSE [words EXCEPT ![k] = w]
Listed(words, n) == {words[k] : k \in 1 .. n} \cap File

\* What an entry leaves of the others.
Entry(new, words, k, w) ==
  /\ new \in Seq(Word) /\ Len(words) <= Len(new) /\ k <= Len(new) /\ new[k] = w
  /\ \A j \in 1 .. Len(words) : j # k => new[j] = words[j]

LEMMA EnteredIs ==
  ASSUME NEW words \in Seq(Word), NEW k \in 1 .. Len(words) + 1, NEW w \in Word
  PROVE  Entry(Entered(words, k, w), words, k, w)
<1> DEFINE new == Entered(words, k, w)
<1>1. CASE k > Len(words)
  <2>1. new = Append(words, w) /\ k = Len(words) + 1
    BY <1>1 DEF Entered
  <2> QED BY <2>1 DEF Entry
<1>2. CASE ~(k > Len(words))
  <2>1. new = [words EXCEPT ![k] = w] /\ k \in 1 .. Len(words)
    BY <1>2 DEF Entered
  <2>2. new \in Seq(Word) /\ Len(new) = Len(words)
    BY <2>1
  <2>3. \A j \in 1 .. Len(words) : new[j] = IF j = k THEN w ELSE words[j]
    BY <2>1
  <2> QED BY <2>1, <2>2, <2>3 DEF Entry
<1> QED BY <1>1, <1>2

LEMMA EntriesAre ==
  ASSUME NEW d, d.node[Root].direct # 0
  PROVE  Entries(d) = Listed(d.block[d.node[Root].direct], d.node[Root].size)
BY DEF Entries, Listed

\* The word w may be put at index k of the directory: what is there names
\* nothing or an inode in X, and so does w; at risk is all that would be lost.
Enters(r, R, X, k, w) ==
  LET b == r.dev.node[Root].direct
      words == r.dev.block[b]
      n == r.dev.node[Root].size
  IN  /\ r.ino[Root] = r.dev.node[Root] /\ k \in 1 .. n + 1 /\ w \in Word
      /\ w \in File => w \in X /\ w \notin Entries(r.dev)
      /\ k <= n /\ words[k] \in File => words[k] \in X
      /\ R \subseteq AtRisk(r) /\ Root \notin AtRisk(r)
      /\ \A i \in X \ AtRisk(r) :
           /\ i # w
           /\ i \in Entries(r.dev) => k <= n /\ words[k] = i
           /\ i \in r.dev.imap \/ r.dev.node[i] = NoDinode

\* The run q is r with w there; the dinode of the root is not written.
HasEntered(q, r, k, w) ==
  LET b == r.dev.node[Root].direct
      words == r.dev.block[b]
      n == r.dev.node[Root].size
      size == IF n < k THEN k ELSE n
  IN  /\ q.writes # <<>>
      /\ q.ind = r.ind /\ q.unsaved = r.unsaved /\ q.open = r.open
      /\ q.ino = [r.ino EXCEPT ![Root] = [r.dev.node[Root] EXCEPT !.size = size]]
      /\ q.dev.node = r.dev.node /\ q.dev.imap = r.dev.imap /\ q.dev.bmap = r.dev.bmap
      /\ q.mem.bmap = r.mem.bmap /\ q.mem.imap = r.mem.imap
      /\ \A c \in Block \ {b} : q.dev.block[c] = r.dev.block[c]
      /\ size <= Len(q.dev.block[b]) /\ q.dev.block[b][k] = w
      /\ \A j \in 1 .. n : j # k => q.dev.block[b][j] = words[j]
      /\ \A i \in Inode : i \in Entries(q.dev) <=>
           IF k <= n THEN (i \in Entries(r.dev) /\ i # words[k]) \/ (i = w /\ i \in File)
           ELSE i \in Entries(r.dev)

LEMMA WriteDirentHolds ==
  ASSUME NEW h, NEW s, NEW r, NEW R, NEW X, NEW hand, Holds(h, s, r, R, X, hand),
         NEW k, NEW w, Enters(r, R, X, k, w)
  PROVE  /\ Holds(h, s, WriteDirent(r, k, w), R, X, hand)
         /\ HasEntered(WriteDirent(r, k, w), r, k, w)
<1>0. PICK b, words, n, q :
        /\ b = r.dev.node[Root].direct /\ words = r.dev.block[b] /\ n = r.dev.node[Root].size
        /\ q = WriteDirent(r, k, w)
  OBVIOUS
<1>a. r.ino[Root] = r.dev.node[Root] /\ k \in 1 .. n + 1 /\ w \in Word
  BY <1>0 DEF Enters
<1>b. /\ w \in File => w \in X /\ w \notin Entries(r.dev)
      /\ k <= n /\ words[k] \in File => words[k] \in X
  BY <1>0 DEF Enters
<1>c. /\ R \subseteq AtRisk(r) /\ Root \notin AtRisk(r)
      /\ \A i \in X \ AtRisk(r) :
           /\ i # w
           /\ i \in Entries(r.dev) => k <= n /\ words[k] = i
           /\ i \in r.dev.imap \/ r.dev.node[i] = NoDinode
  BY <1>0 DEF Enters
<1> DEFINE new == Entered(words, k, w)
           m == Stored(r.mem, b, new)
           d == Filled(r.dev, b, new)
           z == Store(r, b, new)
<1>1. Still(h, s, r) /\ Consistent(r.dev, r.mem, R, X, hand, h) /\ Mirror(r.dev, r.mem)
  BY DEF Holds
<1>2. /\ r \in Runs /\ r.dev \in Device /\ r.mem \in Memory /\ r.ino \in [Inode -> Dinodes]
  BY <1>1, StillIs
<1>3. DirOK(r.dev) /\ b # 0 /\ Root \notin X /\ b \in Block /\ words \in Seq(Word) /\ n \in Nat
      /\ n <= Len(words) /\ Entries(r.dev) \subseteq File
  <2>1. DirOK(r.dev) /\ b # 0 /\ Root \notin X /\ Entries(r.dev) \subseteq File
    BY <1>0, <1>1, Owned
  <2>2. b \in Block /\ n <= Len(words)
    BY <1>0, <2>1 DEF DirOK
  <2>3. words \in Seq(Word) /\ n \in Nat
    BY <1>0, <1>2, <2>2, Numbers DEF Device, Dinodes
  <2> QED BY <2>1, <2>2, <2>3
<1>4. /\ new \in Seq(Word) /\ n <= Len(new) /\ k <= Len(new) /\ new[k] = w
      /\ \A j \in 1 .. n : j # k => new[j] = words[j]
  <2>1. Len(words) \in Nat /\ n \in Nat /\ n <= Len(words)
    BY <1>3
  <2>2. k \in 1 .. Len(words) + 1
    BY <1>a, <2>1
  <2>3. Entry(new, words, k, w)
    BY <1>a, <1>3, <2>2, EnteredIs
  <2> HIDE DEF new
  <2>4. new \in Seq(Word) /\ Len(words) <= Len(new) /\ k <= Len(new) /\ new[k] = w
        /\ \A j \in 1 .. Len(words) : j # k => new[j] = words[j]
    BY <2>3 DEF Entry
  <2> QED BY <2>1, <2>4
<1>5. q = GrowTo(z, Root, k)
  <2>1. Mapped(r, Root, 0) = b
    BY <1>0, <1>a DEF Mapped
  <2>2. WriteBlock(r, Root, 0, new) = z
    BY <1>3, <2>1 DEF WriteBlock, Store
  <2>3. q = GrowTo(WriteBlock(r, Root, 0, new), Root, k)
    BY <1>0, <1>3, <2>1 DEF WriteDirent, Entered
  <2> QED BY <2>2, <2>3
<1> HIDE DEF new
<1>6. d \in Device
  BY <1>2, <1>4, FilledDevice
<1>7. /\ d.imap = r.dev.imap /\ d.bmap = r.dev.bmap /\ d.node = r.dev.node
      /\ d.block[b] = new /\ \A c \in Block \ {b} : d.block[c] = r.dev.block[c]
  BY <1>2, <1>3 DEF Filled, Device
<1>8. /\ m \in Memory /\ m.bmap = r.mem.bmap /\ m.imap = r.mem.imap
      /\ m.csum[b] = Csum(new) /\ \A c \in Block \ {b} : m.csum[c] = r.mem.csum[c]
  <2>1. Csum(new) \in SUBSET Bit
    BY DEF Csum
  <2> QED BY <1>2, <1>3, <2>1 DEF Stored, Memory
<1> HIDE DEF d, m
<1>9. /\ Entries(r.dev) = Listed(words, n) /\ Entries(d) = Listed(new, n)
  BY <1>0, <1>3, <1>7, EntriesAre
<1>10. ASSUME NEW i \in Inode
       PROVE  i \in Entries(d) <=>
                IF k <= n THEN (i \in Entries(r.dev) /\ i # words[k]) \/ (i = w /\ i \in File)
                ELSE i \in Entries(r.dev)
  <2>1. \A j, l \in 1 .. n : words[j] = words[l] /\ words[j] \in File => j = l
    BY <1>0, <1>3 DEF DirOK
  <2>2. CASE k <= n
    <3>1. k \in 1 .. n
      BY <1>a, <1>3, <2>2
    <3>2. ASSUME i \in Entries(d) PROVE (i \in Entries(r.dev) /\ i # words[k]) \/ (i = w /\ i \in File)
      <4>1. PICK j \in 1 .. n : new[j] = i /\ i \in File
        BY <1>9, <3>2 DEF Listed
      <4>2. CASE j = k
        BY <1>4, <4>1, <4>2
      <4>3. CASE j # k
        <5>1. words[j] = i
          BY <1>4, <4>1, <4>3
        <5>2. i # words[k]
          BY <2>1, <3>1, <4>1, <4>3, <5>1
        <5>3. i \in Entries(r.dev)
          BY <1>9, <4>1, <5>1 DEF Listed
        <5> QED BY <5>2, <5>3
      <4> QED BY <4>2, <4>3
    <3>3. ASSUME i \in Entries(r.dev), i # words[k] PROVE i \in Entries(d)
      <4>1. PICK j \in 1 .. n : words[j] = i /\ i \in File
        BY <1>9, <3>3 DEF Listed
      <4>2. new[j] = i
        BY <1>4, <3>3, <4>1
      <4> QED BY <1>9, <4>1, <4>2 DEF Listed
    <3>4. ASSUME i = w, i \in File PROVE i \in Entries(d)
      <4>1. new[k] = i
        BY <1>4, <3>4
      <4> QED BY <1>9, <3>1, <3>4, <4>1 DEF Listed
    <3> QED BY <2>2, <3>2, <3>3, <3>4
  <2>3. CASE ~(k <= n)
    <3>1. \A j \in 1 .. n : new[j] = words[j]
      BY <1>a, <1>3, <1>4, <2>3
    <3>2. Listed(new, n) = Listed(words, n)
      BY <3>1 DEF Listed
    <3> QED BY <1>9, <2>3, <3>2
  <2> QED BY <2>2, <2>3
<1>11. DirOK(d)
  <2>1. ASSUME NEW j \in 1 .. n, NEW l \in 1 .. n, new[j] = new[l], new[j] \in File
        PROVE  j = l
    <3>1. \A c, e \in 1 .. n : words[c] = words[e] /\ words[c] \in File => c = e
      BY <1>0, <1>3 DEF DirOK
    <3>2. \A c \in 1 .. n : words[c] \in File => words[c] \in Entries(r.dev)
      BY <1>9 DEF Listed
    <3>3. \A c \in 1 .. n : c # k => new[c] = words[c]
      BY <1>4
    <3>4. CASE j # k /\ l # k
      BY <2>1, <3>1, <3>3, <3>4
    <3>5. CASE j = k /\ l # k
      BY <1>4, <1>b, <2>1, <3>2, <3>3, <3>5
    <3>6. CASE l = k /\ j # k
      BY <1>4, <1>b, <2>1, <3>2, <3>3, <3>6
    <3> QED BY <3>4, <3>5, <3>6
  <2> QED BY <1>0, <1>3, <1>4, <1>7, <2>1 DEF DirOK
<1>12. Entries(d) \ X = Entries(r.dev) \ X
  <2>1. Entries(d) \subseteq File
    BY DEF Entries
  <2>2. ASSUME NEW i \in File \ X PROVE i \in Entries(d) <=> i \in Entries(r.dev)
    <3>1. i # w /\ i \in Inode
      BY <1>b, <2>2 DEF File
    <3>2. k <= n => i # words[k]
      BY <1>b, <2>2
    <3> QED BY <1>10, <3>1, <3>2
  <2> QED BY <1>3, <2>1, <2>2
<1>13. Redirects(d, m, r.dev, r.mem, X, h)
  BY <1>0, <1>7, <1>8, <1>11, <1>12 DEF Redirects
<1>14. Consistent(d, m, R, X, hand, h)
  BY <1>1, <1>2, <1>6, <1>8, <1>13, RedirectsIs
<1>15. Fits(d, R, X, AtRisk(r))
  <2>1. ASSUME NEW i \in X \ AtRisk(r), i \in Entries(d) PROVE FALSE
    <3>1. i \in Inode /\ i \in File
      BY <2>1 DEF Entries, File
    <3>2. i # w /\ (i \in Entries(r.dev) => k <= n /\ words[k] = i)
      BY <1>c, <2>1
    <3>3. IF k <= n THEN (i \in Entries(r.dev) /\ i # words[k]) \/ (i = w /\ i \in File)
          ELSE i \in Entries(r.dev)
      BY <1>10, <2>1, <3>1
    <3> QED BY <3>2, <3>3
  <2> QED BY <1>c, <1>7, <2>1 DEF Fits
<1>16. /\ Holds(h, s, z, R, X, hand) /\ Kept(z, r) /\ z.open = r.open /\ z.mem = m
       /\ z.dev.block = d.block /\ z.dev.bmap = r.dev.bmap /\ Entries(z.dev) = Entries(d)
  <2>1. d = Filled(r.dev, b, new) /\ m = Stored(r.mem, b, new) /\ z = Store(r, b, new)
    BY DEF d, m
  <2> HIDE DEF z
  <2>2. Holds(h, s, z, R, X, hand) /\ HasStored(z, r, b, new)
    BY <1>1, <1>3, <1>4, <1>14, <1>15, <2>1, StoreHolds
  <2> QED BY <2>1, <2>2 DEF HasStored
<1>17. z \in Runs /\ Still(h, s, z) /\ z.ino = r.ino
  BY <1>16, StillIs DEF Holds, Kept
<1> HIDE DEF z
<1> DEFINE size == IF n < k THEN k ELSE n
           root == [r.ino[Root] EXCEPT !.size = size]
<1>18. root \in Dinodes /\ root = [r.dev.node[Root] EXCEPT !.size = size]
  <2>1. r.dev.node[Root].type = "dir" /\ size \in Nat /\ r.ino[Root] \in Dinodes
    BY <1>0, <1>a, <1>2, <1>3, Numbers DEF DirOK
  <2> HIDE DEF size
  <2> QED BY <1>a, <2>1 DEF Dinodes
<1>19. q = [z EXCEPT !.ino[Root] = root]
  <2>1. z.ino \in [Inode -> Dinodes] /\ z.ino[Root].size = n /\ Root \in Inode
    BY <1>0, <1>a, <1>2, <1>17, Numbers
  <2>2. z.ino[Root] = r.ino[Root]
    BY <1>17
  <2> QED BY <1>5, <1>17, <2>1, <2>2 DEF GrowTo, Runs
<1> HIDE DEF root
<1>20. /\ q \in Runs /\ q.dev = z.dev /\ q.writes = z.writes /\ q.ind = z.ind /\ q.mem = z.mem
       /\ q.open = z.open /\ q.unsaved = z.unsaved /\ q.ino = [z.ino EXCEPT ![Root] = root]
  BY <1>17, <1>18, <1>19, Numbers DEF Runs
<1>21. Holds(h, s, q, R, X, hand)
  BY <1>16, <1>17, <1>20, StillWith DEF Holds
<1>22. q.ino = [r.ino EXCEPT ![Root] = [r.dev.node[Root] EXCEPT !.size = size]]
  BY <1>17, <1>18, <1>20
<1>23. /\ q.writes # <<>> /\ q.ind = r.ind /\ q.unsaved = r.unsaved /\ q.open = r.open
       /\ q.dev.node = r.dev.node /\ q.dev.imap = r.dev.imap /\ q.dev.bmap = r.dev.bmap
       /\ q.mem.bmap = r.mem.bmap /\ q.mem.imap = r.mem.imap
       /\ q.dev.block = d.block /\ Entries(q.dev) = Entries(d)
  BY <1>7, <1>8, <1>16, <1>20 DEF Kept
<1>24. /\ \A c \in Block \ {b} : q.dev.block[c] = r.dev.block[c]
       /\ size <= Len(q.dev.block[b]) /\ q.dev.block[b][k] = w
       /\ \A j \in 1 .. n : j # k => q.dev.block[b][j] = words[j]
  BY <1>3, <1>4, <1>7, <1>23
<1>25. \A i \in Inode : i \in Entries(q.dev) <=>
         IF k <= n THEN (i \in Entries(r.dev) /\ i # words[k]) \/ (i = w /\ i \in File)
         ELSE i \in Entries(r.dev)
  BY <1>10, <1>23
<1>26. HasEntered(q, r, k, w)
  BY <1>0, <1>22, <1>23, <1>24, <1>25 DEF HasEntered
<1> QED BY <1>0, <1>21, <1>26

\* The dinode of the root in memory may have an entry more than the one on the
\* device, of an inode in X.
RootGrows(r, R, X) ==
  LET root == r.dev.node[Root]
      words == r.dev.block[root.direct]
      n == root.size
      size == r.ino[Root].size
  IN  /\ r.ino[Root] = [root EXCEPT !.size = size] /\ size \in {n, n + 1} /\ size <= Len(words)
      /\ size = n + 1 /\ words[size] \in File => words[size] \in X /\ words[size] \notin Entries(r.dev)
      /\ R \subseteq AtRisk(r) /\ Root \notin AtRisk(r) /\ X \subseteq File
      /\ \A i \in X \ AtRisk(r) :
           /\ i \notin Entries(r.dev) /\ (size = n + 1 => words[size] # i)
           /\ i \in r.dev.imap \/ r.dev.node[i] = NoDinode

LEMMA SyncRootHolds ==
  ASSUME NEW h, NEW s, NEW r, NEW R, NEW X, NEW hand, Holds(h, s, r, R, X, hand),
         RootGrows(r, R, X), r.ind[Root] = Zero
  PROVE  /\ Holds(h, s, SyncInode(r, Root), R, X, hand) /\ Settled(h, s, SyncInode(r, Root))
         /\ HasSynced(SyncInode(r, Root), r, Root)
         /\ \A i \in Inode : i \in Entries(SyncInode(r, Root).dev) <=>
              \/ i \in Entries(r.dev)
              \/ /\ r.ino[Root].size = r.dev.node[Root].size + 1
                 /\ i = r.dev.block[r.dev.node[Root].direct][r.ino[Root].size] /\ i \in File
<1>0. PICK root, b, words, n, size, q :
        /\ root = r.dev.node[Root] /\ b = root.direct /\ words = r.dev.block[b]
        /\ n = root.size /\ size = r.ino[Root].size /\ q = SyncInode(r, Root)
  OBVIOUS
<1>a. /\ r.ino[Root] = [root EXCEPT !.size = size] /\ size \in {n, n + 1} /\ size <= Len(words)
      /\ size = n + 1 /\ words[size] \in File => words[size] \in X /\ words[size] \notin Entries(r.dev)
  BY <1>0 DEF RootGrows
<1>b. /\ R \subseteq AtRisk(r) /\ Root \notin AtRisk(r) /\ X \subseteq File
      /\ \A i \in X \ AtRisk(r) :
           /\ i \notin Entries(r.dev) /\ (size = n + 1 => words[size] # i)
           /\ i \in r.dev.imap \/ r.dev.node[i] = NoDinode
  BY <1>0 DEF RootGrows
<1> DEFINE d == Noded(r.dev, r.ino, {Root})
<1>1. Still(h, s, r) /\ Consistent(r.dev, r.mem, R, X, hand, h) /\ Mirror(r.dev, r.mem)
  BY DEF Holds
<1>2. /\ r \in Runs /\ r.dev \in Device /\ r.mem \in Memory /\ r.ino \in [Inode -> Dinodes]
  BY <1>1, StillIs
<1>3. DirOK(r.dev) /\ b # 0 /\ Root \notin X /\ b \in Block /\ words \in Seq(Word) /\ n \in Nat
      /\ n <= Len(words) /\ Entries(r.dev) \subseteq File /\ Root \in Inode
  <2>1. DirOK(r.dev) /\ b # 0 /\ Root \notin X /\ Entries(r.dev) \subseteq File
    BY <1>0, <1>1, Owned
  <2>2. b \in Block /\ n <= Len(words)
    BY <1>0, <2>1 DEF DirOK
  <2>3. words \in Seq(Word) /\ n \in Nat
    BY <1>0, <1>2, <2>2, Numbers DEF Device, Dinodes
  <2> QED BY <2>1, <2>2, <2>3, Numbers
<1>4. d \in Device
  BY <1>2, NodedDevice
<1>5. /\ d.imap = r.dev.imap /\ d.bmap = r.dev.bmap /\ d.csum = r.dev.csum /\ d.block = r.dev.block
      /\ d.node = [i \in Inode |-> IF i \in {Root} THEN r.ino[i] ELSE r.dev.node[i]]
  BY <1>2, NodedIs
<1> HIDE DEF d
<1>6. /\ \A i \in Inode \ {Root} : d.node[i] = r.dev.node[i]
      /\ d.node[Root].type = root.type /\ d.node[Root].direct = b
      /\ d.node[Root].indirect = root.indirect /\ d.node[Root].size = size
  <2>1. d.node[Root] = [root EXCEPT !.size = size] /\ root \in Dinodes
    BY <1>0, <1>a, <1>2, <1>3, <1>5 DEF Device
  <2> QED BY <1>0, <1>5, <2>1 DEF Dinodes
<1>7. Entries(r.dev) = Listed(words, n) /\ Entries(d) = Listed(words, size)
  BY <1>0, <1>3, <1>5, <1>6, EntriesAre
<1>8. ASSUME NEW i \in Inode
      PROVE  i \in Entries(d) <=>
               i \in Entries(r.dev) \/ (size = n + 1 /\ i = words[size] /\ i \in File)
  <2>1. CASE size = n
    BY <1>3, <1>7, <2>1
  <2>2. CASE size = n + 1
    <3>1. 1 .. size = (1 .. n) \cup {size}
      BY <1>3, <2>2
    <3>2. i \in Listed(words, size) <=> i \in Listed(words, n) \/ (i = words[size] /\ i \in File)
      BY <3>1 DEF Listed
    <3> QED BY <1>7, <2>2, <3>2
  <2> QED BY <1>a, <2>1, <2>2
<1>9. DirOK(d)
  <2>1. \A j, k \in 1 .. n : words[j] = words[k] /\ words[j] \in File => j = k
    BY <1>0, <1>3 DEF DirOK
  <2>2. \A j, k \in 1 .. size : words[j] = words[k] /\ words[j] \in File => j = k
    <3>1. CASE size = n
      BY <2>1, <3>1
    <3>2. CASE size = n + 1
      <4>1. \A j \in 1 .. size : j \in 1 .. n \/ j = size
        BY <1>3, <3>2
      <4>2. \A j \in 1 .. n : words[j] \in File => words[j] \in Entries(r.dev)
        BY <1>7 DEF Listed
      <4>3. \A j \in 1 .. n : words[j] = words[size] => words[j] \notin File
        BY <1>a, <3>2, <4>2
      <4>4. ASSUME NEW j \in 1 .. size, NEW k \in 1 .. size, words[j] = words[k], words[j] \in File
            PROVE  j = k
        <5>1. CASE j = size /\ k = size
          BY <5>1
        <5>2. CASE j # size /\ k # size
          BY <2>1, <4>1, <4>4, <5>2
        <5>3. CASE j = size /\ k # size
          <6>1. k \in 1 .. n
            BY <4>1, <5>3
          <6> QED BY <4>3, <4>4, <5>3, <6>1
        <5>4. CASE j # size /\ k = size
          <6>1. j \in 1 .. n
            BY <4>1, <5>4
          <6> QED BY <4>3, <4>4, <5>4, <6>1
        <5> QED BY <5>1, <5>2, <5>3, <5>4
      <4> QED BY <4>4
    <3> QED BY <1>a, <3>1, <3>2
  <2>3. root.type = "dir" /\ root.indirect = 0
    BY <1>0, <1>3 DEF DirOK
  <2>4. d.node[Root].type = "dir" /\ d.node[Root].direct = b /\ d.node[Root].indirect = 0
        /\ d.node[Root].size = size /\ d.block[b] = words
    BY <1>0, <1>5, <1>6, <2>3
  <2>5. b \in Block /\ size <= Len(words)
    BY <1>3, <1>a
  <2> QED BY <2>2, <2>4, <2>5 DEF DirOK
<1>10. Entries(d) \ X = Entries(r.dev) \ X
  <2>1. Entries(d) \subseteq File /\ File \subseteq Inode
    BY DEF Entries, File
  <2>2. ASSUME NEW i \in File \ X PROVE i \in Entries(d) <=> i \in Entries(r.dev)
    <3>1. size = n + 1 => words[size] # i
      BY <1>a, <2>2
    <3> QED BY <1>8, <2>1, <3>1
  <2> QED BY <1>3, <2>1, <2>2
<1>11. Redirects(d, r.mem, r.dev, r.mem, X, h)
  <2>1. h = {} => r.mem.csum[b] = Csum(r.dev.block[b])
    <3>1. Root \in Reached(r.dev) \ X /\ b \in DataBlocks(r.dev, Root)
      BY <1>0, <1>1, Owned
    <3> QED BY <1>1, <3>1 DEF Consistent
  <2> QED BY <1>0, <1>5, <1>6, <1>9, <1>10, <2>1 DEF Redirects
<1>12. Consistent(d, r.mem, R, X, hand, h)
  BY <1>1, <1>2, <1>4, <1>11, RedirectsIs
<1>13. Fits(d, R, X, (r.open \ {Root}) \cup r.unsaved)
  <2>1. (r.open \ {Root}) \cup r.unsaved = AtRisk(r)
    BY <1>b DEF AtRisk
  <2>2. ASSUME NEW i \in X \ AtRisk(r) PROVE i \notin Entries(d) /\ (i \in d.imap \/ d.node[i] = NoDinode)
    <3>1. i \notin Entries(r.dev) /\ (size = n + 1 => words[size] # i)
      BY <1>b, <2>2
    <3>2. i \in r.dev.imap \/ r.dev.node[i] = NoDinode
      BY <1>b, <2>2
    <3>3. i # Root
      BY <1>3, <2>2
    <3>4. i \notin Entries(d)
      <4>1. Entries(d) \subseteq Inode
        BY DEF Entries, File
      <4> QED BY <1>8, <3>1, <4>1
    <3>5. i \in Inode => d.node[i] = r.dev.node[i]
      BY <1>6, <3>3
    <3>6. i \in Inode
      BY <1>b, <2>2 DEF File
    <3> QED BY <1>5, <3>2, <3>4, <3>5, <3>6
  <2> QED BY <1>b, <2>1, <2>2 DEF Fits
<1>14. Holds(h, s, q, R, X, hand) /\ Settled(h, s, q) /\ HasSynced(q, r, Root)
  <2>1. d = Noded(r.dev, r.ino, {Root})
    BY DEF d
  <2> QED BY <1>0, <1>1, <1>3, <1>12, <1>13, <2>1, SyncInodeHolds
<1>15. q.dev = d
  BY <1>14 DEF HasSynced, d
<1> QED BY <1>0, <1>8, <1>14, <1>15

LEMMA NumbersAreWords ==
  /\ \A i \in File : i \in Word /\ i # Removed /\ i \in Inode /\ i # Root
  /\ \A b \in Block : b \in Word /\ b # 0
  /\ Removed \in Word /\ Removed \notin File
<1>1. \A i \in File : i \in Word /\ i # Removed /\ i \in Inode /\ i # Root
  BY VolumeAssumption DEF Removed, Word, File, Inode, Root
<1>2. \A b \in Block : b \in Word /\ b # 0
  BY VolumeAssumption DEF Removed, Word, Block
<1>3. Removed \in Word
  BY VolumeAssumption DEF Removed, Word
<1> QED BY <1>1, <1>2, <1>3

-----------------------------------------------------------------------------
(***************************************************************************)
(* Files created.                                                          *)
(***************************************************************************)

\* What a command finds and leaves: no inode in memory differs from its
\* dinode, and the inodes at risk are the ones the freemap has to be flushed
\* for.
AtRest(h, s, r, R) ==
  /\ Holds(h, s, r, R, {}, {}) /\ r.open = {} /\ r.unsaved = R
  /\ r.ino = r.dev.node /\ \A i \in Inode : r.ind[i] = Zero

LEMMA AtRestIs ==
  ASSUME NEW h, NEW s, NEW r, NEW R, AtRest(h, s, r, R)
  PROVE  /\ Still(h, s, r) /\ Consistent(r.dev, r.mem, R, {}, {}, h) /\ Mirror(r.dev, r.mem)
         /\ r \in Runs /\ r.dev \in Device /\ r.mem \in Memory /\ r.ino \in [Inode -> Dinodes]
         /\ AtRisk(r) = R /\ R \in SUBSET Inode /\ R \subseteq File
<1>1. Still(h, s, r) /\ Consistent(r.dev, r.mem, R, {}, {}, h) /\ Mirror(r.dev, r.mem)
  BY DEF AtRest, Holds
<1>2. R \subseteq File
  BY <1>1 DEF Consistent
<1>3. AtRisk(r) = R
  BY DEF AtRest, AtRisk
<1> QED BY <1>1, <1>2, <1>3, StillIs

\* testfs_create_inode
HasTaken(q, r, i) ==
  /\ q \in Runs /\ q.ino = [r.ino EXCEPT ![i] = Dinode("file", 0, 0, 0)]
  /\ q.ind = r.ind /\ q.open = r.open /\ q.unsaved = r.unsaved
  /\ q.mem = [r.mem EXCEPT !.imap = @ \cup {i}]
  /\ q.dev = Numbered(r.dev, r.mem.imap \cup {i})

LEMMA NewDinode ==
  /\ Dinode("file", 0, 0, 0) \in Dinodes /\ [NoDinode EXCEPT !.type = "file"] = Dinode("file", 0, 0, 0)
  /\ NoDinode \in Dinodes
BY DEF Dinode, NoDinode, Dinodes, BlockPtr

LEMMA FirstFreeInodeIs ==
  ASSUME NEW r, Inode \ r.mem.imap # {}
  PROVE  FirstFreeInode(r) \in Inode \ r.mem.imap
<1>1. Inode \ r.mem.imap \subseteq Nat
  BY Numbers
<1>2. \E i \in Inode \ r.mem.imap : \A j \in Inode \ r.mem.imap : i <= j
  BY <1>1, LeastNumber
<1> QED BY <1>2 DEF FirstFreeInode

LEMMA CreateInodeHolds ==
  ASSUME NEW h, NEW s, NEW r, NEW R, AtRest(h, s, r, R), NEW i \in Inode \ r.mem.imap
  PROVE  /\ i \in File \ Reached(r.dev)
         /\ Holds(h, s, CreateInode(r, i, "file"), R, {i}, {})
         /\ HasTaken(CreateInode(r, i, "file"), r, i)
<1>0. PICK q : q = CreateInode(r, i, "file")
  OBVIOUS
<1> DEFINE I == r.mem.imap \cup {i}
           o == [r EXCEPT !.mem.imap = @ \cup {i}]
           z == WriteSync(o, "imap", 0, o.mem.imap)
           d == Numbered(r.dev, I)
           new == Dinode("file", 0, 0, 0)
<1>1. /\ Still(h, s, r) /\ Consistent(r.dev, r.mem, R, {}, {}, h) /\ Mirror(r.dev, r.mem)
      /\ r \in Runs /\ r.dev \in Device /\ r.mem \in Memory /\ r.ino \in [Inode -> Dinodes]
      /\ AtRisk(r) = R /\ R \in SUBSET Inode /\ R \subseteq File
  BY AtRestIs
<1>2. /\ Root \in Reached(r.dev) /\ Reached(r.dev) \subseteq r.dev.imap /\ r.dev.imap = r.mem.imap
      /\ r.dev.node[i] = NoDinode /\ I \in SUBSET Inode
  <2>1. Root \in Reached(r.dev) /\ Sound(r.dev, r.mem.bmap, {}) /\ r.dev.imap = r.mem.imap
    <3>1. Root \in Reached(r.dev)
      BY <1>1, Owned
    <3> QED BY <1>1, <3>1 DEF Consistent
  <2> QED BY <1>1, <2>1 DEF Sound, Memory
<1>3. i \in File \ Reached(r.dev)
  BY <1>2 DEF File
<1>4. Same(o, r) /\ o.open = r.open /\ o.unsaved = r.unsaved /\ o.mem.imap = I
      /\ o.mem = [r.mem EXCEPT !.imap = @ \cup {i}]
      /\ o.mem.bmap = r.mem.bmap /\ o.mem.csum = r.mem.csum /\ o.mem.dirty = r.mem.dirty
  <2>1. o = [r EXCEPT !.mem.imap = I]
    BY <1>1 DEF Runs
  <2>2. o.mem = [r.mem EXCEPT !.imap = I]
    BY <1>1, <2>1 DEF Runs
  <2> HIDE DEF I, o
  <2>3. Same(o, r) /\ o.open = r.open /\ o.unsaved = r.unsaved /\ o.mem.imap = I
        /\ o.mem.bmap = r.mem.bmap /\ o.mem.csum = r.mem.csum /\ o.mem.dirty = r.mem.dirty
    BY <1>1, <1>2, <2>1 DEF Runs, Memory, Same
  <2> QED BY <2>2, <2>3 DEF I
<1>5. q = [z EXCEPT !.ino[i] = new]
  <2>1. [r.dev.node[i] EXCEPT !.type = "file"] = new
    BY <1>2, NewDinode
  <2> QED BY <1>0, <2>1 DEF CreateInode
<1> HIDE DEF o
<1>6. d \in Device /\ d.bmap = r.dev.bmap /\ d.csum = r.dev.csum /\ d.node = r.dev.node
      /\ d.block = r.dev.block /\ d.imap = I
  BY <1>1, <1>2, NumberedDevice, NumberedIs
<1> HIDE DEF d
<1>7. Consistent(r.dev, r.mem, R, {i}, {}, h)
  <2>1. {} \cup {i} = {i}
    OBVIOUS
  <2> QED BY <1>1, <1>3, <2>1, CheckoutFree
<1>8. Beside(d, o.mem, r.dev, r.mem, {i}, {}, {}, h)
  <2>1. r.dev.bmap \subseteq r.mem.bmap
    BY <1>1 DEF Consistent
  <2> QED BY <1>2, <1>4, <1>6, <2>1 DEF Beside
<1>9. Consistent(d, o.mem, R, {i}, {}, h) /\ Entries(d) = Entries(r.dev)
  BY <1>1, <1>6, <1>7, <1>8, BesideIs
<1>10. Still(h, s, o) /\ AtRisk(o) = R /\ o.dev = r.dev /\ Mirror(o.dev, o.mem)
  <2>1. Still(h, s, o) /\ AtRisk(o) = R /\ o.dev = r.dev
    BY <1>1, <1>4, SameStill DEF Same, AtRisk
  <2> QED BY <1>1, <1>4, <2>1 DEF Mirror
<1>11. Fits(d, R, {i}, AtRisk(o))
  <2>1. i \notin Entries(d) /\ i \in d.imap
    BY <1>3, <1>6, <1>9, <1>1, Owned
  <2>2. Root \notin R
    BY <1>1 DEF File
  <2> QED BY <1>10, <2>1, <2>2 DEF Fits
<1>12. Holds(h, s, z, R, {i}, {}) /\ HasNumbered(z, o)
  <2>1. d = Numbered(o.dev, o.mem.imap)
    BY <1>4, <1>10 DEF d
  <2> QED BY <1>9, <1>10, <1>11, <2>1, NumberHolds
<1> HIDE DEF z
<1>13. z \in Runs /\ Still(h, s, z) /\ new \in Dinodes
  BY <1>12, StillIs, NewDinode DEF Holds
<1> HIDE DEF new
<1>14. /\ q \in Runs /\ q.dev = z.dev /\ q.writes = z.writes /\ q.ind = z.ind /\ q.mem = z.mem
       /\ q.open = z.open /\ q.unsaved = z.unsaved /\ q.ino = [z.ino EXCEPT ![i] = new]
  BY <1>5, <1>13 DEF Runs
<1>15. Holds(h, s, q, R, {i}, {})
  BY <1>12, <1>14, StillWith DEF Holds
<1>16. HasTaken(q, r, i)
  <2>1. z.dev = d /\ z.mem = o.mem /\ z.ino = o.ino /\ z.ind = o.ind /\ z.open = o.open
        /\ z.unsaved = o.unsaved
    BY <1>4, <1>10, <1>12 DEF HasNumbered, d
  <2> QED BY <1>4, <1>14, <2>1 DEF HasTaken, Same, d, new
<1> QED BY <1>0, <1>3, <1>15, <1>16

\* testfs_add_dirent
Least(S) == CHOOSE k \in S : \A l \in S : k <= l

LEMMA AddDirentHolds ==
  ASSUME NEW h, NEW s, NEW r, NEW R, NEW i \in File, Holds(h, s, r, R, {i}, {}),
         r.ino[Root] = r.dev.node[Root], i \notin Entries(r.dev), R \subseteq AtRisk(r),
         i \in AtRisk(r), Root \notin AtRisk(r)
  PROVE  \E k : /\ AddDirent(r, i) = WriteDirent(r, k, i) /\ Enters(r, R, {i}, k, i)
                /\ k <= r.dev.node[Root].size =>
                    r.dev.block[r.dev.node[Root].direct][k] \notin File
<1>0. PICK b, words, n :
        /\ b = r.dev.node[Root].direct /\ words = r.dev.block[b] /\ n = r.dev.node[Root].size
  OBVIOUS
<1> DEFINE removed == {k \in 1 .. n : words[k] = Removed}
           k == IF removed = {} THEN n + 1 ELSE Least(removed)
<1>1. Mapped(r, Root, 0) = b /\ b # 0 /\ n \in Nat
  <2>1. DirOK(r.dev) /\ r.dev.node[Root].direct # 0 /\ r.dev \in Device
    BY Owned, StillIs DEF Holds
  <2>2. n \in Nat
    BY <1>0, <2>1, Numbers DEF Device, Dinodes
  <2> QED BY <1>0, <2>1, <2>2 DEF Mapped
<1>2. AddDirent(r, i) = WriteDirent(r, k, i)
  <2>1. r.ino[Root].size = n /\ r.dev.block[b] = words
    BY <1>0
  <2>2. {l \in 1 .. r.ino[Root].size : r.dev.block[b][l] = Removed} = removed
    BY <2>1
  <2>3. LET S == IF Mapped(r, Root, 0) = 0 THEN {}
                 ELSE {l \in 1 .. r.ino[Root].size : r.dev.block[Mapped(r, Root, 0)][l] = Removed}
        IN  AddDirent(r, i) = WriteDirent(r, IF S = {} THEN r.ino[Root].size + 1 ELSE Least(S), i)
    BY DEF AddDirent, Least
  <2> HIDE DEF removed
  <2>4. (IF Mapped(r, Root, 0) = 0 THEN {}
         ELSE {l \in 1 .. r.ino[Root].size : r.dev.block[Mapped(r, Root, 0)][l] = Removed}) = removed
    BY <1>1, <2>2
  <2> QED BY <2>1, <2>3, <2>4
<1>3. k \in 1 .. n + 1 /\ (k <= n => words[k] = Removed)
  <2>1. CASE removed = {}
    BY <1>1, <2>1
  <2>2. CASE removed # {}
    <3>1. removed \subseteq Nat
      OBVIOUS
    <3>2. \E j \in removed : \A l \in removed : j <= l
      BY <2>2, <3>1, LeastNumber
    <3>3. k \in removed
      BY <2>2, <3>2 DEF Least
    <3> QED BY <1>1, <3>3
  <2> QED BY <2>1, <2>2
<1> HIDE DEF k
<1>4. i \in Word /\ (k <= n => words[k] \notin File)
  BY <1>3, NumbersAreWords
<1>5. Enters(r, R, {i}, k, i)
  BY <1>0, <1>3, <1>4 DEF Enters
<1> QED BY <1>0, <1>2, <1>4, <1>5

\* The run q is r with the empty file i.
HasCreated(q, r, i) ==
  /\ q.writes # <<>> /\ Entries(q.dev) = Entries(r.dev) \cup {i}
  /\ q.dev.node[i] = Dinode("file", 0, 0, 0)
  /\ \A j \in Inode \ {Root, i} : q.dev.node[j] = r.dev.node[j]
  /\ q.mem.bmap = r.mem.bmap /\ q.mem.imap = r.mem.imap \cup {i}

LEMMA CreateFileHolds ==
  ASSUME NEW h, NEW s, NEW r, NEW R, AtRest(h, s, r, R), Inode \ r.mem.imap # {}
  PROVE  /\ FirstFreeInode(r) \in File \ Entries(r.dev) /\ FirstFreeInode(r) \notin r.mem.imap
         /\ AtRest(h, s, CreateFile(r), R) /\ Settled(h, s, CreateFile(r))
         /\ HasCreated(CreateFile(r), r, FirstFreeInode(r))
<1>0. PICK i, c, e, f, g, q :
        /\ i = FirstFreeInode(r) /\ c = CreateInode(r, i, "file") /\ e = [c EXCEPT !.open = {i}]
        /\ f = AddDirent(e, i) /\ g = SyncInode(f, Root) /\ q = SyncInode(g, i)
  OBVIOUS
<1> DEFINE new == Dinode("file", 0, 0, 0)
<1>1. q = CreateFile(r)
  BY <1>0 DEF CreateFile
<1>2. i \in Inode \ r.mem.imap
  BY <1>0, FirstFreeInodeIs
<1>3. /\ Still(h, s, r) /\ Consistent(r.dev, r.mem, R, {}, {}, h)
      /\ r \in Runs /\ r.dev \in Device /\ r.mem \in Memory /\ r.ino \in [Inode -> Dinodes]
      /\ AtRisk(r) = R /\ R \in SUBSET Inode /\ R \subseteq File
  BY AtRestIs
<1>4. r.open = {} /\ r.unsaved = R /\ r.ino = r.dev.node /\ \A j \in Inode : r.ind[j] = Zero
  BY DEF AtRest
<1>5. i \in File \ Reached(r.dev) /\ Holds(h, s, c, R, {i}, {}) /\ HasTaken(c, r, i)
  BY <1>0, <1>2, CreateInodeHolds
<1>6. i \in Inode /\ i # Root /\ Root \in Inode /\ new \in Dinodes /\ i \notin Entries(r.dev)
      /\ Entries(r.dev) \subseteq File
  <2>1. Reached(r.dev) = {Root} \cup Entries(r.dev) /\ Entries(r.dev) \subseteq File
    BY <1>3, Owned
  <2> QED BY <1>5, <2>1, NumbersAreWords, NewDinode, Numbers
<1>7. /\ c \in Runs /\ c.ino = [r.ino EXCEPT ![i] = new] /\ c.ind = r.ind /\ c.open = {}
      /\ c.unsaved = R /\ c.mem.bmap = r.mem.bmap /\ c.mem.imap = r.mem.imap \cup {i}
      /\ c.dev.node = r.dev.node /\ c.dev.block = r.dev.block
  <2>1. /\ c \in Runs /\ c.ino = [r.ino EXCEPT ![i] = new] /\ c.ind = r.ind /\ c.open = {}
        /\ c.unsaved = R /\ c.mem = [r.mem EXCEPT !.imap = @ \cup {i}]
        /\ c.dev = Numbered(r.dev, r.mem.imap \cup {i})
    BY <1>4, <1>5 DEF HasTaken
  <2>2. c.mem.bmap = r.mem.bmap /\ c.mem.imap = r.mem.imap \cup {i}
    BY <1>3, <2>1 DEF Memory
  <2>3. c.dev.node = r.dev.node /\ c.dev.block = r.dev.block
    BY <1>3, <2>1, NumberedIs
  <2> QED BY <2>1, <2>2, <2>3
<1> HIDE DEF new
<1>8. Same(e, c) /\ e.mem = c.mem /\ e.open = {i} /\ e.unsaved = R
  <2>1. {i} \in SUBSET Inode
    BY <1>6
  <2> QED BY <1>0, <1>7, <2>1 DEF Runs, Same
<1>9. Holds(h, s, e, R, {i}, {}) /\ AtRisk(e) = {i} \cup R
  <2>1. Still(h, s, e) /\ e.dev = c.dev /\ e.mem = c.mem
    BY <1>5, <1>8, SameStill DEF Holds, Same
  <2>2. AtRisk(e) = {i} \cup R
    BY <1>8 DEF AtRisk
  <2> QED BY <1>5, <2>1, <2>2 DEF Holds
<1>10. e.dev.node = r.dev.node /\ e.dev.block = r.dev.block /\ e.ino = c.ino /\ e.ind = r.ind
       /\ e.ino[Root] = e.dev.node[Root] /\ Entries(e.dev) = Entries(r.dev)
  <2>1. e.dev.node = r.dev.node /\ e.dev.block = r.dev.block /\ e.ino = c.ino /\ e.ind = r.ind
    BY <1>7, <1>8 DEF Same
  <2>2. e.ino[Root] = r.ino[Root]
    BY <1>3, <1>6, <1>7, <2>1
  <2>3. Entries(e.dev) = Entries(r.dev)
    BY <2>1 DEF Entries
  <2> QED BY <1>4, <2>1, <2>2, <2>3
<1>11. PICK k : /\ f = WriteDirent(e, k, i) /\ Enters(e, R, {i}, k, i)
                /\ k <= r.dev.node[Root].size =>
                     r.dev.block[r.dev.node[Root].direct][k] \notin File
  <2>1. i \in File /\ i \notin Entries(e.dev) /\ R \subseteq AtRisk(e) /\ i \in AtRisk(e)
        /\ Root \notin AtRisk(e)
    BY <1>3, <1>5, <1>6, <1>9, <1>10 DEF File
  <2>2. Holds(h, s, e, R, {i}, {}) /\ e.ino[Root] = e.dev.node[Root]
    BY <1>9, <1>10
  <2>3. \E k : /\ AddDirent(e, i) = WriteDirent(e, k, i) /\ Enters(e, R, {i}, k, i)
               /\ k <= e.dev.node[Root].size =>
                   e.dev.block[e.dev.node[Root].direct][k] \notin File
    BY <2>1, <2>2, AddDirentHolds
  <2>4. f = AddDirent(e, i)
    BY <1>0
  <2> QED BY <1>10, <2>3, <2>4
<1>12. Holds(h, s, f, R, {i}, {}) /\ HasEntered(f, e, k, i)
  BY <1>9, <1>11, WriteDirentHolds
<1>13. PICK b, words, n, size, after :
         /\ b = r.dev.node[Root].direct /\ words = r.dev.block[b] /\ n = r.dev.node[Root].size
         /\ size = (IF n < k THEN k ELSE n) /\ after = f.dev.block[b]
  OBVIOUS
<1>14. /\ f.ind = r.ind /\ f.unsaved = R /\ f.open = {i}
       /\ f.ino = [c.ino EXCEPT ![Root] = [r.dev.node[Root] EXCEPT !.size = size]]
       /\ f.dev.node = r.dev.node /\ f.mem.bmap = r.mem.bmap /\ f.mem.imap = r.mem.imap \cup {i}
       /\ size <= Len(after) /\ after[k] = i
       /\ \A j \in Inode : j \in Entries(f.dev) <=>
            IF k <= n THEN (j \in Entries(r.dev) /\ j # words[k]) \/ (j = i /\ j \in File)
            ELSE j \in Entries(r.dev)
  BY ZenonT(40), <1>7, <1>8, <1>10, <1>12, <1>13 DEF HasEntered
<1>15. k \in 1 .. n + 1 /\ n \in Nat
  <2>1. n \in Nat
    BY <1>3, <1>6, <1>13 DEF Device, Dinodes
  <2> QED BY <1>10, <1>11, <1>13, <2>1 DEF Enters
<1>16. f \in Runs /\ f.dev \in Device /\ f.ino \in [Inode -> Dinodes] /\ c.ino \in [Inode -> Dinodes]
  BY <1>7, <1>12, StillIs DEF Holds, Runs
<1>17. size \in {n, n + 1} /\ (size = n + 1 => k = n + 1) /\ (size = n => k <= n)
  BY <1>13, <1>15
<1>18. f.ino[Root] = [r.dev.node[Root] EXCEPT !.size = size] /\ f.ino[Root].size = size
       /\ f.ino[i] = new
  <2>1. f.ino[Root] = [r.dev.node[Root] EXCEPT !.size = size]
    BY <1>6, <1>14, <1>16
  <2>2. r.dev.node[Root] \in Dinodes
    BY <1>3, <1>6 DEF Device
  <2>3. f.ino[i] = c.ino[i]
    BY <1>6, <1>14, <1>16
  <2>4. c.ino[i] = new
    BY <1>3, <1>6, <1>7
  <2> QED BY <2>1, <2>2, <2>3, <2>4 DEF Dinodes
<1>19. RootGrows(f, R, {i})
  <2>1. AtRisk(f) = {i} \cup R
    BY <1>14 DEF AtRisk
  <2>2. size = n + 1 => after[size] = i /\ i \notin Entries(f.dev)
    BY <1>6, <1>14, <1>15, <1>17
  <2>3. Root \notin AtRisk(f) /\ {i} \subseteq File
    BY <1>3, <1>5, <1>6, <2>1 DEF File
  <2>4. {i} \ AtRisk(f) = {}
    BY <2>1
  <2> QED BY <1>13, <1>14, <1>17, <1>18, <2>1, <2>2, <2>3, <2>4 DEF RootGrows
<1>20. /\ Holds(h, s, g, R, {i}, {}) /\ HasSynced(g, f, Root)
       /\ \A j \in Inode : j \in Entries(g.dev) <=>
            j \in Entries(f.dev) \/ (size = n + 1 /\ j = after[size] /\ j \in File)
  <2>1. f.ind[Root] = Zero
    BY <1>4, <1>6, <1>14
  <2>2. /\ Holds(h, s, SyncInode(f, Root), R, {i}, {}) /\ HasSynced(SyncInode(f, Root), f, Root)
        /\ \A j \in Inode : j \in Entries(SyncInode(f, Root).dev) <=>
              \/ j \in Entries(f.dev)
              \/ /\ f.ino[Root].size = f.dev.node[Root].size + 1
                 /\ j = f.dev.block[f.dev.node[Root].direct][f.ino[Root].size] /\ j \in File
    BY <1>12, <1>19, <2>1, SyncRootHolds
  <2>3. f.ino[Root].size = size /\ f.dev.node[Root].size = n
        /\ f.dev.block[f.dev.node[Root].direct] = after
    BY <1>13, <1>14, <1>18
  <2> QED BY <1>0, <2>2, <2>3
<1>21. Entries(g.dev) = Entries(r.dev) \cup {i}
  <2>1. Entries(g.dev) \subseteq Inode /\ Entries(r.dev) \cup {i} \subseteq Inode
    BY <1>6 DEF Entries, File
  <2>2. ASSUME NEW j \in Inode PROVE j \in Entries(g.dev) <=> j \in Entries(r.dev) \/ j = i
    <3>1. CASE size = n + 1
      BY <1>5, <1>14, <1>15, <1>17, <1>20, <3>1
    <3>2. CASE size = n
      <4>1. k <= n /\ size # n + 1 /\ words[k] \notin File
        BY <1>11, <1>13, <1>15, <1>17, <3>2
      <4>2. j \in Entries(g.dev) <=> (j \in Entries(r.dev) /\ j # words[k]) \/ (j = i /\ j \in File)
        BY <1>14, <1>20, <4>1
      <4>3. j \in Entries(r.dev) => j # words[k]
        BY <1>6, <4>1
      <4> QED BY <1>5, <4>2, <4>3
    <3> QED BY <1>17, <3>1, <3>2
  <2> QED BY <2>1, <2>2
<1>22. /\ g.dev = Noded(f.dev, f.ino, {Root}) /\ g.mem = f.mem /\ g.ino = f.ino /\ g.ind = r.ind
       /\ g.open = {i} /\ g.unsaved = R
  BY <1>6, <1>14, <1>20 DEF HasSynced
<1>23. /\ Still(h, s, g) /\ Consistent(g.dev, g.mem, R, {i}, {}, h) /\ Mirror(g.dev, g.mem)
       /\ g.dev \in Device /\ g.ino \in [Inode -> Dinodes]
  BY <1>20, StillIs DEF Holds
<1> DEFINE d == Noded(g.dev, g.ino, {i})
<1>24. /\ d \in Device /\ d.imap = g.dev.imap /\ d.bmap = g.dev.bmap /\ d.csum = g.dev.csum
       /\ d.block = g.dev.block
       /\ d.node = [j \in Inode |-> IF j \in {i} THEN g.ino[j] ELSE g.dev.node[j]]
  BY <1>23, NodedDevice, NodedIs
<1> HIDE DEF d
<1>25. Consistent(d, g.mem, R, {i}, {}, h) /\ Entries(d) = Entries(g.dev)
  <2>1. Beside(d, g.mem, g.dev, g.mem, {i}, {}, {}, h)
    BY <1>23, <1>24 DEF Beside, Consistent
  <2> QED BY <1>23, <1>24, <2>1, BesideIs
<1>26. d.node[i] = new
  BY <1>6, <1>18, <1>22, <1>24
<1>27. FileOK(d, i) /\ BlocksOf(d, i) = {} /\ DataBlocks(d, i) = {}
  <2>1. FileOK(d, i) /\ d.node[i].size = 0
    BY <1>26 DEF FileOK, new, Dinode
  <2> QED BY <2>1, FileBlocks
<1>28. Consistent(d, g.mem, R, {}, {}, h)
  <2>1. i \in d.imap
    <3>1. d.imap = g.mem.imap
      BY <1>25 DEF Consistent
    <3> QED BY <1>14, <1>22, <3>1
  <2>2. i \in {i} \cap Entries(d)
    BY <1>21, <1>25
  <2>3. Consistent(d, g.mem, R, {i} \ {i}, {} \ BlocksOf(d, i), h)
    BY <1>25, <1>27, <2>1, <2>2, Checkin
  <2>4. {i} \ {i} = {} /\ {} \ BlocksOf(d, i) = {}
    BY <1>27
  <2> QED BY <2>3, <2>4
<1>29. Holds(h, s, q, R, {}, {}) /\ Settled(h, s, q) /\ HasSynced(q, g, i)
  <2>1. d = Noded(g.dev, g.ino, {i}) /\ g.ind[i] = Zero
    BY <1>4, <1>6, <1>22 DEF d
  <2>2. (g.open \ {i}) \cup g.unsaved = R
    BY <1>22
  <2>3. Fits(d, R, {}, R)
    BY <1>3 DEF Fits, File
  <2> QED BY <1>0, <1>6, <1>23, <1>28, <2>1, <2>2, <2>3, SyncInodeHolds
<1>30. /\ q.writes # <<>> /\ q.dev = d /\ q.mem = g.mem /\ q.ino = g.ino /\ q.ind = r.ind
       /\ q.open = {} /\ q.unsaved = R
  BY <1>22, <1>29 DEF HasSynced, d
<1>31. \A j \in Inode : d.node[j] = IF j = i THEN new ELSE IF j = Root THEN f.ino[Root]
                                   ELSE r.dev.node[j]
  <2>1. \A j \in Inode : g.dev.node[j] = IF j = Root THEN f.ino[Root] ELSE r.dev.node[j]
    <3>1. Noded(f.dev, f.ino, {Root}).node =
            [j \in Inode |-> IF j \in {Root} THEN f.ino[j] ELSE f.dev.node[j]]
      BY <1>16, NodedIs
    <3> QED BY <1>14, <1>22, <3>1
  <2> QED BY <1>24, <1>26, <2>1
<1>32. \A j \in Inode : g.ino[j] = d.node[j]
  <2>1. ASSUME NEW j \in Inode PROVE g.ino[j] = d.node[j]
    <3>1. j # Root => f.ino[j] = c.ino[j]
      BY <1>14, <1>16
    <3>2. j # i => c.ino[j] = r.dev.node[j]
      BY <1>3, <1>4, <1>7
    <3> QED BY <1>6, <1>18, <1>22, <1>31, <3>1, <3>2
  <2> QED BY <2>1
<1>33. g.ino = d.node
  BY <1>23, <1>24, <1>32 DEF Device
<1>34. AtRest(h, s, q, R)
  BY <1>4, <1>29, <1>30, <1>33 DEF AtRest
<1>35. HasCreated(q, r, i)
  BY <1>14, <1>21, <1>22, <1>25, <1>26, <1>30, <1>31 DEF HasCreated, new
<1> QED BY <1>0, <1>1, <1>2, <1>5, <1>6, <1>29, <1>34, <1>35

LEMMA NowAtRest ==
  ASSUME IInv, Usable
  PROVE  AtRest(history, On(dev, risk), Now, risk) /\ Now.dev = dev /\ Now.mem = mem
<1>0. PICK r, s : r = Now /\ s = On(dev, risk)
  OBVIOUS
<1>1. /\ Settled(history, s, r) /\ r.dev = dev /\ r.mem = mem /\ r.ino = dev.node /\ r.open = {}
      /\ r.unsaved = risk /\ AtRisk(r) = risk /\ \A i \in Inode : r.ind[i] = Zero
  <2>1. Ready
    BY DEF Usable
  <2> QED BY <1>0, <2>1, NowIs
<1>2. Consistent(dev, mem, risk, {}, {}, history) /\ Mirror(dev, mem)
  BY DEF IInv, Usable, Ready, Rests
<1>3. Holds(history, s, r, risk, {}, {})
  BY <1>1, <1>2, SettledStill DEF Holds
<1>4. AtRest(history, s, r, risk)
  BY <1>1, <1>3 DEF AtRest
<1> QED BY <1>0, <1>1, <1>4

\* A command that leaves the volume at rest.
LEMMA RestInv ==
  ASSUME IInv, Usable, NEW name \in Names \ {"mkfs", "bench"}, NEW size \in Nat, NEW q,
         Execute(name, size, q), NEW R, AtRest(history, On(dev, risk), q, R),
         Settled(history, On(dev, risk), q), q.writes # <<>>
  PROVE  IInv'
<1>1. AtRisk(q) = R
  BY AtRestIs
<1>2. Holds(history, On(dev, risk), q, AtRisk(q), {}, {})
  BY <1>1 DEF AtRest
<1>3. Ready
  BY DEF Usable
<1> QED BY <1>2, <1>3, SettledInv

LEMMA StartCreateInv == IInv /\ StartCreate => IInv'
<1> SUFFICES ASSUME IInv, StartCreate PROVE IInv'
  OBVIOUS
<1>0. PICK r, s, q : r = Now /\ s = On(dev, risk) /\ q = CreateFile(r)
  OBVIOUS
<1>1. Usable /\ Inode \ mem.imap # {} /\ Execute("create", 0, q)
  BY <1>0 DEF StartCreate
<1>2. AtRest(history, s, r, risk) /\ r.mem = mem
  BY <1>0, <1>1, NowAtRest
<1>3. /\ AtRest(history, s, CreateFile(r), risk) /\ Settled(history, s, CreateFile(r))
      /\ HasCreated(CreateFile(r), r, FirstFreeInode(r))
  BY <1>1, <1>2, CreateFileHolds
<1>4. AtRest(history, s, q, risk) /\ Settled(history, s, q) /\ q.writes # <<>>
  BY <1>0, <1>3 DEF HasCreated
<1>5. "create" \in Names \ {"mkfs", "bench"}
  BY DEF Names
<1> QED BY <1>0, <1>1, <1>4, <1>5, RestInv

-----------------------------------------------------------------------------
(***************************************************************************)
(* The blocks of a file, on the device or in memory.                       *)
(***************************************************************************)

\* The dinode n of a file, with words in its indirect block, has k blocks of
\* data, D, and all in all the blocks B.
Shape(d, n, words, k, D, B) ==
  /\ n.type = "file" /\ n.direct \in BlockPtr /\ \A b \in D : d.block[b] = Data
  /\ \/ k = 0 /\ n.direct = 0 /\ n.indirect = 0 /\ D = {} /\ B = {}
     \/ k = 1 /\ n.direct # 0 /\ n.indirect = 0 /\ D = {n.direct} /\ B = {n.direct}
     \/ /\ k = 2 /\ n.direct # 0 /\ n.indirect \in Block \ {n.direct}
        /\ \E e \in Block \ {n.direct, n.indirect} :
             words = <<e>> /\ D = {n.direct, e} /\ B = {n.direct, n.indirect, e}

LEMMA ShapeOf ==
  ASSUME NEW d \in Device, NEW i \in Inode, FileOK(d, i)
  PROVE  Shape(d, d.node[i], d.block[d.node[i].indirect], d.node[i].size,
               DataBlocks(d, i), BlocksOf(d, i))
<1> DEFINE n == d.node[i]
<1>1. n.type = "file" /\ n.direct \in BlockPtr /\ n.indirect \in BlockPtr
  BY DEF FileOK, Device, Dinodes
<1>2. \A b \in DataBlocks(d, i) : d.block[b] = Data
  BY FileBlocks
<1>3. CASE n.size = 0
  BY <1>1, <1>2, <1>3, FileBlocks DEF FileOK, Shape
<1>4. CASE n.size = 1
  BY <1>1, <1>2, <1>4, FileBlocks DEF FileOK, Shape
<1>5. CASE n.size = 2
  <2>1. PICK e \in Block \ {n.direct, n.indirect} :
          /\ d.block[n.indirect] = <<e>>
          /\ DataBlocks(d, i) = {n.direct, e} /\ BlocksOf(d, i) = {n.direct, n.indirect, e}
    BY <1>5, FileBlocks
  <2>2. n.direct # 0 /\ n.indirect \in Block \ {n.direct}
    BY <1>1, <1>5 DEF FileOK, BlockPtr
  <2> QED BY <1>1, <1>2, <1>5, <2>1, <2>2 DEF Shape
<1> QED BY <1>3, <1>4, <1>5, FileBlocks

LEMMA ShapeFile ==
  ASSUME NEW d, NEW i, NEW words, NEW k, NEW D, NEW B,
         Shape(d, d.node[i], words, k, D, B), d.node[i].size = k,
         d.node[i].indirect # 0 => d.block[d.node[i].indirect] = words
  PROVE  FileOK(d, i) /\ DataBlocks(d, i) = D /\ BlocksOf(d, i) = B
<1> DEFINE n == d.node[i]
<1>1. \A b \in Block : b # 0
  BY NumbersAreWords
<1>2. FileOK(d, i)
  <2>1. CASE k \in {0, 1}
    BY <2>1 DEF Shape, FileOK
  <2>2. CASE k = 2
    <3>1. n.direct # 0 /\ n.indirect \in Block \ {n.direct}
      BY <2>2 DEF Shape
    <3>2. PICK e \in Block \ {n.direct, n.indirect} : words = <<e>> /\ D = {n.direct, e}
      BY <2>2 DEF Shape
    <3>3. d.block[n.indirect] = <<e>> /\ d.block[e] = Data /\ d.block[n.direct] = Data
      BY <1>1, <3>1, <3>2 DEF Shape
    <3>4. n.type = "file" /\ n.size = 2 /\ n.indirect # 0 /\ n.direct # n.indirect
      BY <1>1, <2>2, <3>1 DEF Shape
    <3> QED BY <3>1, <3>2, <3>3, <3>4 DEF FileOK
  <2> QED BY <2>1, <2>2 DEF Shape
<1>3. DataBlocks(d, i) = D /\ BlocksOf(d, i) = B
  <2>1. CASE k \in {0, 1}
    BY <1>2, <2>1, FileBlocks DEF Shape
  <2>2. CASE k = 2
    <3>1. PICK e \in Block \ {n.direct, n.indirect} :
            words = <<e>> /\ D = {n.direct, e} /\ B = {n.direct, n.indirect, e}
      BY <2>2 DEF Shape
    <3>2. PICK b \in Block \ {n.direct, n.indirect} :
            /\ d.block[n.indirect] = <<b>>
            /\ DataBlocks(d, i) = {n.direct, b} /\ BlocksOf(d, i) = {n.direct, n.indirect, b}
      BY <1>2, <2>2, FileBlocks
    <3>3. n.indirect # 0
      BY <1>1, <2>2 DEF Shape
    <3>4. <<e>> = <<b>>
      BY <3>1, <3>2, <3>3
    <3>5. e = b
      BY <3>4
    <3> QED BY <3>1, <3>2, <3>5
  <2> QED BY <2>1, <2>2 DEF Shape
<1> QED BY <1>2, <1>3

-----------------------------------------------------------------------------
(***************************************************************************)
(* Inodes in memory, and blocks freed.                                     *)
(***************************************************************************)

\* The inode i in memory is now n.
Renoded(q, r, i, n) ==
  /\ q \in Runs /\ q.dev = r.dev /\ q.writes = r.writes /\ q.ind = r.ind /\ q.mem = r.mem
  /\ q.open = r.open /\ q.unsaved = r.unsaved /\ q.ino = [r.ino EXCEPT ![i] = n]

LEMMA RenodedIs ==
  ASSUME NEW r \in Runs, NEW i \in Inode, NEW n \in Dinodes
  PROVE  Renoded([r EXCEPT !.ino[i] = n], r, i, n)
BY DEF Renoded, Runs

LEMMA RenodedHolds ==
  ASSUME NEW h, NEW s, NEW r, NEW R, NEW X, NEW hand, Holds(h, s, r, R, X, hand),
         NEW q, NEW i, NEW n, Renoded(q, r, i, n)
  PROVE  Holds(h, s, q, R, X, hand)
BY StillWith DEF Renoded, Holds

LEMMA SetDirect ==
  ASSUME NEW r \in Runs, NEW i \in Inode, NEW b \in BlockPtr
  PROVE  Renoded([r EXCEPT !.ino[i].direct = b], r, i, [r.ino[i] EXCEPT !.direct = b])
<1>1. [r.ino[i] EXCEPT !.direct = b] \in Dinodes
  BY DEF Runs, Dinodes
<1>2. [r EXCEPT !.ino[i].direct = b] = [r EXCEPT !.ino[i] = [r.ino[i] EXCEPT !.direct = b]]
  BY DEF Runs
<1> QED BY <1>1, <1>2, RenodedIs

LEMMA SetIndirect ==
  ASSUME NEW r \in Runs, NEW i \in Inode, NEW b \in BlockPtr
  PROVE  Renoded([r EXCEPT !.ino[i].indirect = b], r, i, [r.ino[i] EXCEPT !.indirect = b])
<1>1. [r.ino[i] EXCEPT !.indirect = b] \in Dinodes
  BY DEF Runs, Dinodes
<1>2. [r EXCEPT !.ino[i].indirect = b] = [r EXCEPT !.ino[i] = [r.ino[i] EXCEPT !.indirect = b]]
  BY DEF Runs
<1> QED BY <1>1, <1>2, RenodedIs

LEMMA SetSize ==
  ASSUME NEW r \in Runs, NEW i \in Inode, NEW k \in 0 .. 2
  PROVE  Renoded([r EXCEPT !.ino[i].size = k], r, i, [r.ino[i] EXCEPT !.size = k])
<1>1. [r.ino[i] EXCEPT !.size = k] \in Dinodes
  <2>1. k \in Nat /\ k <= 2 /\ r.ino[i] \in Dinodes
    BY DEF Runs
  <2> QED BY <2>1 DEF Dinodes
<1>2. [r EXCEPT !.ino[i].size = k] = [r EXCEPT !.ino[i] = [r.ino[i] EXCEPT !.size = k]]
  BY DEF Runs
<1> QED BY <1>1, <1>2, RenodedIs

\* Blocks of the file i, which is worked on, may be freed.
MayFree(r, R, i) == Fits(r.dev, R, {i}, AtRisk(r) \cup ({i} \cap Entries(r.dev)))

LEMMA MayFreeOn ==
  ASSUME NEW r, NEW R, NEW i, MayFree(r, R, i), NEW q, q.dev.node = r.dev.node,
         q.dev.imap = r.dev.imap, Entries(q.dev) = Entries(r.dev), q.unsaved = r.unsaved,
         q.open \in {r.open, r.open \cup ({i} \cap Entries(r.dev))}
  PROVE  MayFree(q, R, i)
<1>1. AtRisk(q) \cup ({i} \cap Entries(q.dev)) = AtRisk(r) \cup ({i} \cap Entries(r.dev))
  BY DEF AtRisk
<1> QED BY <1>1 DEF MayFree, Fits

LEMMA FreeOneHolds ==
  ASSUME NEW h, NEW s, NEW r, NEW R, NEW i \in Inode, NEW hand, Holds(h, s, r, R, {i}, hand),
         MayFree(r, R, i), NEW b \in hand
  PROVE  /\ Holds(h, s, FreeBlock(r, i, b), R, {i}, hand \ {b})
         /\ HasFreed(FreeBlock(r, i, b), r, i, b) /\ MayFree(FreeBlock(r, i, b), R, i)
<1>1. /\ Holds(h, s, FreeBlock(r, i, b), R, {i}, hand \ {b})
      /\ HasFreed(FreeBlock(r, i, b), r, i, b)
  BY FreeBlockHolds DEF MayFree
<1>2. MayFree(FreeBlock(r, i, b), R, i)
  BY <1>1, MayFreeOn DEF HasFreed, Kept
<1> QED BY <1>1, <1>2

\* What is kept of the run r when blocks of i are freed.
HasCut(q, r, i) ==
  /\ q.ind = r.ind /\ q.unsaved = r.unsaved /\ q.dev.node = r.dev.node
  /\ q.dev.imap = r.dev.imap /\ q.mem.imap = r.mem.imap
  /\ q.open \in {r.open, r.open \cup ({i} \cap Entries(r.dev))}
  /\ Entries(q.dev) = Entries(r.dev)
  /\ \A j \in Inode \ {i} : q.ino[j] = r.ino[j]
  /\ q.mem.csum = r.mem.csum

\* The run q is r with the blocks C of the file i freed, its dinode now n.
Cut(h, s, q, r, R, i, hand, C, n) ==
  /\ Holds(h, s, q, R, {i}, hand \ C) /\ MayFree(q, R, i) /\ HasCut(q, r, i) /\ q.ino[i] = n
  /\ \A c \in Block \ C : q.dev.block[c] = r.dev.block[c]
  /\ r.dev.bmap \ C \subseteq q.dev.bmap

LEMMA CutOn ==
  ASSUME NEW q, NEW r, NEW p, NEW i, HasCut(q, r, i), HasCut(p, q, i)
  PROVE  HasCut(p, r, i)
BY DEF HasCut

\* Blocks of an inode are freed and its dinode in memory no longer has them.
CutDirect(r, i, b) == [FreeBlock(r, i, b) EXCEPT !.ino[i].direct = 0]
CutIndirect(r, i, e, b) ==
  [FreeBlock(FreeBlock(r, i, e), i, b) EXCEPT !.ino[i].indirect = 0]

LEMMA FreeDirectHolds ==
  ASSUME NEW h, NEW s, NEW r, NEW R, NEW i \in Inode, NEW hand, Holds(h, s, r, R, {i}, hand),
         MayFree(r, R, i), NEW b \in hand, NEW q, q = CutDirect(r, i, b)
  PROVE  Cut(h, s, q, r, R, i, hand, {b}, [r.ino[i] EXCEPT !.direct = 0])
<1>0. PICK z : z = FreeBlock(r, i, b)
  OBVIOUS
<1>1. Holds(h, s, z, R, {i}, hand \ {b}) /\ HasFreed(z, r, i, b) /\ MayFree(z, R, i)
  BY <1>0, FreeOneHolds
<1>2. z \in Runs /\ z.ino = r.ino /\ r.ino \in [Inode -> Dinodes] /\ 0 \in BlockPtr
  BY <1>1, StillIs DEF Holds, HasFreed, Kept, BlockPtr
<1>3. Renoded(q, z, i, [z.ino[i] EXCEPT !.direct = 0])
  <2>1. q = [z EXCEPT !.ino[i].direct = 0]
    BY <1>0 DEF CutDirect
  <2> QED BY <1>2, <2>1, SetDirect
<1>4. /\ q.dev = z.dev /\ q.mem = z.mem /\ q.ind = r.ind /\ q.open = z.open /\ q.unsaved = r.unsaved
      /\ q.ino = [r.ino EXCEPT ![i] = [r.ino[i] EXCEPT !.direct = 0]]
  BY <1>1, <1>2, <1>3 DEF Renoded, HasFreed, Kept
<1>5. Holds(h, s, q, R, {i}, hand \ {b})
  BY <1>1, <1>3, RenodedHolds
<1>6. /\ q.dev.node = r.dev.node /\ q.dev.imap = r.dev.imap /\ q.mem.imap = r.mem.imap
      /\ q.open = r.open \cup ({i} \cap Entries(r.dev)) /\ Entries(q.dev) = Entries(r.dev)
      /\ q.mem.csum = r.mem.csum
      /\ \A c \in Block \ {b} : q.dev.block[c] = r.dev.block[c]
      /\ r.dev.bmap \ {b} \subseteq q.dev.bmap
  BY <1>1, <1>4 DEF HasFreed, Kept
<1>7. MayFree(q, R, i)
  BY <1>4, <1>6, MayFreeOn
<1>8. /\ q.ino[i] = [r.ino[i] EXCEPT !.direct = 0] /\ \A j \in Inode \ {i} : q.ino[j] = r.ino[j]
  BY <1>2, <1>4
<1>9. HasCut(q, r, i)
  BY <1>4, <1>6, <1>8 DEF HasCut
<1> QED BY <1>5, <1>6, <1>7, <1>8, <1>9 DEF Cut

LEMMA FreeSecondHolds ==
  ASSUME NEW h, NEW s, NEW r, NEW R, NEW i \in Inode, NEW hand, Holds(h, s, r, R, {i}, hand),
         MayFree(r, R, i), NEW b \in hand, NEW e \in hand \ {b},
         NEW q, q = CutIndirect(r, i, e, b)
  PROVE  Cut(h, s, q, r, R, i, hand, {b, e}, [r.ino[i] EXCEPT !.indirect = 0])
<1>0. PICK y, z : y = FreeBlock(r, i, e) /\ z = FreeBlock(y, i, b)
  OBVIOUS
<1>1. Holds(h, s, y, R, {i}, hand \ {e}) /\ HasFreed(y, r, i, e) /\ MayFree(y, R, i)
  BY <1>0, FreeOneHolds
<1>2. Holds(h, s, z, R, {i}, (hand \ {e}) \ {b}) /\ HasFreed(z, y, i, b) /\ MayFree(z, R, i)
  <2>1. b \in hand \ {e}
    OBVIOUS
  <2> QED BY <1>0, <1>1, <2>1, FreeOneHolds
<1>3. z \in Runs /\ z.ino = r.ino /\ r.ino \in [Inode -> Dinodes] /\ 0 \in BlockPtr
  BY <1>1, <1>2, StillIs DEF Holds, HasFreed, Kept, BlockPtr
<1>4. Renoded(q, z, i, [z.ino[i] EXCEPT !.indirect = 0])
  <2>1. q = [z EXCEPT !.ino[i].indirect = 0]
    BY <1>0 DEF CutIndirect
  <2> QED BY <1>3, <2>1, SetIndirect
<1>5. /\ q.dev = z.dev /\ q.mem = z.mem /\ q.ind = r.ind /\ q.open = z.open /\ q.unsaved = r.unsaved
      /\ q.ino = [r.ino EXCEPT ![i] = [r.ino[i] EXCEPT !.indirect = 0]]
  BY <1>1, <1>2, <1>3, <1>4 DEF Renoded, HasFreed, Kept
<1>6. Holds(h, s, q, R, {i}, hand \ {b, e})
  <2>1. (hand \ {e}) \ {b} = hand \ {b, e}
    OBVIOUS
  <2> QED BY <1>2, <1>4, <2>1, RenodedHolds
<1>7. /\ q.dev.node = r.dev.node /\ q.dev.imap = r.dev.imap /\ q.mem.imap = r.mem.imap
      /\ q.open = r.open \cup ({i} \cap Entries(r.dev)) /\ Entries(q.dev) = Entries(r.dev)
      /\ q.mem.csum = r.mem.csum
      /\ \A c \in Block \ {b, e} : q.dev.block[c] = r.dev.block[c]
      /\ r.dev.bmap \ {b, e} \subseteq q.dev.bmap
  BY <1>1, <1>2, <1>5 DEF HasFreed, Kept
<1>8. MayFree(q, R, i)
  BY <1>5, <1>7, MayFreeOn
<1>9. /\ q.ino[i] = [r.ino[i] EXCEPT !.indirect = 0] /\ \A j \in Inode \ {i} : q.ino[j] = r.ino[j]
  BY <1>3, <1>5
<1>10. HasCut(q, r, i)
  BY <1>5, <1>7, <1>9 DEF HasCut
<1> QED BY <1>6, <1>7, <1>8, <1>9, <1>10 DEF Cut

\* testfs_truncate_data, by its cuts.
CutTo(r, i, size) ==
  LET n == r.ino[i]
      q == IF size = 0 THEN CutDirect(r, i, n.direct) ELSE r
  IN  IF n.size = 2 THEN CutIndirect(q, i, Mapped(r, i, 1), n.indirect) ELSE q

LEMMA TruncateIs ==
  ASSUME NEW r, NEW i, NEW size
  PROVE  Truncate(r, i, size) = IF r.ino[i].size <= size THEN r
                                ELSE [CutTo(r, i, size) EXCEPT !.ino[i].size = size]
BY DEF Truncate, CutTo, CutDirect, CutIndirect

LEMMA EmptyHolds ==
  ASSUME NEW h, NEW s, NEW r, NEW R, NEW i \in Inode, NEW k, NEW D, NEW B,
         Holds(h, s, r, R, {i}, B), MayFree(r, R, i), r.ino[i].size = k,
         Shape(r.dev, r.ino[i], r.dev.block[r.ino[i].indirect], k, D, B)
  PROVE  Holds(h, s, Truncate(r, i, 0), R, {i}, {}) /\ HasCut(Truncate(r, i, 0), r, i)
<1>0. PICK n, q, a, b : n = r.ino[i] /\ q = Truncate(r, i, 0)
                        /\ a = CutDirect(r, i, n.direct)
                        /\ b = CutTo(r, i, 0)
  OBVIOUS
<1>1. q = IF n.size <= 0 THEN r ELSE [b EXCEPT !.ino[i].size = 0]
  BY <1>0, TruncateIs
<1>2. k \in {0, 1, 2} /\ n.size = k
  BY <1>0 DEF Shape
<1>3. CASE k = 0
  <2>1. q = r /\ B = {}
    BY <1>0, <1>1, <1>2, <1>3 DEF Shape
  <2> QED BY <1>0, <2>1 DEF HasCut
<1>4. CASE k # 0
  <2>1. n.direct \in B
    BY <1>0, <1>2, <1>4 DEF Shape
  <2>2. /\ Holds(h, s, a, R, {i}, B \ {n.direct}) /\ MayFree(a, R, i) /\ HasCut(a, r, i)
        /\ a.ino[i] = [n EXCEPT !.direct = 0]
        /\ \A c \in Block \ {n.direct} : a.dev.block[c] = r.dev.block[c]
    <3>1. PICK c : c = n.direct
      OBVIOUS
    <3>2. c \in B
      BY <2>1, <3>1
    <3>3. Cut(h, s, CutDirect(r, i, c), r, R, i, B, {c}, [r.ino[i] EXCEPT !.direct = 0])
      BY <3>2, FreeDirectHolds
    <3> QED BY <1>0, <3>1, <3>3 DEF Cut
  <2>3. Holds(h, s, b, R, {i}, {}) /\ HasCut(b, r, i)
    <3>1. CASE k = 1
      <4>1. b = a
        BY <1>0, <1>2, <3>1 DEF CutTo
      <4>2. B \ {n.direct} = {}
        BY <1>0, <1>2, <3>1 DEF Shape
      <4> QED BY <2>2, <4>1, <4>2
    <3>2. CASE k = 2
      <4>1. PICK e \in Block \ {n.direct, n.indirect} :
              r.dev.block[n.indirect] = <<e>> /\ B = {n.direct, n.indirect, e}
              /\ n.indirect \in Block \ {n.direct}
        BY <1>0, <3>2 DEF Shape
      <4>2. Mapped(r, i, 1) = e
        <5>1. n.indirect # 0 /\ <<e>> # Zero /\ <<e>>[1] = e
          BY <4>1, NumbersAreWords DEF Zero
        <5> QED BY <1>0, <4>1, <5>1 DEF Mapped
      <4>3. b = CutIndirect(a, i, e, n.indirect)
        BY <1>0, <1>2, <3>2, <4>2 DEF CutTo
      <4>4. n.indirect \in B \ {n.direct} /\ e \in (B \ {n.direct}) \ {n.indirect}
        BY <4>1
      <4>5. Holds(h, s, b, R, {i}, (B \ {n.direct}) \ {n.indirect, e}) /\ HasCut(b, a, i)
        <5>1. Cut(h, s, CutIndirect(a, i, e, n.indirect), a, R, i, B \ {n.direct}, {n.indirect, e},
                  [a.ino[i] EXCEPT !.indirect = 0])
          BY <2>2, <4>4, FreeSecondHolds
        <5> QED BY <4>3, <5>1 DEF Cut
      <4>6. (B \ {n.direct}) \ {n.indirect, e} = {}
        BY <4>1
      <4> QED BY <2>2, <4>5, <4>6, CutOn
    <3> QED BY <1>2, <1>4, <3>1, <3>2
  <2>4. b \in Runs /\ b.ino \in [Inode -> Dinodes] /\ 0 \in 0 .. 2
    BY <2>3, StillIs DEF Holds
  <2>5. Renoded(q, b, i, [b.ino[i] EXCEPT !.size = 0])
    <3>1. q = [b EXCEPT !.ino[i].size = 0]
      BY <1>1, <1>2, <1>4
    <3> QED BY <2>4, <3>1, SetSize
  <2>6. Holds(h, s, q, R, {i}, {})
    BY <2>3, <2>5, RenodedHolds
  <2>7. HasCut(q, b, i)
    BY <2>4, <2>5 DEF Renoded, HasCut
  <2> QED BY <1>0, <2>3, <2>6, <2>7, CutOn
<1> QED BY <1>3, <1>4

-----------------------------------------------------------------------------
(***************************************************************************)
(* Files removed.                                                          *)
(***************************************************************************)

LEMMA ShapeOn ==
  ASSUME NEW d, NEW x, NEW n, NEW k, NEW D, NEW B, Shape(d, n, d.block[n.indirect], k, D, B),
         \A b \in B : x.block[b] = d.block[b]
  PROVE  Shape(x, n, x.block[n.indirect], k, D, B)
<1>1. CASE k = 0
  BY <1>1 DEF Shape
<1>2. CASE k = 1
  BY <1>2 DEF Shape
<1>3. CASE k = 2
  BY <1>3 DEF Shape
<1> QED BY <1>1, <1>2, <1>3 DEF Shape

\* A file has lost its entry: what it was made of is in hand.
Unlinked(h, s, q, r, R, i, B) ==
  /\ Holds(h, s, q, R, {i}, B) /\ MayFree(q, R, i) /\ i \notin Entries(q.dev)
  /\ Entries(q.dev) = Entries(r.dev) \ {i}
  /\ q.ino = q.dev.node /\ q.ind = r.ind /\ q.open = {} /\ q.unsaved = R
  /\ q.dev.node = r.dev.node /\ q.ino[i] = r.dev.node[i]
  /\ \A b \in B : q.dev.block[b] = r.dev.block[b]

LEMMA UnlinkHolds ==
  ASSUME NEW h, NEW s, NEW r, NEW R, AtRest(h, s, r, R), NEW i \in Entries(r.dev),
         NEW k \in 1 .. r.ino[Root].size, r.dev.block[r.ino[Root].direct][k] = i
  PROVE  Unlinked(h, s, WriteDirent(r, k, Removed), r, R, i, BlocksOf(r.dev, i))
<1>0. PICK q, B : q = WriteDirent(r, k, Removed) /\ B = BlocksOf(r.dev, i)
  OBVIOUS
<1>1. /\ Still(h, s, r) /\ Consistent(r.dev, r.mem, R, {}, {}, h) /\ Mirror(r.dev, r.mem)
      /\ AtRisk(r) = R /\ R \subseteq File /\ r.ino = r.dev.node /\ r.open = {} /\ r.unsaved = R
      /\ r.dev \in Device
  <2>1. /\ Still(h, s, r) /\ Consistent(r.dev, r.mem, R, {}, {}, h) /\ Mirror(r.dev, r.mem)
        /\ AtRisk(r) = R /\ R \subseteq File /\ r.dev \in Device
    BY AtRestIs
  <2>2. r.ino = r.dev.node /\ r.open = {} /\ r.unsaved = R
    BY DEF AtRest
  <2> QED BY <2>1, <2>2
<1>2. i \in File /\ Removed \in Word /\ Removed \notin File /\ i # Removed /\ i # Root /\ Root \notin R
  <2>1. Entries(r.dev) \subseteq File
    BY <1>1, Owned
  <2> QED BY <1>1, <2>1, NumbersAreWords DEF File
<1>3. Consistent(r.dev, r.mem, R, {i}, B, h)
  <2>1. i \in Entries(r.dev) \ {}
    OBVIOUS
  <2>2. Consistent(r.dev, r.mem, R, {} \cup {i}, {} \cup BlocksOf(r.dev, i), h)
    BY <1>1, <2>1, Checkout
  <2>3. {} \cup {i} = {i} /\ {} \cup BlocksOf(r.dev, i) = B
    BY <1>0
  <2> QED BY <2>2, <2>3
<1>4. i \in r.dev.imap /\ FileOK(r.dev, i)
  <2>1. Sound(r.dev, r.mem.bmap, {}) /\ i \in Reached(r.dev)
    <3>1. i \in Reached(r.dev)
      BY <1>1, Owned
    <3> QED BY <1>1, <3>1 DEF Consistent
  <2> QED BY <2>1 DEF Sound
<1>5. Enters(r, R, {i}, k, Removed)
  <2>1. k \in 1 .. r.dev.node[Root].size + 1 /\ k <= r.dev.node[Root].size
    <3>1. r.dev.node[Root].size \in Nat
      <4>1. r.dev.node[Root] \in Dinodes
        BY <1>1, Numbers DEF Device
      <4> QED BY <4>1 DEF Dinodes
    <3> QED BY <1>1, <3>1
  <2>2. r.dev.block[r.dev.node[Root].direct][k] = i
    BY <1>1
  <2> QED BY <1>1, <1>2, <1>4, <2>1, <2>2 DEF Enters
<1>6. Holds(h, s, q, R, {i}, B) /\ HasEntered(q, r, k, Removed)
  <2>1. Holds(h, s, r, R, {i}, B)
    BY <1>1, <1>3 DEF Holds
  <2> QED BY <1>0, <1>5, <2>1, WriteDirentHolds
<1>7. /\ q.dev.node = r.dev.node /\ q.dev.imap = r.dev.imap /\ q.open = {} /\ q.unsaved = R
      /\ q.ind = r.ind /\ \A b \in Block \ {r.dev.node[Root].direct} : q.dev.block[b] = r.dev.block[b]
  BY <1>1, <1>6 DEF HasEntered
<1>8. k <= r.dev.node[Root].size /\ r.dev.block[r.dev.node[Root].direct][k] = i
  BY <1>1
<1>9. q.ino = r.ino
  <2>1. r.dev.node[Root] \in Dinodes /\ r.dev.node \in [Inode -> Dinodes]
    BY <1>1, Numbers DEF Device
  <2>2. r.dev.node[Root].size \in Nat /\ k \in Int
    BY <1>1, <2>1 DEF Dinodes
  <2>3. q.ino = [r.ino EXCEPT ![Root] = [r.dev.node[Root] EXCEPT !.size = r.dev.node[Root].size]]
    <3>1. PICK z : z = r.dev.node[Root].size
      OBVIOUS
    <3>2. z \in Nat /\ k <= z
      BY <1>8, <2>2, <3>1
    <3>3. (IF z < k THEN k ELSE z) = z
      BY <2>2, <3>2
    <3>4. q.ino = [r.ino EXCEPT ![Root] = [r.dev.node[Root] EXCEPT !.size = IF z < k THEN k ELSE z]]
      BY <1>6, <3>1 DEF HasEntered
    <3> QED BY <3>1, <3>3, <3>4
  <2>4. [r.dev.node[Root] EXCEPT !.size = r.dev.node[Root].size] = r.dev.node[Root]
    BY <2>1 DEF Dinodes
  <2> QED BY <1>1, <2>1, <2>3, <2>4
<1>10. Entries(q.dev) = Entries(r.dev) \ {i}
  <2>1. \A j \in Inode : j \in Entries(q.dev) <=> j \in Entries(r.dev) /\ j # i
    BY <1>2, <1>6, <1>8 DEF HasEntered
  <2>2. Entries(q.dev) \subseteq File /\ Entries(r.dev) \subseteq File /\ File \subseteq Inode
    <3>1. Consistent(q.dev, q.mem, R, {i}, B, h)
      BY <1>6 DEF Holds
    <3> QED BY <1>1, <3>1, Owned DEF File
  <2> QED BY <2>1, <2>2
<1>11. MayFree(q, R, i)
  <2>1. AtRisk(q) \cup ({i} \cap Entries(q.dev)) = R
    BY <1>7, <1>10 DEF AtRisk
  <2> QED BY <1>2, <1>4, <1>7, <1>10, <2>1 DEF MayFree, Fits
<1>12. \A b \in B : q.dev.block[b] = r.dev.block[b]
  <2>1. r.dev.node[Root].direct \notin B
    BY <1>3, Owned
  <2>2. B \subseteq Block
    BY <1>3, <1>1, AtRestIs DEF Consistent, Memory
  <2> QED BY <1>7, <2>1, <2>2
<1> QED BY <1>0, <1>1, <1>6, <1>7, <1>9, <1>10, <1>11, <1>12 DEF Unlinked

\* What is left of a file that has been removed is its dinode.
LEMMA UnlinkedEmpty ==
  ASSUME NEW h, NEW s, NEW r, NEW R, NEW p, NEW i \in Inode, NEW B, Unlinked(h, s, p, r, R, i, B),
         FileOK(r.dev, i), r.dev \in Device, B = BlocksOf(r.dev, i)
  PROVE  Holds(h, s, Truncate(p, i, 0), R, {i}, {}) /\ HasCut(Truncate(p, i, 0), p, i)
<1>1. PICK n, k, D : n = r.dev.node[i] /\ k = n.size /\ D = DataBlocks(r.dev, i)
  OBVIOUS
<1>2. Shape(r.dev, n, r.dev.block[n.indirect], k, D, B)
  BY <1>1, ShapeOf
<1>3. Shape(p.dev, n, p.dev.block[n.indirect], k, D, B)
  BY <1>2, ShapeOn DEF Unlinked
<1>4. p.ino[i] = n /\ Holds(h, s, p, R, {i}, B) /\ MayFree(p, R, i)
  BY <1>1 DEF Unlinked
<1>5. Shape(p.dev, p.ino[i], p.dev.block[p.ino[i].indirect], k, D, B) /\ p.ino[i].size = k
  BY <1>1, <1>3, <1>4
<1> QED BY <1>4, <1>5, EmptyHolds

\* testfs_remove_inode, after the truncation.
Dropped(e, i) == [e EXCEPT !.ino[i] = NoDinode, !.mem.imap = @ \ {i},
                           !.open = {i}, !.unsaved = @ \ {i}]

Remake(r, o, m, O, U) == [r EXCEPT !.ino = o, !.mem = m, !.open = O, !.unsaved = U]

LEMMA Remade ==
  ASSUME NEW r \in Runs, NEW o \in [Inode -> Dinodes], NEW m \in Memory, NEW O \in SUBSET Inode,
         NEW U \in SUBSET Inode, NEW q, q = Remake(r, o, m, O, U)
  PROVE  /\ q \in Runs /\ q.dev = r.dev /\ q.writes = r.writes /\ q.ind = r.ind
         /\ q.ino = o /\ q.mem = m /\ q.open = O /\ q.unsaved = U
BY DEF Runs, Remake

LEMMA DroppedIs ==
  ASSUME NEW e \in Runs, NEW i \in Inode, NEW q, q = Dropped(e, i)
  PROVE  /\ q \in Runs /\ q.dev = e.dev /\ q.writes = e.writes /\ q.ind = e.ind
         /\ q.ino = [e.ino EXCEPT ![i] = NoDinode] /\ q.mem = [e.mem EXCEPT !.imap = @ \ {i}]
         /\ q.open = {i} /\ q.unsaved = e.unsaved \ {i}
<1>1. /\ e.mem \in Memory /\ e.ino \in [Inode -> Dinodes] /\ NoDinode \in Dinodes
      /\ e.unsaved \in SUBSET Inode
  BY NewDinode DEF Runs
<1>2. [e.ino EXCEPT ![i] = NoDinode] \in [Inode -> Dinodes] /\ [e.mem EXCEPT !.imap = @ \ {i}] \in Memory
  BY <1>1 DEF Memory
<1>3. PICK o, m, u : /\ o = [e.ino EXCEPT ![i] = NoDinode] /\ m = [e.mem EXCEPT !.imap = @ \ {i}]
                     /\ u = e.unsaved \ {i}
  OBVIOUS
<1>4. q = Remake(e, o, m, {i}, u)
  BY <1>3 DEF Dropped, Runs, Remake
<1>5. o \in [Inode -> Dinodes] /\ m \in Memory /\ u \in SUBSET Inode
  BY <1>1, <1>2, <1>3
<1>6. /\ q \in Runs /\ q.dev = e.dev /\ q.writes = e.writes /\ q.ind = e.ind
      /\ q.ino = o /\ q.mem = m /\ q.open = {i} /\ q.unsaved = u
  <2>1. {i} \in SUBSET Inode
    OBVIOUS
  <2> QED BY <1>4, <1>5, <2>1, Remade
<1> QED BY <1>3, <1>6

Drop(e, i) ==
  LET t == Dropped(e, i) IN SyncInode(WriteSync(t, "imap", 0, t.mem.imap), i)

LEMMA RemoveInodeIs ==
  ASSUME NEW r, NEW i
  PROVE  RemoveInode(r, i) = Drop(Truncate(r, i, 0), i)
BY DEF RemoveInode, Dropped, Drop

HasDropped(q, e, R, i) ==
  /\ q.open = {} /\ q.unsaved = R \ {i}
  /\ q.ino = [e.ino EXCEPT ![i] = NoDinode] /\ q.ind = e.ind
  /\ q.dev = Noded(Numbered(e.dev, e.mem.imap \ {i}), q.ino, {i})
  /\ q.mem = [e.mem EXCEPT !.imap = @ \ {i}]
  /\ Entries(q.dev) = Entries(e.dev)

LEMMA DropHolds ==
  ASSUME NEW h, NEW s, NEW e, NEW R, NEW i \in File, Holds(h, s, e, R, {i}, {}),
         i \notin Entries(e.dev), R \subseteq AtRisk(e), AtRisk(e) \subseteq R \cup {i},
         e.ind[i] = Zero, e.unsaved = R,
         NEW q, q = Drop(e, i)
  PROVE  Holds(h, s, q, R \ {i}, {}, {}) /\ HasDropped(q, e, R, i)
<1>0. PICK t, u : t = Dropped(e, i) /\ u = WriteSync(t, "imap", 0, t.mem.imap)
  OBVIOUS
<1>00. q = SyncInode(u, i)
  BY <1>0 DEF Drop
<1> DEFINE x == Numbered(e.dev, e.mem.imap \ {i})
           y == Noded(x, [e.ino EXCEPT ![i] = NoDinode], {i})
<1>1. /\ e \in Runs /\ e.dev \in Device /\ e.mem \in Memory /\ e.ino \in [Inode -> Dinodes]
      /\ Still(h, s, e) /\ Consistent(e.dev, e.mem, R, {i}, {}, h) /\ Mirror(e.dev, e.mem)
      /\ i \in Inode /\ i # Root
  <2>1. Still(h, s, e) /\ Consistent(e.dev, e.mem, R, {i}, {}, h) /\ Mirror(e.dev, e.mem)
    BY DEF Holds
  <2> QED BY <2>1, StillIs DEF File
<1>2. /\ t \in Runs /\ t.dev = e.dev /\ t.writes = e.writes /\ t.ind = e.ind
      /\ t.ino = [e.ino EXCEPT ![i] = NoDinode] /\ t.mem = [e.mem EXCEPT !.imap = @ \ {i}]
      /\ t.open = {i} /\ t.unsaved = R \ {i}
  BY <1>0, <1>1, DroppedIs
<1>3. /\ t.mem.imap = e.mem.imap \ {i} /\ t.mem.bmap = e.mem.bmap /\ t.mem.csum = e.mem.csum
      /\ t.mem.dirty = e.mem.dirty /\ t.mem \in Memory
  BY <1>1, <1>2 DEF Runs, Memory
<1>4. Still(h, s, t) /\ Mirror(t.dev, t.mem)
  <2>1. Mirror(t.dev, t.mem)
    BY <1>1, <1>2, <1>3 DEF Mirror
  <2> QED BY <1>1, <1>2, <2>1, StillWith
<1>5. R \subseteq File /\ Root \notin R /\ e.dev.bmap \subseteq e.mem.bmap /\ e.dev.imap = e.mem.imap
  BY <1>1 DEF Consistent, File
<1>6. /\ x \in Device /\ x.node = e.dev.node /\ x.bmap = e.dev.bmap /\ x.block = e.dev.block
      /\ x.csum = e.dev.csum /\ x.imap = e.mem.imap \ {i}
  BY <1>1, <1>3, NumberedIs, NumberedDevice DEF Memory
<1>7. Consistent(x, t.mem, R, {i}, {}, h) /\ Entries(x) = Entries(e.dev)
  <2>1. Beside(x, t.mem, e.dev, e.mem, {i}, {}, {}, h)
    BY <1>3, <1>5, <1>6 DEF Beside
  <2> HIDE DEF x
  <2> QED BY <1>1, <1>6, <2>1, BesideIs
<1>8. Fits(x, R, {i}, AtRisk(t))
  <2>1. AtRisk(t) = R \cup {i}
    BY <1>2 DEF AtRisk
  <2> QED BY <1>1, <1>5, <2>1 DEF Fits
<1>9. Holds(h, s, u, R, {i}, {}) /\ HasNumbered(u, t)
  <2> HIDE DEF x
  <2>1. x = Numbered(t.dev, t.mem.imap)
    BY <1>2, <1>3 DEF x
  <2> QED BY <1>0, <1>4, <1>7, <1>8, <2>1, NumberHolds
<1>10. /\ u.dev = x /\ u.mem = t.mem /\ u.ino = t.ino /\ u.ind = e.ind /\ u.open = {i}
       /\ u.unsaved = R \ {i} /\ Still(h, s, u) /\ Mirror(u.dev, u.mem)
  BY <1>2, <1>3, <1>9 DEF HasNumbered, Holds
<1>11. /\ y \in Device /\ y.imap = x.imap /\ y.bmap = x.bmap /\ y.block = x.block /\ y.csum = x.csum
       /\ y.node[i] = NoDinode /\ \A j \in Inode \ {i} : y.node[j] = x.node[j]
  <2> HIDE DEF x
  <2>1. t.ino \in [Inode -> Dinodes] /\ t.ino[i] = NoDinode
    BY <1>1, <1>2 DEF Runs
  <2>2. PICK o : o = t.ino
    OBVIOUS
  <2>3. y = Noded(x, o, {i})
    BY <1>2, <2>2 DEF y
  <2> HIDE DEF y
  <2>4. o \in [Inode -> Dinodes] /\ o[i] = NoDinode
    BY <2>1, <2>2
  <2>5. x.node \in [Inode -> Dinodes]
    BY <1>6 DEF Device
  <2>6. y \in Device
    BY <1>6, <2>3, <2>4, NodedDevice
  <2>7. /\ y.imap = x.imap /\ y.bmap = x.bmap /\ y.block = x.block /\ y.csum = x.csum
        /\ y.node = [j \in Inode |-> IF j \in {i} THEN o[j] ELSE x.node[j]]
    BY <1>6, <2>3, NodedIs
  <2> QED BY <1>1, <2>4, <2>5, <2>6, <2>7
<1>12. Consistent(y, t.mem, R, {i}, {}, h) /\ Entries(y) = Entries(x)
  <2> HIDE DEF x, y
  <2>1. Beside(y, t.mem, x, t.mem, {i}, {}, {}, h)
    BY <1>3, <1>5, <1>6, <1>11 DEF Beside
  <2> QED BY <1>6, <1>7, <1>11, <2>1, BesideIs
<1>13. Consistent(y, t.mem, R \ {i}, {}, {}, h)
  <2> HIDE DEF x, y
  <2>1. i \in {i} /\ i \notin Entries(y) /\ i \notin y.imap /\ y.node[i] = NoDinode
    BY <1>6, <1>7, <1>11, <1>12
  <2>2. Consistent(y, t.mem, R \ {i}, {i} \ {i}, {}, h)
    BY <1>12, <2>1, CheckinFree
  <2> QED BY <2>2
<1>14. /\ Holds(h, s, q, R \ {i}, {}, {}) /\ HasSynced(q, u, i)
  <2> HIDE DEF x, y
  <2>1. y = Noded(u.dev, u.ino, {i})
    BY <1>2, <1>10 DEF y
  <2>2. Fits(y, R \ {i}, {}, (u.open \ {i}) \cup u.unsaved)
    BY <1>5, <1>10 DEF Fits
  <2>3. u.ind[i] = Zero
    BY <1>10
  <2>4. PICK S : S = R \ {i}
    OBVIOUS
  <2>5. Consistent(Noded(u.dev, u.ino, {i}), u.mem, S, {}, {}, h)
    BY <1>10, <1>13, <2>1, <2>4
  <2>6. Fits(Noded(u.dev, u.ino, {i}), S, {}, (u.open \ {i}) \cup u.unsaved)
    BY <2>1, <2>2, <2>4
  <2>7. Holds(h, s, SyncInode(u, i), S, {}, {}) /\ HasSynced(SyncInode(u, i), u, i)
    BY <1>1, <1>10, <2>3, <2>5, <2>6, SyncInodeHolds
  <2> QED BY <1>00, <2>4, <2>7
<1>15. q.open = {} /\ q.unsaved = R \ {i} /\ q.ino = t.ino /\ q.ind = e.ind /\ q.dev = y /\ q.mem = t.mem
  <2> HIDE DEF x, y
  <2>1. y = Noded(u.dev, u.ino, {i})
    BY <1>2, <1>10 DEF y
  <2> QED BY <1>10, <1>14, <2>1 DEF HasSynced
<1> QED BY <1>2, <1>7, <1>12, <1>14, <1>15 DEF HasDropped

\* The directory is on the device as it is in memory.
LEMMA SyncRootRests ==
  ASSUME NEW h, NEW s, NEW r, NEW R, Holds(h, s, r, R, {}, {}), r.ino = r.dev.node,
         r.open = {}, r.unsaved = R, \A j \in Inode : r.ind[j] = Zero
  PROVE  /\ AtRest(h, s, SyncInode(r, Root), R) /\ Settled(h, s, SyncInode(r, Root))
         /\ SyncInode(r, Root).dev = r.dev /\ SyncInode(r, Root).mem = r.mem
         /\ SyncInode(r, Root).writes # <<>>
<1>0. PICK q : q = SyncInode(r, Root)
  OBVIOUS
<1>1. /\ Still(h, s, r) /\ Consistent(r.dev, r.mem, R, {}, {}, h) /\ Mirror(r.dev, r.mem)
  BY DEF Holds
<1>2. r.dev \in Device /\ r.ino \in [Inode -> Dinodes] /\ R \subseteq File /\ Root \notin R /\ Root \in Inode
  <2>1. R \subseteq File
    BY <1>1 DEF Consistent
  <2> QED BY <1>1, <2>1, StillIs, Numbers DEF File
<1>3. RootGrows(r, R, {})
  <2>1. r.dev.node[Root] \in Dinodes
    BY <1>2 DEF Device
  <2>2. r.dev.node[Root].size \in Nat /\ r.dev.node[Root].size + 1 # r.dev.node[Root].size
        /\ r.dev.node[Root] = [r.dev.node[Root] EXCEPT !.size = r.dev.node[Root].size]
    BY <2>1 DEF Dinodes
  <2>3. DirOK(r.dev)
    BY <1>1, Owned
  <2>4. r.dev.node[Root].size <= Len(r.dev.block[r.dev.node[Root].direct])
    BY <2>3 DEF DirOK
  <2>5. AtRisk(r) = R
    BY DEF AtRisk
  <2> QED BY <1>2, <2>2, <2>4, <2>5 DEF RootGrows
<1>4. Holds(h, s, q, R, {}, {}) /\ Settled(h, s, q) /\ HasSynced(q, r, Root)
  BY <1>0, <1>2, <1>3, SyncRootHolds
<1>5. q.dev = r.dev
  <2>1. Noded(r.dev, r.ino, {Root}) \in Device
    BY <1>2, NodedDevice
  <2>2. /\ Noded(r.dev, r.ino, {Root}).imap = r.dev.imap /\ Noded(r.dev, r.ino, {Root}).bmap = r.dev.bmap
        /\ Noded(r.dev, r.ino, {Root}).csum = r.dev.csum /\ Noded(r.dev, r.ino, {Root}).block = r.dev.block
        /\ Noded(r.dev, r.ino, {Root}).node = [j \in Inode |-> IF j \in {Root} THEN r.ino[j] ELSE r.dev.node[j]]
    BY <1>2, NodedIs
  <2>3. PICK x : x = Noded(r.dev, r.ino, {Root})
    OBVIOUS
  <2>4. /\ x \in Device /\ x.imap = r.dev.imap /\ x.bmap = r.dev.bmap /\ x.csum = r.dev.csum
        /\ x.block = r.dev.block /\ \A j \in Inode : x.node[j] = r.dev.node[j]
    BY <2>1, <2>2, <2>3
  <2>5. r.dev = x
    BY <1>2, <2>4, SameDevice
  <2> QED BY <1>4, <2>3, <2>5 DEF HasSynced
<1>6. q.ino = r.ino /\ q.ind = r.ind /\ q.open = {} /\ q.unsaved = R /\ q.mem = r.mem /\ q.writes # <<>>
  BY <1>4 DEF HasSynced
<1>7. AtRest(h, s, q, R)
  BY <1>4, <1>5, <1>6 DEF AtRest
<1> QED BY <1>0, <1>4, <1>5, <1>6, <1>7

\* cmd_rm
LEMMA RemoveFileHolds ==
  ASSUME NEW h, NEW s, NEW r, NEW R, AtRest(h, s, r, R), NEW i \in Entries(r.dev),
         NEW q, q = RemoveFile(r, i)
  PROVE  AtRest(h, s, q, R \ {i}) /\ Settled(h, s, q) /\ q.writes # <<>>
<1>1. /\ Consistent(r.dev, r.mem, R, {}, {}, h) /\ r.ino = r.dev.node /\ r.dev \in Device
      /\ i \in File /\ i \in Inode /\ i # Root /\ R \subseteq File
  <2>1. Consistent(r.dev, r.mem, R, {}, {}, h) /\ r.dev \in Device /\ R \subseteq File
    BY AtRestIs
  <2>2. r.ino = r.dev.node
    BY DEF AtRest
  <2> QED BY <2>1, <2>2, Owned DEF File
<1>2. FileOK(r.dev, i)
  <2>1. i \in Entries(r.dev) \ {}
    OBVIOUS
  <2>2. Sound(r.dev, r.mem.bmap, {})
    BY <1>1 DEF Consistent
  <2> QED BY <2>1, <2>2 DEF Sound
<1>3. \E k \in 1 .. r.ino[Root].size : r.dev.block[r.ino[Root].direct][k] = i
  <2>1. r.dev.node[Root].direct # 0
    BY <1>1, Owned
  <2> QED BY <1>1, <2>1, EntriesAre DEF Listed
<1>4. PICK k : k = CHOOSE n \in 1 .. r.ino[Root].size : r.dev.block[r.ino[Root].direct][n] = i
  OBVIOUS
<1>5. k \in 1 .. r.ino[Root].size /\ r.dev.block[r.ino[Root].direct][k] = i
  BY <1>3, <1>4
<1>6. PICK p, B : p = WriteDirent(r, k, Removed) /\ B = BlocksOf(r.dev, i)
  OBVIOUS
<1>7. Unlinked(h, s, p, r, R, i, B)
  BY <1>5, <1>6, UnlinkHolds
<1>8. PICK e : e = Truncate(p, i, 0)
  OBVIOUS
<1>9. Holds(h, s, e, R, {i}, {}) /\ HasCut(e, p, i)
  BY <1>1, <1>2, <1>6, <1>7, <1>8, UnlinkedEmpty
<1>12. PICK v : v = Drop(e, i)
  OBVIOUS
<1>13. q = SyncInode(v, Root)
  <2>1. RemoveInode(p, i) = v
    BY <1>8, <1>12, RemoveInodeIs
  <2> QED BY <1>4, <1>6, <2>1 DEF RemoveFile
<1>14. /\ i \notin Entries(e.dev) /\ e.unsaved = R /\ R \subseteq AtRisk(e) /\ AtRisk(e) \subseteq R \cup {i}
       /\ e.ind = r.ind
  BY <1>7, <1>9 DEF Unlinked, HasCut, AtRisk
<1>15. \A j \in Inode : r.ind[j] = Zero
  BY DEF AtRest
<1>16. Holds(h, s, v, R \ {i}, {}, {}) /\ HasDropped(v, e, R, i)
  <2>1. e.ind[i] = Zero
    BY <1>1, <1>14, <1>15
  <2> QED BY <1>1, <1>9, <1>12, <1>14, <2>1, DropHolds
<1>160. /\ v.open = {} /\ v.unsaved = R \ {i} /\ v.ind = e.ind
        /\ v.ino = [e.ino EXCEPT ![i] = NoDinode]
        /\ v.dev = Noded(Numbered(e.dev, e.mem.imap \ {i}), v.ino, {i})
  BY <1>16 DEF HasDropped
<1>17. v.ino = v.dev.node
  <2>1. e.dev \in Device /\ e.ino \in [Inode -> Dinodes] /\ v.ino \in [Inode -> Dinodes] /\ e.mem \in Memory
    BY <1>9, <1>16, StillIs DEF Holds
  <2>2. PICK x : x = Numbered(e.dev, e.mem.imap \ {i})
    OBVIOUS
  <2>3. x \in Device /\ x.node = e.dev.node
    <3>1. e.mem.imap \ {i} \in SUBSET Inode
      BY <2>1 DEF Memory
    <3> QED BY <2>1, <2>2, <3>1, NumberedIs, NumberedDevice
  <2>4. v.dev.node = [j \in Inode |-> IF j \in {i} THEN v.ino[j] ELSE e.dev.node[j]]
    <3>1. PICK o : o = v.ino
      OBVIOUS
    <3>2. v.dev = Noded(x, o, {i})
      BY <1>160, <2>2, <3>1
    <3>3. Noded(x, o, {i}).node = [j \in Inode |-> IF j \in {i} THEN o[j] ELSE x.node[j]]
      BY <2>3, NodedIs
    <3> QED BY <2>3, <3>1, <3>2, <3>3
  <2>5. \A j \in Inode \ {i} : v.ino[j] = e.dev.node[j]
    <3>1. \A j \in Inode \ {i} : v.ino[j] = e.ino[j]
      BY <1>160, <2>1
    <3>2. \A j \in Inode \ {i} : e.ino[j] = p.ino[j]
      BY <1>9 DEF HasCut
    <3>3. p.ino = p.dev.node /\ e.dev.node = p.dev.node
      BY <1>7, <1>9 DEF HasCut, Unlinked
    <3> QED BY <3>1, <3>2, <3>3
  <2> QED BY <2>1, <2>4, <2>5
<1>18. \A j \in Inode : v.ind[j] = Zero
  BY <1>14, <1>15, <1>160
<1>19. PICK V : V = R \ {i}
  OBVIOUS
<1>20. Holds(h, s, v, V, {}, {}) /\ v.unsaved = V /\ v.open = {}
  BY <1>16, <1>160, <1>19
<1>21. /\ AtRest(h, s, SyncInode(v, Root), V) /\ Settled(h, s, SyncInode(v, Root))
       /\ SyncInode(v, Root).writes # <<>>
  BY <1>17, <1>18, <1>20, SyncRootRests
<1> QED BY <1>13, <1>19, <1>21

LEMMA StartRemoveInv == IInv /\ (\E i \in Entries(dev) : StartRemove(i)) => IInv'
<1> SUFFICES ASSUME IInv, NEW i \in Entries(dev), StartRemove(i) PROVE IInv'
  OBVIOUS
<1>1. Usable /\ Execute("rm", 0, RemoveFile(Now, i))
  BY DEF StartRemove
<1>2. PICK q : q = RemoveFile(Now, i)
  OBVIOUS
<1>3. AtRest(history, On(dev, risk), Now, risk) /\ Now.dev = dev
  BY <1>1, NowAtRest
<1>4. AtRest(history, On(dev, risk), q, risk \ {i}) /\ Settled(history, On(dev, risk), q) /\ q.writes # <<>>
  BY <1>2, <1>3, RemoveFileHolds
<1>5. "rm" \in Names \ {"mkfs", "bench"} /\ 0 \in Nat
  BY DEF Names
<1> QED BY <1>1, <1>2, <1>4, <1>5, RestInv

-----------------------------------------------------------------------------
(***************************************************************************)
(* Blocks in hand.                                                         *)
(***************************************************************************)

LEMMA FilledSame ==
  ASSUME NEW d \in Device, NEW b \in Block, NEW x, d.block[b] = x
  PROVE  Filled(d, b, x) = d
<1>1. PICK e : e = Filled(d, b, x)
  OBVIOUS
<1>2. /\ e.imap = d.imap /\ e.bmap = d.bmap /\ e.csum = d.csum /\ e.node = d.node
      /\ e.block = [c \in Block |-> IF c = b THEN x ELSE d.block[c]]
  BY <1>1, FilledIs
<1>3. x \in Seq(Word)
  BY DEF Device
<1>4. e \in Device
  BY <1>1, <1>3, FilledDevice
<1>5. e = d
  BY <1>2, <1>4, SameDevice
<1> QED BY <1>1, <1>5

\* Memory is the same but for checksums of blocks in hand.
Likewise(n, m, hand, h) ==
  /\ n.bmap = m.bmap /\ n.imap = m.imap
  /\ h = {} => \A c \in m.bmap \ hand : n.csum[c] = m.csum[c]

\* Nothing else is disturbed by what is put in a block in hand.
LEMMA FilledBeside ==
  ASSUME NEW d \in Device, NEW m \in Memory, NEW n, NEW R, NEW X, NEW hand, NEW h,
         Consistent(d, m, R, X, hand, h), NEW b \in hand, NEW x \in Seq(Word),
         Likewise(n, m, hand, h)
  PROVE  /\ Consistent(Filled(d, b, x), n, R, X, hand, h) /\ Entries(Filled(d, b, x)) = Entries(d)
         /\ Filled(d, b, x) \in Device
<1>1. PICK e : e = Filled(d, b, x)
  OBVIOUS
<1>2. /\ e.imap = d.imap /\ e.bmap = d.bmap /\ e.csum = d.csum /\ e.node = d.node
      /\ e.block = [c \in Block |-> IF c = b THEN x ELSE d.block[c]]
  BY <1>1, FilledIs
<1>3. e \in Device
  BY <1>1, FilledDevice
<1>4. m.bmap \subseteq Block /\ hand \subseteq m.bmap /\ d.bmap \subseteq m.bmap /\ d.imap = m.imap
  BY DEF Memory, Consistent
<1>5. Beside(e, n, d, m, X, hand, hand, h)
  BY <1>2, <1>4 DEF Beside, Likewise
<1>6. Consistent(e, n, R, X, hand, h) /\ Entries(e) = Entries(d)
  BY <1>3, <1>5, BesideIs
<1> QED BY <1>1, <1>3, <1>6

LEMMA StoredIs ==
  ASSUME NEW m \in Memory, NEW b \in Block, NEW x
  PROVE  /\ Stored(m, b, x).bmap = m.bmap /\ Stored(m, b, x).imap = m.imap
         /\ Stored(m, b, x).dirty = m.dirty
         /\ \A c \in Block : Stored(m, b, x).csum[c] = IF c = b THEN Csum(x) ELSE m.csum[c]
BY DEF Stored, Memory

\* The run q is r with x in the block b.
HasFilled(q, r, b, x) ==
  /\ q.dev = Filled(r.dev, b, x) /\ q.mem = r.mem
  /\ q.ino = r.ino /\ q.ind = r.ind /\ q.open = r.open /\ q.unsaved = r.unsaved
  /\ q.writes # <<>> /\ Entries(q.dev) = Entries(r.dev)

\* A block in hand is written.
LEMMA FillHolds ==
  ASSUME NEW h, NEW s, NEW r, NEW R, NEW X, NEW hand, Holds(h, s, r, R, X, hand),
         Fits(r.dev, R, X, AtRisk(r)), NEW b \in hand, NEW x \in Seq(Word),
         NEW q, q = WriteSync(r, "block", b, x)
  PROVE  Holds(h, s, q, R, X, hand) /\ Settled(h, s, q) /\ HasFilled(q, r, b, x)
<1>1. PICK e : e = Filled(r.dev, b, x)
  OBVIOUS
<1>2. Still(h, s, r) /\ Consistent(r.dev, r.mem, R, X, hand, h) /\ Mirror(r.dev, r.mem)
  BY DEF Holds
<1>3. r.dev \in Device /\ r.mem \in Memory
  BY <1>2, StillIs
<1>4. b \in Block
  BY <1>2, <1>3 DEF Consistent, Memory
<1>5. Consistent(e, r.mem, R, X, hand, h) /\ Entries(e) = Entries(r.dev) /\ e \in Device
  <2>1. /\ Consistent(Filled(r.dev, b, x), r.mem, R, X, hand, h)
        /\ Entries(Filled(r.dev, b, x)) = Entries(r.dev) /\ Filled(r.dev, b, x) \in Device
    <3>1. Likewise(r.mem, r.mem, hand, h)
      BY DEF Likewise
    <3> QED BY <1>2, <1>3, <3>1, FilledBeside
  <2> QED BY <1>1, <2>1
<1>6. /\ e.imap = r.dev.imap /\ e.bmap = r.dev.bmap /\ e.csum = r.dev.csum /\ e.node = r.dev.node
      /\ e.block = [c \in Block |-> IF c = b THEN x ELSE r.dev.block[c]]
  BY <1>1, <1>3, FilledIs
<1>7. Fits(e, R, X, AtRisk(r))
  BY <1>5, <1>6 DEF Fits
<1>8. Safe(h, e, AtRisk(r))
  BY <1>5, <1>7, FitsSafe
<1>9. Wrote(h, s, q, r, e)
  BY <1>1, <1>2, <1>4, <1>8, FilledWrote
<1>10. /\ Still(h, s, q) /\ Settled(h, s, q)
       /\ q.dev = e /\ q.mem = r.mem /\ q.ino = r.ino /\ q.ind = r.ind
       /\ q.open = r.open /\ q.unsaved = r.unsaved /\ q.writes # <<>>
  <2>1. Still(h, s, q) /\ Settled(h, s, q)
    BY <1>9, WroteSettled
  <2> QED BY <1>9, <2>1 DEF Wrote
<1>11. Mirror(q.dev, q.mem)
  BY <1>2, <1>6, <1>10 DEF Mirror
<1> QED BY <1>1, <1>5, <1>10, <1>11 DEF Holds, HasFilled

\* ... and its checksum,
LEMMA StoreInHand ==
  ASSUME NEW h, NEW s, NEW r, NEW R, NEW X, NEW hand, Holds(h, s, r, R, X, hand),
         Fits(r.dev, R, X, AtRisk(r)), NEW b \in hand, NEW x \in Seq(Word)
  PROVE  /\ Holds(h, s, Store(r, b, x), R, X, hand) /\ HasStored(Store(r, b, x), r, b, x)
         /\ Entries(Store(r, b, x).dev) = Entries(r.dev)
<1>1. PICK e, n : e = Filled(r.dev, b, x) /\ n = Stored(r.mem, b, x)
  OBVIOUS
<1>2. Still(h, s, r) /\ Consistent(r.dev, r.mem, R, X, hand, h) /\ Mirror(r.dev, r.mem)
  BY DEF Holds
<1>3. r.dev \in Device /\ r.mem \in Memory
  BY <1>2, StillIs
<1>4. b \in Block /\ r.mem.bmap \subseteq Block
  BY <1>2, <1>3 DEF Consistent, Memory
<1>5. Likewise(n, r.mem, hand, h)
  BY <1>1, <1>3, <1>4, StoredIs DEF Likewise
<1>6. Consistent(e, n, R, X, hand, h) /\ Entries(e) = Entries(r.dev) /\ e \in Device
  <2>1. /\ Consistent(Filled(r.dev, b, x), n, R, X, hand, h)
        /\ Entries(Filled(r.dev, b, x)) = Entries(r.dev) /\ Filled(r.dev, b, x) \in Device
    BY <1>2, <1>3, <1>5, FilledBeside
  <2> QED BY <1>1, <2>1
<1>7. /\ e.imap = r.dev.imap /\ e.bmap = r.dev.bmap /\ e.csum = r.dev.csum /\ e.node = r.dev.node
      /\ e.block = [c \in Block |-> IF c = b THEN x ELSE r.dev.block[c]]
  BY <1>1, <1>3, FilledIs
<1>8. Fits(e, R, X, AtRisk(r))
  BY <1>6, <1>7 DEF Fits
<1>9. Holds(h, s, Store(r, b, x), R, X, hand) /\ HasStored(Store(r, b, x), r, b, x)
  BY <1>1, <1>2, <1>4, <1>6, <1>8, StoreHolds
<1> QED BY <1>1, <1>6, <1>9 DEF HasStored

\* ... or any block, with what it has.
LEMMA StoreAgain ==
  ASSUME NEW h, NEW s, NEW r, NEW R, NEW X, NEW hand, Holds(h, s, r, R, X, hand),
         Fits(r.dev, R, X, AtRisk(r)), NEW b \in Block, NEW x, r.dev.block[b] = x
  PROVE  /\ Holds(h, s, Store(r, b, x), R, X, hand) /\ HasStored(Store(r, b, x), r, b, x)
         /\ Entries(Store(r, b, x).dev) = Entries(r.dev)
<1>1. PICK n : n = Stored(r.mem, b, x)
  OBVIOUS
<1>2. Still(h, s, r) /\ Consistent(r.dev, r.mem, R, X, hand, h) /\ Mirror(r.dev, r.mem)
  BY DEF Holds
<1>3. r.dev \in Device /\ r.mem \in Memory
  BY <1>2, StillIs
<1>4. x \in Seq(Word) /\ r.mem.bmap \subseteq Block
  BY <1>3 DEF Device, Memory
<1>5. Filled(r.dev, b, x) = r.dev
  BY <1>3, FilledSame
<1>6. Consistent(r.dev, n, R, X, hand, h)
  <2>1. \A c \in Block : n.csum[c] \in {r.mem.csum[c], Csum(r.dev.block[c])}
    BY <1>1, <1>3, StoredIs
  <2>2. /\ hand \subseteq r.mem.bmap /\ r.dev.bmap \subseteq r.mem.bmap /\ r.dev.imap = r.mem.imap
    BY <1>2 DEF Consistent
  <2>3. n.bmap = r.mem.bmap /\ n.imap = r.mem.imap
    BY <1>1, <1>3, StoredIs
  <2>4. Beside(r.dev, n, r.dev, r.mem, X, hand, hand, h)
    BY <1>4, <2>1, <2>2, <2>3 DEF Beside
  <2> QED BY <1>2, <1>3, <2>4, BesideIs
<1>7. Holds(h, s, Store(r, b, x), R, X, hand) /\ HasStored(Store(r, b, x), r, b, x)
  BY <1>1, <1>2, <1>4, <1>5, <1>6, StoreHolds
<1> QED BY <1>5, <1>7 DEF HasStored

-----------------------------------------------------------------------------
(***************************************************************************)
(* Free blocks.                                                            *)
(***************************************************************************)

Free(r, n) == Cardinality(Block \ r.mem.bmap) >= n

LEMMA BlocksFinite == \A S : IsFiniteSet(Block \ S)
<1>1. IsFiniteSet(Block)
  <2>1. NBlocks \in Int /\ 1 \in Int
    BY VolumeAssumption
  <2> QED BY <2>1, FS_Interval DEF Block
<1>2. \A S : Block \ S \subseteq Block
  OBVIOUS
<1> QED BY <1>1, <1>2, FS_Subset

LEMMA FreeSome ==
  ASSUME NEW r, NEW n \in Nat, Free(r, n + 1)
  PROVE  Block \ r.mem.bmap # {} /\ Free(r, n)
<1>1. IsFiniteSet(Block \ r.mem.bmap)
  BY BlocksFinite
<1>2. Cardinality(Block \ r.mem.bmap) \in Nat
  BY <1>1, FS_CardinalityType
<1>3. Block \ r.mem.bmap # {}
  BY <1>2, FS_EmptySet DEF Free
<1> QED BY <1>2, <1>3 DEF Free

LEMMA FreeLess ==
  ASSUME NEW r, NEW q, NEW n \in Nat, Free(r, n + 1), NEW b \in Block \ r.mem.bmap,
         q.mem.bmap = r.mem.bmap \cup {b}
  PROVE  Free(q, n)
<1>1. IsFiniteSet(Block \ r.mem.bmap)
  BY BlocksFinite
<1>2. Block \ q.mem.bmap = (Block \ r.mem.bmap) \ {b}
  OBVIOUS
<1>3. Cardinality(Block \ q.mem.bmap) = Cardinality(Block \ r.mem.bmap) - 1
  <2>1. PICK S : S = Block \ r.mem.bmap
    OBVIOUS
  <2>2. Cardinality(S \ {b}) = Cardinality(S) - 1
    BY <1>1, <2>1, FS_RemoveElement
  <2> QED BY <1>2, <2>1, <2>2
<1>4. Cardinality(Block \ r.mem.bmap) \in Nat
  BY <1>1, FS_CardinalityType
<1> QED BY <1>3, <1>4 DEF Free

-----------------------------------------------------------------------------
(***************************************************************************)
(* Drafts: a file that has blocks in memory that its dinode on the device  *)
(* does not have.                                                          *)
(***************************************************************************)

Words(r, i) == IF r.ind[i] # Zero THEN r.ind[i] ELSE r.dev.block[r.ino[i].indirect]

\* The file i has k blocks of data, D, and all in all the blocks B; Y are the
\* other blocks in hand.
Draft(h, r, i, R, k, D, B, Y) ==
  /\ r \in Runs /\ Mirror(r.dev, r.mem)
  /\ Consistent(r.dev, r.mem, R, {}, (B \ BlocksOf(r.dev, i)) \cup Y, h)
  /\ i \in Entries(r.dev) /\ BlocksOf(r.dev, i) \subseteq B /\ B \cap Y = {}
  /\ Shape(r.dev, r.ino[i], Words(r, i), k, D, B)
  /\ i \in R \/ (B \subseteq r.dev.bmap /\ r.ind[i] = Zero)
  /\ r.ind[i] = Zero \/ k = 2
  /\ h = {} => \A b \in D : r.mem.csum[b] = Csum(Data)
  /\ r.open = {} /\ r.unsaved = R

\* What the draft of i on the way from r to q leaves alone.
Continues(q, r, i, Y) ==
  /\ q.dev.node = r.dev.node /\ q.dev.imap = r.dev.imap /\ q.mem.imap = r.mem.imap
  /\ Entries(q.dev) = Entries(r.dev)
  /\ \A j \in Inode \ {i} : q.ino[j] = r.ino[j] /\ q.ind[j] = r.ind[j]
  /\ q.ino[i].size = r.ino[i].size
  /\ r.mem.bmap \subseteq q.mem.bmap /\ \A c \in r.mem.bmap : q.dev.block[c] = r.dev.block[c]
  /\ \A c \in Y : q.mem.csum[c] = r.mem.csum[c]

LEMMA ContinuesOn ==
  ASSUME NEW p, NEW q, NEW r, NEW i, NEW Y, Continues(p, q, i, Y), Continues(q, r, i, Y)
  PROVE  Continues(p, r, i, Y)
BY DEF Continues

LEMMA DraftIs ==
  ASSUME NEW h, NEW r, NEW i, NEW R, NEW k, NEW D, NEW B, NEW Y, Draft(h, r, i, R, k, D, B, Y)
  PROVE  /\ r.dev \in Device /\ r.mem \in Memory /\ r.ino \in [Inode -> Dinodes]
         /\ r.ind \in [Inode -> Seq(Word)]
         /\ i \in File /\ i \in Inode /\ i # Root /\ R \subseteq File /\ Root \notin R /\ AtRisk(r) = R
         /\ R \in SUBSET Inode
         /\ BlocksOf(r.dev, i) \subseteq r.mem.bmap /\ B \subseteq r.mem.bmap /\ Y \subseteq r.mem.bmap
         /\ r.mem.bmap \subseteq Block /\ D \subseteq B
         /\ Fits(r.dev, R, {}, R) /\ r.dev.imap = r.mem.imap /\ FileOK(r.dev, i)
         /\ r.dev.node[Root].direct \in r.mem.bmap \ (B \cup Y) /\ r.dev.node[Root].direct # 0
<1>1. /\ r \in Runs /\ i \in Entries(r.dev) /\ BlocksOf(r.dev, i) \subseteq B
      /\ r.open = {} /\ r.unsaved = R
      /\ Shape(r.dev, r.ino[i], Words(r, i), k, D, B)
  BY DEF Draft
<1>2. PICK hand : hand = (B \ BlocksOf(r.dev, i)) \cup Y
  OBVIOUS
<1>3. Consistent(r.dev, r.mem, R, {}, hand, h)
  BY <1>2 DEF Draft
<1>4. /\ r.dev \in Device /\ r.mem \in Memory /\ r.ino \in [Inode -> Dinodes]
      /\ r.ind \in [Inode -> Seq(Word)] /\ R \in SUBSET Inode
  BY <1>1 DEF Runs
<1>5. /\ i \in File /\ i \in Reached(r.dev) \ {} /\ Root \in Reached(r.dev)
      /\ BlocksOf(r.dev, i) \subseteq r.mem.bmap \ hand
      /\ r.dev.node[Root].direct \in r.mem.bmap \ hand
      /\ r.dev.node[Root].direct \in DataBlocks(r.dev, Root) /\ r.dev.node[Root].direct # 0
  BY <1>1, <1>3, Owned
<1>6. R \subseteq File /\ hand \subseteq r.mem.bmap /\ r.dev.imap = r.mem.imap /\ Sound(r.dev, r.mem.bmap, {})
  BY <1>3 DEF Consistent
<1>7. i \in Inode /\ i # Root /\ Root \notin R
  BY <1>5, <1>6 DEF File
<1>8. FileOK(r.dev, i) /\ BlocksOf(r.dev, i) \cap BlocksOf(r.dev, Root) = {}
  BY <1>1, <1>5, <1>6, <1>7 DEF Sound
<1>9. r.dev.node[Root].direct \notin BlocksOf(r.dev, i)
  BY <1>5, <1>8, OwnBlocks
<1>10. r.mem.bmap \subseteq Block /\ D \subseteq B
  BY <1>1, <1>4 DEF Memory, Shape
<1>11. AtRisk(r) = R
  BY <1>1 DEF AtRisk
<1>12. Fits(r.dev, R, {}, R)
  BY <1>7 DEF Fits
<1> QED BY <1>1, <1>2, <1>4, <1>5, <1>6, <1>7, <1>8, <1>9, <1>10, <1>11, <1>12

\* The file on the device is what it was.
LEMMA ContinuesFile ==
  ASSUME NEW q, NEW r, NEW i, NEW Y, Continues(q, r, i, Y), NEW j, BlocksOf(r.dev, j) \subseteq r.mem.bmap
  PROVE  BlocksOf(q.dev, j) = BlocksOf(r.dev, j)
<1>1. q.dev.node[j] = r.dev.node[j]
  BY DEF Continues
<1>2. r.dev.node[j].indirect # 0 =>
        q.dev.block[r.dev.node[j].indirect] = r.dev.block[r.dev.node[j].indirect]
  BY OwnBlocks DEF Continues
<1> QED BY <1>1, <1>2, SameBlocks

LEMMA WriteBlockIs ==
  ASSUME NEW r, NEW i, NEW k, NEW x
  PROVE  /\ Mapped(r, i, k) # 0 => WriteBlock(r, i, k, x) = Store(r, Mapped(r, i, k), x)
         /\ Mapped(r, i, k) = 0 =>
              WriteBlock(r, i, k, x) = Store(AllocateBlock(r, i, k), Mapped(AllocateBlock(r, i, k), i, k), x)
BY DEF WriteBlock, Store

\* The run q is r with k blocks of data in the file i.
Drafted(h, s, q, r, i, R, k, Y) ==
  /\ Still(h, s, q) /\ q.writes # <<>>
  /\ \E D, B : Draft(h, q, i, R, k, D, B, Y)
  /\ Continues(q, r, i, Y) /\ q.ind = r.ind

\* A block of the file once more.
LEMMA RewriteHolds ==
  ASSUME NEW h, NEW s, NEW r, NEW i, NEW R, NEW k, NEW D, NEW B, NEW Y, Still(h, s, r),
         Draft(h, r, i, R, k, D, B, Y), NEW b \in D
  PROVE  Drafted(h, s, Store(r, b, Data), r, i, R, k, Y) /\ Store(r, b, Data).mem.bmap = r.mem.bmap
<1>1. PICK q, hand : q = Store(r, b, Data) /\ hand = (B \ BlocksOf(r.dev, i)) \cup Y
  OBVIOUS
<1>2. /\ r.dev \in Device /\ r.mem \in Memory /\ AtRisk(r) = R /\ Fits(r.dev, R, {}, R)
      /\ D \subseteq B /\ B \subseteq r.mem.bmap /\ Y \subseteq r.mem.bmap /\ r.mem.bmap \subseteq Block
      /\ BlocksOf(r.dev, i) \subseteq r.mem.bmap /\ r.ino \in [Inode -> Dinodes]
  BY DraftIs
<1>3. /\ Consistent(r.dev, r.mem, R, {}, hand, h) /\ Mirror(r.dev, r.mem)
      /\ Shape(r.dev, r.ino[i], Words(r, i), k, D, B) /\ r.open = {} /\ r.unsaved = R
      /\ i \in Entries(r.dev) /\ BlocksOf(r.dev, i) \subseteq B /\ B \cap Y = {}
      /\ i \in R \/ (B \subseteq r.dev.bmap /\ r.ind[i] = Zero)
      /\ r.ind[i] = Zero \/ k = 2
      /\ h = {} => \A c \in D : r.mem.csum[c] = Csum(Data)
  BY <1>1 DEF Draft
<1>4. r.dev.block[b] = Data /\ b \in Block
  BY <1>2, <1>3 DEF Shape
<1>5. Holds(h, s, r, R, {}, hand)
  BY <1>3 DEF Holds
<1>6. /\ Holds(h, s, q, R, {}, hand) /\ HasStored(q, r, b, Data) /\ Entries(q.dev) = Entries(r.dev)
  BY <1>1, <1>2, <1>4, <1>5, StoreAgain
<1>7. /\ q.dev.block = r.dev.block /\ q.dev.bmap = r.dev.bmap /\ q.dev.node = r.dev.node
      /\ q.dev.imap = r.dev.imap /\ q.ino = r.ino /\ q.ind = r.ind /\ q.open = {} /\ q.unsaved = R
      /\ q.writes # <<>> /\ q.mem = Stored(r.mem, b, Data)
  <2>1. Filled(r.dev, b, Data) = r.dev
    BY <1>2, <1>4, FilledSame
  <2> QED BY <1>3, <1>6, <2>1 DEF HasStored, Kept
<1>8. /\ q.mem.bmap = r.mem.bmap /\ q.mem.imap = r.mem.imap
      /\ \A c \in Block : q.mem.csum[c] = IF c = b THEN Csum(Data) ELSE r.mem.csum[c]
  BY <1>2, <1>4, <1>7, StoredIs
<1>9. Continues(q, r, i, Y)
  <2>1. b \notin Y
    BY <1>2, <1>3
  <2> QED BY <1>2, <1>6, <1>7, <1>8, <2>1 DEF Continues
<1>10. BlocksOf(q.dev, i) = BlocksOf(r.dev, i)
  BY <1>2, <1>9, ContinuesFile
<1>11. Shape(q.dev, q.ino[i], Words(q, i), k, D, B)
  BY <1>3, <1>7 DEF Shape, Words
<1>12. Draft(h, q, i, R, k, D, B, Y)
  <2>1. q \in Runs /\ Consistent(q.dev, q.mem, R, {}, hand, h) /\ Mirror(q.dev, q.mem)
    BY <1>6, StillIs DEF Holds
  <2>2. h = {} => \A c \in D : q.mem.csum[c] = Csum(Data)
    BY <1>2, <1>3, <1>8
  <2>3. hand = (B \ BlocksOf(q.dev, i)) \cup Y
    BY <1>1, <1>10
  <2>4. i \in Entries(q.dev)
    BY <1>3, <1>6
  <2>5. i \in R \/ (B \subseteq q.dev.bmap /\ q.ind[i] = Zero)
    BY <1>3, <1>7
  <2>6. BlocksOf(q.dev, i) \subseteq B
    BY <1>3, <1>10
  <2>7. Consistent(q.dev, q.mem, R, {}, (B \ BlocksOf(q.dev, i)) \cup Y, h)
    BY <2>1, <2>3
  <2> QED BY <1>3, <1>7, <1>11, <2>1, <2>2, <2>4, <2>5, <2>6, <2>7 DEF Draft
<1>13. Still(h, s, q)
  BY <1>6 DEF Holds
<1> QED BY <1>1, <1>7, <1>8, <1>9, <1>12, <1>13 DEF Drafted

LEMMA DataIsWords == Data \in Seq(Word) /\ Data # Zero /\ 1 \in Block /\ \A b \in Block : <<b>> \in Seq(Word) /\ <<b>> # Zero
<1>1. 1 \in Block
  BY VolumeAssumption DEF Block
<1>2. \A b \in Block : b \in Word
  BY NumbersAreWords
<1>3. \A b \in Word : <<b>> \in Seq(Word) /\ <<b>> # <<>>
  OBVIOUS
<1> QED BY <1>1, <1>2, <1>3 DEF Data, Zero

\* The run p is r with the block b allocated for the inode i, whose dinode in
\* memory is now n.
HasObtained(p, r, i, n, b) ==
  /\ p.ino = [r.ino EXCEPT ![i] = n] /\ p.ind = r.ind
  /\ p.open = r.open /\ p.unsaved = r.unsaved
  /\ p.dev.node = r.dev.node /\ p.dev.imap = r.dev.imap /\ p.dev.block = r.dev.block
  /\ p.mem.imap = r.mem.imap /\ p.mem.csum = r.mem.csum
  /\ p.mem.bmap = r.mem.bmap \cup {b}
  /\ b \in p.dev.bmap /\ r.dev.bmap \subseteq p.dev.bmap
  /\ Entries(p.dev) = Entries(r.dev)

LEMMA AllocatedHolds ==
  ASSUME NEW h, NEW s, NEW r, NEW R, NEW X, NEW hand, Holds(h, s, r, R, X, hand),
         Fits(r.dev, R, X, AtRisk(r)), Block \ r.mem.bmap # {}, NEW i \in Inode,
         NEW n, NEW p, Renoded(p, AllocBlock(r), i, n)
  PROVE  /\ FirstFreeBlock(r) \in Block \ r.mem.bmap
         /\ Holds(h, s, p, R, X, hand \cup {FirstFreeBlock(r)})
         /\ HasObtained(p, r, i, n, FirstFreeBlock(r))
<1>1. PICK a, b : a = AllocBlock(r) /\ b = FirstFreeBlock(r)
  OBVIOUS
<1>2. b \in Block \ r.mem.bmap /\ Holds(h, s, a, R, X, hand \cup {b}) /\ HasAllocated(a, r, b)
  BY <1>1, AllocBlockHolds
<1>3. Holds(h, s, p, R, X, hand \cup {b})
  BY <1>1, <1>2, RenodedHolds
<1>4. /\ p.dev = a.dev /\ p.mem = a.mem /\ p.ino = [a.ino EXCEPT ![i] = n] /\ p.ind = a.ind
      /\ p.open = a.open /\ p.unsaved = a.unsaved
  BY <1>1 DEF Renoded
<1>5. HasObtained(p, r, i, n, b)
  BY <1>2, <1>4 DEF HasAllocated, Kept, HasObtained
<1> QED BY <1>1, <1>2, <1>3, <1>5

\* The first block of data.
LEMMA WriteNewFirst ==
  ASSUME NEW h, NEW s, NEW r, NEW i, NEW R, NEW D, NEW B, NEW Y, Still(h, s, r),
         Draft(h, r, i, R, 0, D, B, Y), NEW n \in Nat, Free(r, n + 1)
  PROVE  Drafted(h, s, WriteBlock(r, i, 0, Data), r, i, R, 1, Y) /\ Free(WriteBlock(r, i, 0, Data), n)
<1>1. PICK b, p, q, a : /\ b = FirstFreeBlock(r) /\ p = AllocateBlock(r, i, 0) /\ q = Store(p, b, Data)
                        /\ a = AllocBlock(r)
  OBVIOUS
<1>2. /\ r.dev \in Device /\ r.mem \in Memory /\ AtRisk(r) = R /\ Fits(r.dev, R, {}, R) /\ i \in Inode
      /\ Y \subseteq r.mem.bmap /\ r.mem.bmap \subseteq Block /\ r.ino \in [Inode -> Dinodes]
      /\ BlocksOf(r.dev, i) \subseteq r.mem.bmap
  BY DraftIs
<1>3. /\ Consistent(r.dev, r.mem, R, {}, (B \ BlocksOf(r.dev, i)) \cup Y, h) /\ Mirror(r.dev, r.mem)
      /\ Shape(r.dev, r.ino[i], Words(r, i), 0, D, B) /\ r.open = {} /\ r.unsaved = R
      /\ i \in Entries(r.dev) /\ BlocksOf(r.dev, i) \subseteq B
      /\ r.ind[i] = Zero
  BY DEF Draft
<1>4. B = {} /\ r.ino[i].direct = 0 /\ r.ino[i].indirect = 0 /\ r.ino[i].type = "file"
  BY <1>3 DEF Shape
<1>5. (B \ BlocksOf(r.dev, i)) \cup Y = Y /\ BlocksOf(r.dev, i) = {}
  BY <1>3, <1>4
<1>6. Holds(h, s, r, R, {}, Y) /\ Block \ r.mem.bmap # {}
  <2>1. Consistent(r.dev, r.mem, R, {}, Y, h)
    BY <1>3, <1>5
  <2> QED BY <1>3, <2>1, FreeSome DEF Holds
<1>7. PICK d : d = [r.ino[i] EXCEPT !.direct = b]
  OBVIOUS
<1>8. Renoded(p, a, i, d) /\ b \in Block \ r.mem.bmap
  <2>1. b \in Block \ r.mem.bmap /\ Holds(h, s, a, R, {}, Y \cup {b}) /\ HasAllocated(a, r, b)
    BY <1>1, <1>2, <1>6, AllocBlockHolds
  <2>2. a \in Runs /\ a.ino = r.ino /\ b \in BlockPtr
    BY <2>1, StillIs DEF Holds, HasAllocated, Kept, BlockPtr
  <2>3. p = [a EXCEPT !.ino[i].direct = b]
    BY <1>1 DEF AllocateBlock
  <2>4. Renoded(p, a, i, [a.ino[i] EXCEPT !.direct = b])
    BY <1>2, <2>2, <2>3, SetDirect
  <2> QED BY <1>7, <2>1, <2>2, <2>4
<1>9. /\ Holds(h, s, p, R, {}, Y \cup {b})
      /\ p.ino = [r.ino EXCEPT ![i] = d] /\ p.ind = r.ind /\ p.open = {} /\ p.unsaved = R
      /\ p.dev.node = r.dev.node /\ p.dev.imap = r.dev.imap /\ p.dev.block = r.dev.block
      /\ p.mem.imap = r.mem.imap /\ p.mem.csum = r.mem.csum
      /\ p.mem.bmap = r.mem.bmap \cup {b} /\ b \in p.dev.bmap
      /\ Entries(p.dev) = Entries(r.dev)
  <2>1. Renoded(p, AllocBlock(r), i, d) /\ Fits(r.dev, R, {}, AtRisk(r))
    BY <1>1, <1>2, <1>8
  <2>2. Holds(h, s, p, R, {}, Y \cup {FirstFreeBlock(r)}) /\ HasObtained(p, r, i, d, FirstFreeBlock(r))
    BY <1>2, <1>6, <2>1, AllocatedHolds
  <2> QED BY <1>1, <1>3, <2>2 DEF HasObtained
<1>10. WriteBlock(r, i, 0, Data) = q /\ p.ino[i] = d /\ d.direct = b /\ d.indirect = 0 /\ d.type = "file"
       /\ d.size = r.ino[i].size
  <2>1. Mapped(r, i, 0) = 0
    BY <1>4 DEF Mapped
  <2>2. p.ino[i] = d /\ d.direct = b /\ d.indirect = 0 /\ d.type = "file" /\ d.size = r.ino[i].size
    <3>1. r.ino[i] \in Dinodes
      BY <1>2
    <3> QED BY <1>2, <1>4, <1>7, <1>9, <3>1 DEF Dinodes
  <2>3. Mapped(p, i, 0) = b
    BY <2>2 DEF Mapped
  <2>4. WriteBlock(r, i, 0, Data) = q
    BY <1>1, <2>1, <2>3, WriteBlockIs
  <2> QED BY <2>2, <2>4
<1>11. /\ Holds(h, s, q, R, {}, Y \cup {b}) /\ HasStored(q, p, b, Data) /\ Entries(q.dev) = Entries(p.dev)
  <2>1. Fits(p.dev, R, {}, AtRisk(p))
    BY <1>2, <1>9 DEF Fits, AtRisk
  <2>2. b \in Y \cup {b}
    OBVIOUS
  <2>3. PICK H : H = Y \cup {b}
    OBVIOUS
  <2>5. Holds(h, s, p, R, {}, H) /\ b \in H /\ Data \in Seq(Word)
    BY <1>9, <2>3, DataIsWords
  <2>4. /\ Holds(h, s, Store(p, b, Data), R, {}, H) /\ HasStored(Store(p, b, Data), p, b, Data)
        /\ Entries(Store(p, b, Data).dev) = Entries(p.dev)
    BY <2>1, <2>5, StoreInHand
  <2> QED BY <1>1, <2>3, <2>4
<1>12. /\ q.dev.node = r.dev.node /\ q.dev.imap = r.dev.imap /\ q.mem.imap = r.mem.imap
       /\ q.ino = p.ino /\ q.ind = r.ind /\ q.open = {} /\ q.unsaved = R /\ q.writes # <<>>
       /\ q.mem.bmap = r.mem.bmap \cup {b} /\ b \in q.dev.bmap
       /\ q.dev.block[b] = Data /\ \A c \in Block \ {b} : q.dev.block[c] = r.dev.block[c]
       /\ \A c \in Block : q.mem.csum[c] = IF c = b THEN Csum(Data) ELSE r.mem.csum[c]
  <2>1. p.dev \in Device /\ p.mem \in Memory /\ b \in Block
    BY <1>8, <1>9, StillIs DEF Holds
  <2>2. Filled(p.dev, b, Data).block = [c \in Block |-> IF c = b THEN Data ELSE p.dev.block[c]]
    BY <2>1, FilledIs
  <2>3. /\ q.dev.node = p.dev.node /\ q.dev.imap = p.dev.imap /\ q.mem.imap = p.mem.imap
        /\ q.ino = p.ino /\ q.ind = p.ind /\ q.open = p.open /\ q.unsaved = p.unsaved /\ q.writes # <<>>
        /\ q.mem = Stored(p.mem, b, Data) /\ q.dev.bmap = p.dev.bmap
        /\ q.dev.block = Filled(p.dev, b, Data).block
    BY <1>11 DEF HasStored, Kept
  <2>4. /\ q.mem.bmap = p.mem.bmap
        /\ \A c \in Block : q.mem.csum[c] = IF c = b THEN Csum(Data) ELSE p.mem.csum[c]
    BY <2>1, <2>3, StoredIs
  <2> QED BY <1>9, <2>1, <2>2, <2>3, <2>4
<1>13. Continues(q, r, i, Y)
  BY <1>2, <1>8, <1>9, <1>10, <1>11, <1>12 DEF Continues
<1>14. BlocksOf(q.dev, i) = {}
  BY <1>2, <1>5, <1>13, ContinuesFile
<1>15. Shape(q.dev, q.ino[i], Words(q, i), 1, {b}, {b})
  BY <1>8, <1>10, <1>12, DataIsWords, NumbersAreWords DEF Shape, BlockPtr
<1>16. Draft(h, q, i, R, 1, {b}, {b}, Y)
  <2>1. ({b} \ BlocksOf(q.dev, i)) \cup Y = Y \cup {b} /\ BlocksOf(q.dev, i) \subseteq {b}
    BY <1>14
  <2>2. q \in Runs /\ Consistent(q.dev, q.mem, R, {}, ({b} \ BlocksOf(q.dev, i)) \cup Y, h) /\ Mirror(q.dev, q.mem)
    BY <1>11, <2>1, StillIs DEF Holds
  <2>3. i \in R \/ ({b} \subseteq q.dev.bmap /\ q.ind[i] = Zero)
    BY <1>3, <1>12
  <2>4. {b} \cap Y = {} /\ i \in Entries(q.dev)
    BY <1>2, <1>3, <1>8, <1>9, <1>11
  <2>5. h = {} => \A c \in {b} : q.mem.csum[c] = Csum(Data)
    BY <1>8, <1>12
  <2> QED BY <1>12, <1>15, <2>1, <2>2, <2>3, <2>4, <2>5 DEF Draft
<1>17. Still(h, s, q)
  BY <1>11 DEF Holds
<1>18. Free(q, n)
  BY <1>8, <1>12, FreeLess
<1> QED BY <1>10, <1>12, <1>13, <1>16, <1>17, <1>18 DEF Drafted

\* The run w has two blocks more, c and e, for the second block of data of i.
HasMapped(w, r, i, c, e) ==
  /\ w.ino = [r.ino EXCEPT ![i] = [r.ino[i] EXCEPT !.indirect = c]] /\ w.ind = r.ind
  /\ w.open = r.open /\ w.unsaved = r.unsaved
  /\ w.dev.node = r.dev.node /\ w.dev.imap = r.dev.imap
  /\ w.dev.block[c] = <<e>> /\ \A b \in Block \ {c} : w.dev.block[b] = r.dev.block[b]
  /\ w.mem.imap = r.mem.imap /\ w.mem.csum = r.mem.csum
  /\ w.mem.bmap = r.mem.bmap \cup {c, e}
  /\ {c, e} \subseteq w.dev.bmap /\ r.dev.bmap \subseteq w.dev.bmap
  /\ Entries(w.dev) = Entries(r.dev)
  /\ c \in Block \ r.mem.bmap /\ e \in Block \ r.mem.bmap /\ c # e

LEMMA AllocateSecondHolds ==
  ASSUME NEW h, NEW s, NEW r, NEW R, NEW hand, Holds(h, s, r, R, {}, hand),
         Fits(r.dev, R, {}, AtRisk(r)), NEW i \in Inode, NEW n \in Nat, Free(r, n + 2),
         r.ino[i].indirect = 0
  PROVE  \E c, e : /\ HasMapped(AllocateBlock(r, i, 1), r, i, c, e)
                   /\ Holds(h, s, AllocateBlock(r, i, 1), R, {}, hand \cup {c, e})
                   /\ Free(AllocateBlock(r, i, 1), n)
<1>1. PICK c, a, p : c = FirstFreeBlock(r) /\ a = AllocBlock(r) /\ p = [a EXCEPT !.ino[i].indirect = c]
  OBVIOUS
<1>2. PICK e, z, w : e = FirstFreeBlock(p) /\ z = AllocBlock(p) /\ w = WriteSync(z, "block", c, <<e>>)
  OBVIOUS
<1>3. PICK d : d = [r.ino[i] EXCEPT !.indirect = c]
  OBVIOUS
<1>4. n + 2 = (n + 1) + 1 /\ n + 1 \in Nat
  OBVIOUS
<1>5. Free(r, (n + 1) + 1)
  BY <1>4
<1>6. Block \ r.mem.bmap # {}
  BY <1>4, <1>5, FreeSome
<1>7. r \in Runs /\ r.ino \in [Inode -> Dinodes] /\ r.mem \in Memory
  BY StillIs DEF Holds
<1>8. Renoded(p, AllocBlock(r), i, d) /\ c \in Block \ r.mem.bmap
  <2>1. c \in Block \ r.mem.bmap /\ Holds(h, s, a, R, {}, hand \cup {c}) /\ HasAllocated(a, r, c)
    BY <1>1, <1>6, AllocBlockHolds
  <2>2. a \in Runs /\ a.ino = r.ino /\ c \in BlockPtr
    BY <2>1, StillIs DEF Holds, HasAllocated, Kept, BlockPtr
  <2>3. Renoded(p, a, i, [a.ino[i] EXCEPT !.indirect = c])
    BY <1>1, <2>2, SetIndirect
  <2> QED BY <1>1, <1>3, <2>1, <2>2, <2>3
<1>9. Holds(h, s, p, R, {}, hand \cup {c}) /\ HasObtained(p, r, i, d, c)
  <2>1. Holds(h, s, p, R, {}, hand \cup {FirstFreeBlock(r)}) /\ HasObtained(p, r, i, d, FirstFreeBlock(r))
    BY <1>6, <1>8, AllocatedHolds
  <2> QED BY <1>1, <2>1
<1>10. PICK H : H = hand \cup {c}
  OBVIOUS
<1>11. Holds(h, s, p, R, {}, H) /\ Fits(p.dev, R, {}, AtRisk(p))
  <2>1. AtRisk(p) = AtRisk(r)
    BY <1>9 DEF HasObtained, AtRisk
  <2> QED BY <1>9, <1>10, <2>1 DEF Fits
<1>12. Free(p, n + 1)
  BY <1>4, <1>5, <1>8, <1>9, FreeLess DEF HasObtained
<1>13. Block \ p.mem.bmap # {}
  BY <1>12, FreeSome
<1>14. e \in Block \ p.mem.bmap /\ Holds(h, s, z, R, {}, H \cup {e}) /\ HasAllocated(z, p, e)
  BY <1>2, <1>11, <1>13, AllocBlockHolds
<1>15. PICK K : K = H \cup {e}
  OBVIOUS
<1>16. Holds(h, s, z, R, {}, K) /\ Fits(z.dev, R, {}, AtRisk(z)) /\ c \in K /\ <<e>> \in Seq(Word)
  <2>1. AtRisk(z) = AtRisk(p)
    BY <1>14 DEF HasAllocated, Kept, AtRisk
  <2> QED BY <1>10, <1>11, <1>14, <1>15, <2>1, DataIsWords DEF Fits
<1>17. /\ Holds(h, s, w, R, {}, K) /\ w.dev = Filled(z.dev, c, <<e>>) /\ w.mem = z.mem
       /\ w.ino = z.ino /\ w.ind = z.ind /\ w.open = z.open /\ w.unsaved = z.unsaved
       /\ Entries(w.dev) = Entries(z.dev)
  <2>1. PICK x : x = <<e>>
    OBVIOUS
  <2>2. x \in Seq(Word) /\ w = WriteSync(z, "block", c, x)
    BY <1>2, <1>16, <2>1
  <2>3. Holds(h, s, w, R, {}, K) /\ HasFilled(w, z, c, x)
    BY <1>16, <2>2, FillHolds
  <2> QED BY <2>1, <2>3 DEF HasFilled
<1>18. w = AllocateBlock(r, i, 1)
  <2>1. p.ino[i] = d /\ d.indirect = c
    <3>1. r.ino[i] \in Dinodes
      BY <1>7
    <3> QED BY <1>3, <1>7, <1>9, <3>1 DEF Dinodes, HasObtained
  <2>2. AllocateBlock(r, i, 1) = WriteSync(AllocBlock(p), "block", p.ino[i].indirect, <<FirstFreeBlock(p)>>)
    BY <1>1 DEF AllocateBlock
  <2> QED BY <1>2, <2>1, <2>2
<1>19. HasMapped(w, r, i, c, e)
  <2>1. z.dev \in Device
    BY <1>14, StillIs DEF Holds
  <2>2. /\ w.dev.block = [b \in Block |-> IF b = c THEN <<e>> ELSE z.dev.block[b]]
        /\ w.dev.bmap = z.dev.bmap /\ w.dev.node = z.dev.node /\ w.dev.imap = z.dev.imap
        /\ w.dev.csum = z.dev.csum
    <3>1. PICK x : x = <<e>>
      OBVIOUS
    <3>2. w.dev = Filled(z.dev, c, x)
      BY <1>17, <3>1
    <3>3. /\ Filled(z.dev, c, x).imap = z.dev.imap /\ Filled(z.dev, c, x).bmap = z.dev.bmap
          /\ Filled(z.dev, c, x).csum = z.dev.csum /\ Filled(z.dev, c, x).node = z.dev.node
          /\ Filled(z.dev, c, x).block = [b \in Block |-> IF b = c THEN x ELSE z.dev.block[b]]
      BY <2>1, FilledIs
    <3> QED BY <3>1, <3>2, <3>3
  <2>3. /\ z.ino = p.ino /\ z.ind = p.ind /\ z.unsaved = p.unsaved /\ z.dev.node = p.dev.node
        /\ z.dev.imap = p.dev.imap /\ z.mem.imap = p.mem.imap
        /\ z.open = p.open /\ z.dev.block = p.dev.block
        /\ z.mem.bmap = p.mem.bmap \cup {e} /\ z.mem.csum = p.mem.csum
        /\ e \in z.dev.bmap /\ p.dev.bmap \subseteq z.dev.bmap /\ Entries(z.dev) = Entries(p.dev)
    BY <1>14 DEF HasAllocated, Kept
  <2>4. /\ p.ino = [r.ino EXCEPT ![i] = d] /\ p.ind = r.ind
        /\ p.open = r.open /\ p.unsaved = r.unsaved
        /\ p.dev.node = r.dev.node /\ p.dev.imap = r.dev.imap /\ p.dev.block = r.dev.block
        /\ p.mem.imap = r.mem.imap /\ p.mem.csum = r.mem.csum
        /\ p.mem.bmap = r.mem.bmap \cup {c}
        /\ c \in p.dev.bmap /\ r.dev.bmap \subseteq p.dev.bmap
        /\ Entries(p.dev) = Entries(r.dev)
    BY <1>9 DEF HasObtained
  <2>5. c \in Block \ r.mem.bmap /\ e \in Block \ r.mem.bmap /\ c # e
    BY <1>8, <1>14, <2>4
  <2>6. /\ w.dev.block[c] = <<e>> /\ \A b \in Block \ {c} : w.dev.block[b] = r.dev.block[b]
    BY <2>2, <2>3, <2>4, <2>5
  <2>7. /\ w.ino = [r.ino EXCEPT ![i] = d] /\ w.ind = r.ind
        /\ w.open = r.open /\ w.unsaved = r.unsaved
        /\ w.dev.node = r.dev.node /\ w.dev.imap = r.dev.imap
        /\ w.mem.imap = r.mem.imap /\ w.mem.csum = r.mem.csum
        /\ Entries(w.dev) = Entries(r.dev)
    BY <1>17, <2>2, <2>3, <2>4
  <2>8. w.mem.bmap = r.mem.bmap \cup {c, e} /\ {c, e} \subseteq w.dev.bmap /\ r.dev.bmap \subseteq w.dev.bmap
    BY <1>17, <2>2, <2>3, <2>4
  <2> QED BY <1>3, <2>5, <2>6, <2>7, <2>8 DEF HasMapped
<1>20. Free(w, n)
  <2>1. w.mem.bmap = p.mem.bmap \cup {e}
    BY <1>14, <1>17 DEF HasAllocated
  <2> QED BY <1>12, <1>14, <2>1, FreeLess
<1>21. Holds(h, s, w, R, {}, hand \cup {c, e})
  <2>1. K = hand \cup {c, e}
    BY <1>10, <1>15
  <2> QED BY <1>17, <2>1
<1> QED BY <1>18, <1>19, <1>20, <1>21

\* The second block of data.
LEMMA WriteNewSecond ==
  ASSUME NEW h, NEW s, NEW r, NEW i, NEW R, NEW D, NEW B, NEW Y, Still(h, s, r),
         Draft(h, r, i, R, 1, D, B, Y), NEW n \in Nat, Free(r, n + 2), r.ind[i] = Zero
  PROVE  Drafted(h, s, WriteBlock(r, i, 1, Data), r, i, R, 2, Y) /\ Free(WriteBlock(r, i, 1, Data), n)
<1>1. PICK w, f, H : /\ w = AllocateBlock(r, i, 1) /\ f = r.ino[i].direct
                     /\ H = (B \ BlocksOf(r.dev, i)) \cup Y
  OBVIOUS
<1>2. /\ r.dev \in Device /\ r.mem \in Memory /\ AtRisk(r) = R /\ Fits(r.dev, R, {}, R) /\ i \in Inode
      /\ Y \subseteq r.mem.bmap /\ r.mem.bmap \subseteq Block /\ r.ino \in [Inode -> Dinodes]
      /\ BlocksOf(r.dev, i) \subseteq r.mem.bmap /\ B \subseteq r.mem.bmap
  BY DraftIs
<1>3. /\ Consistent(r.dev, r.mem, R, {}, H, h) /\ Mirror(r.dev, r.mem)
      /\ Shape(r.dev, r.ino[i], Words(r, i), 1, D, B) /\ r.open = {} /\ r.unsaved = R
      /\ i \in Entries(r.dev) /\ BlocksOf(r.dev, i) \subseteq B /\ B \cap Y = {}
      /\ i \in R \/ B \subseteq r.dev.bmap
      /\ h = {} => \A b \in D : r.mem.csum[b] = Csum(Data)
  BY <1>1 DEF Draft
<1>4. /\ f # 0 /\ r.ino[i].indirect = 0 /\ r.ino[i].type = "file" /\ D = {f} /\ B = {f} /\ f \in BlockPtr
      /\ r.dev.block[f] = Data
  BY <1>1, <1>3 DEF Shape
<1>5. Holds(h, s, r, R, {}, H) /\ Fits(r.dev, R, {}, AtRisk(r))
  BY <1>2, <1>3 DEF Holds
<1>6. PICK c, e : HasMapped(w, r, i, c, e) /\ Holds(h, s, w, R, {}, H \cup {c, e}) /\ Free(w, n)
  BY <1>1, <1>2, <1>4, <1>5, AllocateSecondHolds
<1>7. PICK q, K : q = Store(w, e, Data) /\ K = H \cup {c, e}
  OBVIOUS
<1>8. /\ c \in Block \ r.mem.bmap /\ e \in Block \ r.mem.bmap /\ c # e /\ c # 0
      /\ w.ino[i] = [r.ino[i] EXCEPT !.indirect = c] /\ w.dev.block[c] = <<e>>
  BY <1>2, <1>6, NumbersAreWords DEF HasMapped
<1>9. /\ w.ino[i].indirect = c /\ w.ino[i].direct = f /\ w.ino[i].type = "file"
      /\ w.ino[i].size = r.ino[i].size
  <2>1. r.ino[i] \in Dinodes
    BY <1>2
  <2> QED BY <1>1, <1>4, <1>8, <2>1 DEF Dinodes
<1>10. WriteBlock(r, i, 1, Data) = q
  <2>1. Mapped(r, i, 1) = 0
    BY <1>4 DEF Mapped
  <2>2. Mapped(w, i, 1) = e
    <3>1. PICK x : x = <<e>>
      OBVIOUS
    <3>2. x # Zero /\ x[1] = e
      BY <3>1 DEF Zero
    <3> QED BY <1>8, <1>9, <3>1, <3>2 DEF Mapped
  <2> QED BY <1>1, <1>7, <2>1, <2>2, WriteBlockIs
<1>11. /\ Holds(h, s, q, R, {}, K) /\ HasStored(q, w, e, Data) /\ Entries(q.dev) = Entries(w.dev)
  <2>1. AtRisk(w) = AtRisk(r)
    BY <1>6 DEF HasMapped, AtRisk
  <2>2. Fits(w.dev, R, {}, AtRisk(w))
    BY <1>5, <2>1 DEF Fits
  <2>3. Holds(h, s, w, R, {}, K) /\ e \in K /\ Data \in Seq(Word)
    BY <1>6, <1>7, DataIsWords
  <2>4. /\ Holds(h, s, Store(w, e, Data), R, {}, K) /\ HasStored(Store(w, e, Data), w, e, Data)
        /\ Entries(Store(w, e, Data).dev) = Entries(w.dev)
    BY <2>2, <2>3, StoreInHand
  <2> QED BY <1>7, <2>4
<1>12. /\ q.dev.node = r.dev.node /\ q.dev.imap = r.dev.imap /\ q.mem.imap = r.mem.imap
       /\ q.ino = w.ino /\ q.ind = r.ind /\ q.open = {} /\ q.unsaved = R /\ q.writes # <<>>
       /\ q.mem.bmap = r.mem.bmap \cup {c, e} /\ {c, e} \subseteq q.dev.bmap /\ r.dev.bmap \subseteq q.dev.bmap
       /\ q.dev.block[e] = Data /\ q.dev.block[c] = <<e>>
       /\ \A b \in Block \ {c, e} : q.dev.block[b] = r.dev.block[b]
       /\ \A b \in Block : q.mem.csum[b] = IF b = e THEN Csum(Data) ELSE r.mem.csum[b]
       /\ \A j \in Inode \ {i} : q.ino[j] = r.ino[j]
       /\ Entries(q.dev) = Entries(r.dev)
  <2>1. w.dev \in Device /\ w.mem \in Memory /\ e \in Block
    BY <1>6, <1>8, StillIs DEF Holds
  <2>2. Filled(w.dev, e, Data).block = [b \in Block |-> IF b = e THEN Data ELSE w.dev.block[b]]
    BY <2>1, FilledIs
  <2>3. /\ q.dev.node = w.dev.node /\ q.dev.imap = w.dev.imap /\ q.mem.imap = w.mem.imap
        /\ q.ino = w.ino /\ q.ind = w.ind /\ q.open = w.open /\ q.unsaved = w.unsaved /\ q.writes # <<>>
        /\ q.mem = Stored(w.mem, e, Data) /\ q.dev.bmap = w.dev.bmap
        /\ q.dev.block = Filled(w.dev, e, Data).block
    BY <1>11 DEF HasStored, Kept
  <2>4. /\ q.mem.bmap = w.mem.bmap
        /\ \A b \in Block : q.mem.csum[b] = IF b = e THEN Csum(Data) ELSE w.mem.csum[b]
    BY <2>1, <2>3, StoredIs
  <2>5. /\ w.ino = [r.ino EXCEPT ![i] = [r.ino[i] EXCEPT !.indirect = c]] /\ w.ind = r.ind
        /\ w.open = r.open /\ w.unsaved = r.unsaved
        /\ w.dev.node = r.dev.node /\ w.dev.imap = r.dev.imap
        /\ w.dev.block[c] = <<e>> /\ \A b \in Block \ {c} : w.dev.block[b] = r.dev.block[b]
        /\ w.mem.imap = r.mem.imap /\ w.mem.csum = r.mem.csum
        /\ w.mem.bmap = r.mem.bmap \cup {c, e}
        /\ {c, e} \subseteq w.dev.bmap /\ r.dev.bmap \subseteq w.dev.bmap
        /\ Entries(w.dev) = Entries(r.dev)
    BY <1>6 DEF HasMapped
  <2>6. \A j \in Inode \ {i} : w.ino[j] = r.ino[j]
    BY <1>2, <2>5
  <2>7. /\ q.dev.block[e] = Data /\ q.dev.block[c] = <<e>>
        /\ \A b \in Block \ {c, e} : q.dev.block[b] = r.dev.block[b]
    BY <1>8, <2>2, <2>3, <2>5
  <2> QED BY <1>3, <1>11, <2>3, <2>4, <2>5, <2>6, <2>7
<1>13. Continues(q, r, i, Y)
  <2>1. /\ r.mem.bmap \subseteq q.mem.bmap /\ \A b \in r.mem.bmap : q.dev.block[b] = r.dev.block[b]
        /\ \A b \in Y : q.mem.csum[b] = r.mem.csum[b]
    BY <1>2, <1>8, <1>12
  <2> QED BY <1>9, <1>12, <2>1 DEF Continues
<1>14. BlocksOf(q.dev, i) = BlocksOf(r.dev, i)
  BY <1>2, <1>13, ContinuesFile
<1>15. PICK E, C : E = {f, e} /\ C = {f, c, e}
  OBVIOUS
<1>16. /\ f \in Block /\ f # c /\ f # e
  BY <1>2, <1>4, <1>8
<1>17. Shape(q.dev, q.ino[i], Words(q, i), 2, E, C)
  <2>1. Words(q, i) = <<e>>
    BY <1>9, <1>12 DEF Words
  <2>2. q.dev.block[f] = Data /\ q.ino[i].direct = f /\ q.ino[i].indirect = c /\ q.ino[i].type = "file"
    BY <1>4, <1>9, <1>12, <1>16
  <2> QED BY <1>4, <1>8, <1>12, <1>15, <1>16, <2>1, <2>2 DEF Shape
<1>18. Draft(h, q, i, R, 2, E, C, Y)
  <2>1. (C \ BlocksOf(q.dev, i)) \cup Y = K /\ BlocksOf(q.dev, i) \subseteq C
    BY <1>1, <1>2, <1>3, <1>4, <1>7, <1>8, <1>14, <1>15
  <2>2. q \in Runs /\ Consistent(q.dev, q.mem, R, {}, (C \ BlocksOf(q.dev, i)) \cup Y, h) /\ Mirror(q.dev, q.mem)
    BY <1>11, <2>1, StillIs DEF Holds
  <2>3. i \in R \/ (C \subseteq q.dev.bmap /\ q.ind[i] = Zero)
    BY <1>3, <1>4, <1>12, <1>15
  <2>4. C \cap Y = {} /\ i \in Entries(q.dev)
    BY <1>2, <1>3, <1>4, <1>8, <1>12, <1>15
  <2>5. h = {} => \A b \in E : q.mem.csum[b] = Csum(Data)
    BY <1>3, <1>4, <1>8, <1>12, <1>15, <1>16
  <2> QED BY <1>12, <1>17, <2>1, <2>2, <2>3, <2>4, <2>5 DEF Draft
<1>19. Still(h, s, q)
  BY <1>11 DEF Holds
<1>20. Free(q, n)
  BY <1>6, <1>12 DEF Free, HasMapped
<1> QED BY <1>10, <1>12, <1>13, <1>18, <1>19, <1>20 DEF Drafted

-----------------------------------------------------------------------------
(***************************************************************************)
(* Files brought to the device.                                            *)
(***************************************************************************)

\* All inodes in memory but i are as on the device.
OthersRest(r, i) == \A j \in Inode \ {i} : r.ino[j] = r.dev.node[j] /\ r.ind[j] = Zero

\* The file i is held, to be brought to the device with k blocks.
Held(h, s, r, i, R, k, D, B) ==
  /\ Holds(h, s, r, R, {i}, B) /\ i \in Entries(r.dev) /\ i \in r.dev.imap
  /\ Shape(r.dev, r.ino[i], Words(r, i), k, D, B) /\ r.ino[i].size = k
  /\ r.open \subseteq {i} /\ r.unsaved = R
  /\ i \in R \/ (B \subseteq r.dev.bmap /\ r.ind[i] = Zero)
  /\ h = {} => \A b \in D : r.mem.csum[b] = Csum(Data)

\* The dinode of i in memory is put on the device.
LEMMA NodedBeside ==
  ASSUME NEW d \in Device, NEW m \in Memory, NEW R, NEW X, NEW hand, NEW h, Consistent(d, m, R, X, hand, h),
         NEW i \in X, i \in Inode, NEW ino \in [Inode -> Dinodes]
  PROVE  /\ Noded(d, ino, {i}) \in Device /\ Consistent(Noded(d, ino, {i}), m, R, X, hand, h)
         /\ Entries(Noded(d, ino, {i})) = Entries(d)
<1>1. PICK e : e = Noded(d, ino, {i})
  OBVIOUS
<1>2. /\ e.imap = d.imap /\ e.bmap = d.bmap /\ e.csum = d.csum /\ e.block = d.block
      /\ e.node = [j \in Inode |-> IF j \in {i} THEN ino[j] ELSE d.node[j]]
  BY <1>1, NodedIs
<1>3. e \in Device
  BY <1>1, NodedDevice
<1>4. hand \subseteq m.bmap /\ d.bmap \subseteq m.bmap /\ d.imap = m.imap
  BY DEF Consistent
<1>5. Beside(e, m, d, m, X, hand, hand, h)
  BY <1>2, <1>4 DEF Beside
<1>6. Consistent(e, m, R, X, hand, h) /\ Entries(e) = Entries(d)
  BY <1>3, <1>5, BesideIs
<1> QED BY <1>1, <1>3, <1>6

\* A file held, once its dinode and its indirect block are on the device.
LEMMA ShapeRests ==
  ASSUME NEW d \in Device, NEW m \in Memory, NEW R, NEW h, NEW i, NEW B, Consistent(d, m, R, {i}, B, h),
         i \in Entries(d), i \in d.imap, NEW words, NEW k, NEW D,
         Shape(d, d.node[i], words, k, D, B), d.node[i].size = k,
         d.node[i].indirect # 0 => d.block[d.node[i].indirect] = words,
         i \in R \/ B \subseteq d.bmap,
         h = {} => \A b \in D : m.csum[b] = Csum(Data)
  PROVE  Consistent(d, m, R, {}, {}, h)
<1>1. FileOK(d, i) /\ DataBlocks(d, i) = D /\ BlocksOf(d, i) = B
  BY ShapeFile
<1>2. \A b \in D : d.block[b] = Data
  BY DEF Shape
<1>3. h = {} => \A b \in DataBlocks(d, i) : m.csum[b] = Csum(d.block[b])
  BY <1>1, <1>2
<1>4. i \in {i} \cap Entries(d) /\ BlocksOf(d, i) \subseteq B /\ (i \in R \/ BlocksOf(d, i) \subseteq d.bmap)
  BY <1>1
<1>5. Consistent(d, m, R, {i} \ {i}, B \ BlocksOf(d, i), h)
  BY <1>1, <1>3, <1>4, Checkin
<1>6. {i} \ {i} = {} /\ B \ BlocksOf(d, i) = {}
  BY <1>1
<1> QED BY <1>5, <1>6

\* The dinode of one inode written.
HasNoded(y, d, o, i) ==
  /\ y.imap = d.imap /\ y.bmap = d.bmap /\ y.csum = d.csum /\ y.block = d.block
  /\ y.node = [d.node EXCEPT ![i] = o[i]]

LEMMA NodedOne ==
  ASSUME NEW d \in Device, NEW o, NEW i \in Inode
  PROVE  HasNoded(Noded(d, o, {i}), d, o, i)
<1>1. PICK S : S = {i}
  OBVIOUS
<1>2. /\ Noded(d, o, S).imap = d.imap /\ Noded(d, o, S).bmap = d.bmap
      /\ Noded(d, o, S).csum = d.csum /\ Noded(d, o, S).block = d.block
      /\ Noded(d, o, S).node = [j \in Inode |-> IF j \in S THEN o[j] ELSE d.node[j]]
  BY NodedIs
<1>3. d.node \in [Inode -> Dinodes]
  BY DEF Device
<1>4. [j \in Inode |-> IF j \in S THEN o[j] ELSE d.node[j]] = [d.node EXCEPT ![i] = o[i]]
  BY <1>1, <1>3
<1> QED BY <1>1, <1>2, <1>4 DEF HasNoded

LEMMA SyncHeld ==
  ASSUME NEW h, NEW s, NEW r, NEW i \in File, NEW R, NEW k, NEW D, NEW B, Held(h, s, r, i, R, k, D, B),
         r.ind[i] = Zero
  PROVE  /\ Holds(h, s, SyncInode(r, i), R, {}, {}) /\ Settled(h, s, SyncInode(r, i))
         /\ HasSynced(SyncInode(r, i), r, i)
<1>1. PICK y : y = Noded(r.dev, r.ino, {i})
  OBVIOUS
<1>2. /\ Still(h, s, r) /\ Consistent(r.dev, r.mem, R, {i}, B, h) /\ Mirror(r.dev, r.mem)
      /\ i \in Entries(r.dev) /\ i \in r.dev.imap /\ r.ino[i].size = k
      /\ Shape(r.dev, r.ino[i], Words(r, i), k, D, B)
      /\ r.open \subseteq {i} /\ r.unsaved = R /\ (i \in R \/ B \subseteq r.dev.bmap)
      /\ h = {} => \A b \in D : r.mem.csum[b] = Csum(Data)
  BY DEF Held, Holds
<1>3. r.dev \in Device /\ r.mem \in Memory /\ r.ino \in [Inode -> Dinodes] /\ i \in Inode /\ i # Root
  BY <1>2, StillIs DEF File
<1>4. y \in Device /\ Consistent(y, r.mem, R, {i}, B, h) /\ Entries(y) = Entries(r.dev)
  <2>1. i \in {i}
    OBVIOUS
  <2>2. /\ Noded(r.dev, r.ino, {i}) \in Device /\ Consistent(Noded(r.dev, r.ino, {i}), r.mem, R, {i}, B, h)
        /\ Entries(Noded(r.dev, r.ino, {i})) = Entries(r.dev)
    BY <1>2, <1>3, <2>1, NodedBeside
  <2> QED BY <1>1, <2>2
<1>5. /\ y.imap = r.dev.imap /\ y.bmap = r.dev.bmap /\ y.block = r.dev.block /\ y.node[i] = r.ino[i]
  <2>1. PICK d, o : d = r.dev /\ o = r.ino
    OBVIOUS
  <2>2. d \in Device /\ d.node \in [Inode -> Dinodes]
    BY <1>3, <2>1 DEF Device
  <2>3. HasNoded(Noded(d, o, {i}), d, o, i)
    BY <1>3, <2>2, NodedOne
  <2>4. y = Noded(d, o, {i})
    BY <1>1, <2>1
  <2> QED BY <1>3, <2>1, <2>2, <2>3, <2>4 DEF HasNoded
<1>6. Shape(y, y.node[i], Words(r, i), k, D, B)
  BY <1>2, <1>5 DEF Shape
<1>7. Words(r, i) = r.dev.block[r.ino[i].indirect]
  BY DEF Words
<1>8. Consistent(y, r.mem, R, {}, {}, h)
  BY <1>2, <1>3, <1>4, <1>5, <1>6, <1>7, ShapeRests
<1>9. Fits(y, R, {}, (r.open \ {i}) \cup r.unsaved)
  <2>1. R \subseteq File
    BY <1>8 DEF Consistent
  <2>4. r.open \subseteq {i} /\ r.unsaved = R
    BY <1>2
  <2>5. r.open \ {i} = {}
    BY <2>4
  <2>2. (r.open \ {i}) \cup r.unsaved = R
    BY <2>4, <2>5
  <2>3. Root \notin R
    BY <2>1 DEF File
  <2> QED BY <2>2, <2>3 DEF Fits
<1>10. /\ Consistent(Noded(r.dev, r.ino, {i}), r.mem, R, {}, {}, h)
       /\ Fits(Noded(r.dev, r.ino, {i}), R, {}, (r.open \ {i}) \cup r.unsaved)
  BY <1>1, <1>8, <1>9
<1> QED BY <1>2, <1>3, <1>10, SyncInodeHolds

\* ... when its indirect block is in memory only.
HasFlushed(q, r, i) ==
  /\ q.writes # <<>> /\ q.open = {} /\ q.unsaved = r.unsaved /\ q.mem = r.mem /\ q.ino = r.ino
  /\ q.ind = [r.ind EXCEPT ![i] = Zero]
  /\ q.dev.node = [r.dev.node EXCEPT ![i] = r.ino[i]]
  /\ Entries(q.dev) = Entries(r.dev)

LEMMA SyncHeldDirty ==
  ASSUME NEW h, NEW s, NEW r, NEW i \in File, NEW R, NEW D, NEW B, Held(h, s, r, i, R, 2, D, B),
         r.ind[i] # Zero, i \in R
  PROVE  /\ Holds(h, s, SyncInode(r, i), R, {}, {}) /\ Settled(h, s, SyncInode(r, i))
         /\ HasFlushed(SyncInode(r, i), r, i)
<1>1. PICK y : y = Noded(r.dev, r.ino, {i})
  OBVIOUS
<1>2. /\ Still(h, s, r) /\ Consistent(r.dev, r.mem, R, {i}, B, h) /\ Mirror(r.dev, r.mem)
      /\ i \in Entries(r.dev) /\ i \in r.dev.imap /\ r.ino[i].size = 2
      /\ Shape(r.dev, r.ino[i], Words(r, i), 2, D, B)
      /\ r.open \subseteq {i} /\ r.unsaved = R
      /\ h = {} => \A b \in D : r.mem.csum[b] = Csum(Data)
  BY DEF Held, Holds
<1>3. /\ r \in Runs /\ r.dev \in Device /\ r.mem \in Memory /\ r.ino \in [Inode -> Dinodes]
      /\ r.ind \in [Inode -> Seq(Word)] /\ i \in Inode /\ i # Root /\ R \subseteq File /\ Root \notin R
  <2>1. R \subseteq File
    BY <1>2 DEF Consistent
  <2> QED BY <1>2, <2>1, StillIs DEF File
<1>4. y \in Device /\ Consistent(y, r.mem, R, {i}, B, h) /\ Entries(y) = Entries(r.dev)
  <2>1. i \in {i}
    OBVIOUS
  <2>2. /\ Noded(r.dev, r.ino, {i}) \in Device /\ Consistent(Noded(r.dev, r.ino, {i}), r.mem, R, {i}, B, h)
        /\ Entries(Noded(r.dev, r.ino, {i})) = Entries(r.dev)
    BY <1>2, <1>3, <2>1, NodedBeside
  <2> QED BY <1>1, <2>2
<1>5. /\ y.imap = r.dev.imap /\ y.bmap = r.dev.bmap /\ y.block = r.dev.block /\ y.csum = r.dev.csum
      /\ y.node = [r.dev.node EXCEPT ![i] = r.ino[i]]
  <2>1. PICK d, o : d = r.dev /\ o = r.ino
    OBVIOUS
  <2>2. d \in Device
    BY <1>3, <2>1
  <2>3. HasNoded(Noded(d, o, {i}), d, o, i)
    BY <1>3, <2>2, NodedOne
  <2>4. y = Noded(d, o, {i})
    BY <1>1, <2>1
  <2> QED BY <2>1, <2>3, <2>4 DEF HasNoded
<1>6. PICK z : /\ SyncInode(r, i) = FlushIndirect(z, i, "sync")
               /\ Holds(h, s, z, R, {i}, B) /\ z.dev = y /\ z.mem = r.mem
               /\ z.ino = r.ino /\ z.ind = r.ind /\ z.open = {} /\ z.unsaved = R
  <2> DEFINE o == [r EXCEPT !.open = @ \ {i}]
             z == WriteSync(o, "inodes", InodeBlock(i), WithDinodes(o, InodeBlock(i), {i}))
  <2>1. SyncInode(r, i) = FlushIndirect(z, i, "sync")
    BY DEF SyncInode
  <2>2. o = [r EXCEPT !.open = {}]
    BY <1>2
  <2> HIDE DEF o
  <2>3. Same(o, r) /\ o.mem = r.mem /\ o.open = {} /\ o.unsaved = R
    <3>1. {} \in SUBSET Inode
      OBVIOUS
    <3>2. Same(o, r) /\ o.mem = r.mem /\ o.open = {} /\ o.unsaved = r.unsaved
      BY <1>3, <2>2, <3>1 DEF Runs, Same
    <3> QED BY <1>2, <3>2
  <2>4. Still(h, s, o) /\ AtRisk(o) = R /\ o.dev = r.dev /\ o.ino = r.ino /\ o.ind = r.ind
    BY <1>2, <2>3, SameStill DEF Same, AtRisk
  <2>5. Safe(h, y, R)
    <3>1. Fits(y, R, {i}, R)
      BY <1>3 DEF Fits
    <3> QED BY <1>4, <3>1, FitsSafe
  <2>6. Wrote(h, s, z, o, y)
    BY <1>1, <1>3, <2>4, <2>5, NodedWrote
  <2> HIDE DEF z
  <2>7. /\ z.dev = y /\ z.mem = r.mem /\ z.ino = r.ino /\ z.ind = r.ind /\ z.open = {} /\ z.unsaved = R
    BY <2>3, <2>4, <2>6 DEF Wrote
  <2>8. Holds(h, s, z, R, {i}, B)
    <3>1. Still(h, s, z)
      BY <2>6, WroteStill
    <3>2. Mirror(z.dev, z.mem)
      BY <1>2, <1>5, <2>7 DEF Mirror
    <3> QED BY <1>4, <2>7, <3>1, <3>2 DEF Holds
  <2> QED BY <2>1, <2>7, <2>8
<1>7. PICK b, x, v, q : /\ b = r.ino[i].indirect /\ x = r.ind[i] /\ v = WriteSync(z, "block", b, x)
                        /\ q = SyncInode(r, i)
  OBVIOUS
<1>8. q = [v EXCEPT !.ind[i] = Zero]
  <2>1. z.ino[i].indirect = b /\ z.ind[i] = x /\ x # Zero
    BY <1>6, <1>7
  <2> QED BY <1>6, <1>7, <2>1 DEF FlushIndirect, WriteSync
<1>9. /\ b \in B /\ b # 0 /\ b \notin D /\ x \in Seq(Word) /\ b \in Block
      /\ Shape(r.dev, r.ino[i], x, 2, D, B)
  <2>1. Words(r, i) = x
    BY <1>7 DEF Words
  <2>2. Shape(r.dev, r.ino[i], x, 2, D, B)
    BY <1>2, <2>1
  <2> QED BY <1>3, <1>7, <2>2, NumbersAreWords DEF Shape
<1>10. Holds(h, s, v, R, {i}, B) /\ Settled(h, s, v) /\ HasFilled(v, z, b, x)
  <2>1. Fits(z.dev, R, {i}, AtRisk(z))
    BY <1>3, <1>6 DEF Fits, AtRisk
  <2> QED BY <1>6, <1>7, <1>9, <2>1, FillHolds
<1>11. /\ v.dev = Filled(y, b, x) /\ v.mem = r.mem /\ v.ino = r.ino /\ v.ind = r.ind
       /\ v.open = {} /\ v.unsaved = R /\ v.writes # <<>> /\ Entries(v.dev) = Entries(r.dev)
       /\ v \in Runs /\ Still(h, s, v) /\ v.dev \in Device
       /\ Consistent(v.dev, r.mem, R, {i}, B, h) /\ Mirror(v.dev, v.mem)
  <2>1. Still(h, s, v) /\ Consistent(v.dev, v.mem, R, {i}, B, h) /\ Mirror(v.dev, v.mem)
    BY <1>10 DEF Holds
  <2>2. v \in Runs /\ v.dev \in Device
    BY <2>1, StillIs
  <2>3. /\ v.dev = Filled(y, b, x) /\ v.mem = r.mem /\ v.ino = r.ino /\ v.ind = r.ind
        /\ v.open = {} /\ v.unsaved = R /\ v.writes # <<>> /\ Entries(v.dev) = Entries(r.dev)
    BY <1>4, <1>6, <1>10 DEF HasFilled
  <2> QED BY <2>1, <2>2, <2>3
<1>12. /\ v.dev.node = y.node /\ v.dev.imap = r.dev.imap /\ v.dev.bmap = r.dev.bmap
       /\ v.dev.block[b] = x /\ \A c \in Block \ {b} : v.dev.block[c] = r.dev.block[c]
  <2>1. /\ v.dev.imap = y.imap /\ v.dev.bmap = y.bmap /\ v.dev.csum = y.csum /\ v.dev.node = y.node
        /\ v.dev.block = [c \in Block |-> IF c = b THEN x ELSE y.block[c]]
    BY <1>4, <1>11, FilledIs
  <2> QED BY <1>5, <1>9, <2>1
<1>13. Shape(v.dev, v.dev.node[i], x, 2, D, B) /\ v.dev.node[i] = r.ino[i]
  <2>1. v.dev.node[i] = r.ino[i]
    <3>1. r.dev.node \in [Inode -> Dinodes]
      BY <1>3 DEF Device
    <3> QED BY <1>3, <1>5, <1>12, <3>1
  <2>2. D \subseteq Block \ {b}
    <3>1. B \subseteq r.mem.bmap /\ r.mem.bmap \subseteq Block
      BY <1>2, <1>3 DEF Consistent, Memory
    <3> QED BY <1>9, <3>1 DEF Shape
  <2> QED BY <1>9, <1>12, <2>1, <2>2 DEF Shape
<1>14. Consistent(v.dev, v.mem, R, {}, {}, h)
  <2>1. v.dev.node[i].indirect # 0 => v.dev.block[v.dev.node[i].indirect] = x
    BY <1>7, <1>12, <1>13
  <2>2. i \in Entries(v.dev) /\ i \in v.dev.imap /\ v.dev.node[i].size = 2
    BY <1>2, <1>11, <1>12, <1>13
  <2>3. Consistent(v.dev, r.mem, R, {}, {}, h)
    BY <1>2, <1>3, <1>11, <1>13, <2>1, <2>2, ShapeRests
  <2> QED BY <1>11, <2>3
<1>15. /\ q \in Runs /\ q.dev = v.dev /\ q.writes = v.writes /\ q.ino = v.ino /\ q.mem = v.mem
       /\ q.open = v.open /\ q.unsaved = v.unsaved /\ q.ind = [v.ind EXCEPT ![i] = Zero]
  <2>1. Zero \in Seq(Word)
    BY DEF Zero
  <2>2. v \in Runs
    BY <1>11
  <2> HIDE <1>1
  <2> QED BY <1>3, <1>8, <2>1, <2>2 DEF Runs
<1>16. Still(h, s, q) /\ Settled(h, s, q)
  <2>1. Still(h, s, q)
    BY <1>11, <1>15, StillWith
  <2>2. Led(h, s, v, On(v.dev, AtRisk(v)))
    BY <1>10 DEF Settled
  <2>3. AtRisk(q) = AtRisk(v)
    BY <1>15 DEF AtRisk
  <2>4. Led(h, s, q, On(q.dev, AtRisk(q)))
    BY <1>15, <2>2, <2>3 DEF Led
  <2> QED BY <2>1, <2>4 DEF Settled
<1>17. Holds(h, s, q, R, {}, {})
  BY <1>11, <1>14, <1>15, <1>16 DEF Holds
<1>18. /\ q.writes # <<>> /\ q.open = {} /\ q.unsaved = R /\ q.mem = r.mem /\ q.ino = r.ino
       /\ q.ind = [r.ind EXCEPT ![i] = Zero]
       /\ q.dev.node = [r.dev.node EXCEPT ![i] = r.ino[i]]
       /\ Entries(q.dev) = Entries(r.dev)
  BY <1>5, <1>11, <1>12, <1>15
<1> QED BY <1>2, <1>7, <1>16, <1>17, <1>18 DEF HasFlushed

\* A file held comes to rest with its dinode.
LEMMA SyncRests ==
  ASSUME NEW h, NEW s, NEW r, NEW i \in File, NEW R, NEW k, NEW D, NEW B, Held(h, s, r, i, R, k, D, B),
         OthersRest(r, i), r.ind[i] = Zero \/ k = 2
  PROVE  /\ AtRest(h, s, SyncInode(r, i), R) /\ Settled(h, s, SyncInode(r, i))
         /\ SyncInode(r, i).writes # <<>>
<1>1. PICK q : q = SyncInode(r, i)
  OBVIOUS
<1>2. /\ Still(h, s, r) /\ r.open \subseteq {i} /\ r.unsaved = R
      /\ r.ind[i] = Zero \/ i \in R
  BY DEF Held, Holds
<1>3. /\ r.dev \in Device /\ r.dev.node \in [Inode -> Dinodes] /\ r.ino \in [Inode -> Dinodes]
      /\ r.ind \in [Inode -> Seq(Word)] /\ i \in Inode
  BY <1>2, StillIs DEF Device, File
<1>4. r.open \ {i} = {}
  BY <1>2
<1>5. \A j \in Inode \ {i} : r.ino[j] = r.dev.node[j] /\ r.ind[j] = Zero
  BY DEF OthersRest
<1>6. /\ Holds(h, s, q, R, {}, {}) /\ Settled(h, s, q) /\ q.writes # <<>>
      /\ q.open = {} /\ q.unsaved = R /\ q.ino = r.ino
      /\ q.dev.node = [r.dev.node EXCEPT ![i] = r.ino[i]]
      /\ \A j \in Inode : q.ind[j] = Zero
  <2>1. CASE r.ind[i] = Zero
    <3>1. Holds(h, s, q, R, {}, {}) /\ Settled(h, s, q) /\ HasSynced(q, r, i)
      BY <1>1, <2>1, SyncHeld
    <3>2. /\ q.writes # <<>> /\ q.dev = Noded(r.dev, r.ino, {i}) /\ q.ino = r.ino /\ q.ind = r.ind
          /\ q.open = r.open \ {i} /\ q.unsaved = r.unsaved
      BY <3>1 DEF HasSynced
    <3>3. PICK d, o : d = r.dev /\ o = r.ino
      OBVIOUS
    <3>4. HasNoded(Noded(d, o, {i}), d, o, i)
      BY <1>3, <3>3, NodedOne
    <3>5. q.dev.node = [r.dev.node EXCEPT ![i] = r.ino[i]]
      BY <3>2, <3>3, <3>4 DEF HasNoded
    <3>6. \A j \in Inode : q.ind[j] = Zero
      BY <1>5, <2>1, <3>2
    <3> QED BY <1>2, <1>4, <3>1, <3>2, <3>5, <3>6
  <2>2. CASE r.ind[i] # Zero
    <3>1. i \in R /\ k = 2
      BY <1>2, <2>2
    <3>2. Held(h, s, r, i, R, 2, D, B)
      BY <3>1
    <3>3. /\ Holds(h, s, SyncInode(r, i), R, {}, {}) /\ Settled(h, s, SyncInode(r, i))
          /\ HasFlushed(SyncInode(r, i), r, i)
      BY <2>2, <3>1, <3>2, SyncHeldDirty
    <3>4. /\ q.writes # <<>> /\ q.open = {} /\ q.unsaved = r.unsaved /\ q.ino = r.ino
          /\ q.ind = [r.ind EXCEPT ![i] = Zero]
          /\ q.dev.node = [r.dev.node EXCEPT ![i] = r.ino[i]]
      BY <1>1, <3>3 DEF HasFlushed
    <3>5. \A j \in Inode : q.ind[j] = Zero
      BY <1>3, <1>5, <3>4
    <3> QED BY <1>1, <1>2, <3>3, <3>4, <3>5
  <2> QED BY <2>1, <2>2
<1>7. q.ino = q.dev.node
  <2>1. \A j \in Inode : q.ino[j] = q.dev.node[j]
    BY <1>3, <1>5, <1>6
  <2> QED BY <1>3, <1>6, <2>1
<1> QED BY <1>1, <1>6, <1>7 DEF AtRest

\* The end of the commands that write a file.
Finish(r, i, size) == SyncInode(Truncate(GrowTo(r, i, size), i, size), i)

Sized(n, k) == [n EXCEPT !.size = k]

LEMMA GrowIs ==
  ASSUME NEW r \in Runs, NEW i \in Inode, NEW size \in 1 .. 2, NEW k \in 0 .. 2,
         k = IF r.ino[i].size < size THEN size ELSE r.ino[i].size
  PROVE  Renoded(GrowTo(r, i, size), r, i, Sized(r.ino[i], k))
<1>1. GrowTo(r, i, size) = [r EXCEPT !.ino[i].size = k]
  BY DEF GrowTo
<1>2. Renoded([r EXCEPT !.ino[i].size = k], r, i, [r.ino[i] EXCEPT !.size = k])
  BY SetSize
<1> QED BY <1>1, <1>2 DEF Sized

\* A draft with its size set is held.
LEMMA GrowHolds ==
  ASSUME NEW h, NEW s, NEW r, NEW i, NEW R, NEW k \in 0 .. 2, NEW D, NEW B, Still(h, s, r),
         Draft(h, r, i, R, k, D, B, {}), OthersRest(r, i), NEW size \in 1 .. 2,
         k = IF r.ino[i].size < size THEN size ELSE r.ino[i].size,
         NEW g, g = GrowTo(r, i, size)
  PROVE  /\ Held(h, s, g, i, R, k, D, B) /\ OthersRest(g, i) /\ g.ind = r.ind
         /\ g.open = {} /\ g.ino[i].size = k
<1>1. /\ i \in File /\ i \in Inode /\ r \in Runs /\ r.dev \in Device /\ r.ino \in [Inode -> Dinodes]
      /\ BlocksOf(r.dev, i) \subseteq B /\ Mirror(r.dev, r.mem)
      /\ Consistent(r.dev, r.mem, R, {}, (B \ BlocksOf(r.dev, i)) \cup {}, h)
      /\ i \in Entries(r.dev) /\ Shape(r.dev, r.ino[i], Words(r, i), k, D, B)
      /\ i \in R \/ (B \subseteq r.dev.bmap /\ r.ind[i] = Zero)
      /\ h = {} => \A b \in D : r.mem.csum[b] = Csum(Data)
      /\ r.open = {} /\ r.unsaved = R
  <2>1. PICK Y : Y = {}
    OBVIOUS
  <2>2. Draft(h, r, i, R, k, D, B, Y)
    BY <2>1
  <2>3. r.dev \in Device /\ r.ino \in [Inode -> Dinodes] /\ i \in File /\ i \in Inode
    BY <2>2, DraftIs
  <2>4. /\ r \in Runs
        /\ BlocksOf(r.dev, i) \subseteq B /\ Mirror(r.dev, r.mem)
        /\ Consistent(r.dev, r.mem, R, {}, (B \ BlocksOf(r.dev, i)) \cup Y, h)
        /\ i \in Entries(r.dev) /\ Shape(r.dev, r.ino[i], Words(r, i), k, D, B)
        /\ i \in R \/ (B \subseteq r.dev.bmap /\ r.ind[i] = Zero)
        /\ h = {} => \A b \in D : r.mem.csum[b] = Csum(Data)
        /\ r.open = {} /\ r.unsaved = R
    BY <2>2 DEF Draft
  <2> QED BY <2>1, <2>3, <2>4
<1>2. Renoded(g, r, i, Sized(r.ino[i], k))
  BY <1>1, GrowIs
<1>3. PICK n : n = Sized(r.ino[i], k)
  OBVIOUS
<1>4. /\ g \in Runs /\ g.dev = r.dev /\ g.writes = r.writes /\ g.ind = r.ind /\ g.mem = r.mem
      /\ g.open = r.open /\ g.unsaved = r.unsaved /\ g.ino = [r.ino EXCEPT ![i] = n] /\ g.ino[i] = n
  BY <1>1, <1>2, <1>3 DEF Renoded
<1>5. n.size = k /\ n.direct = r.ino[i].direct /\ n.indirect = r.ino[i].indirect /\ n.type = r.ino[i].type
  BY <1>1, <1>3 DEF Dinodes, Sized
<1>6. Consistent(r.dev, r.mem, R, {i}, B, h)
  <2>1. PICK Z, hand : Z = {} /\ hand = (B \ BlocksOf(r.dev, i)) \cup {}
    OBVIOUS
  <2>2. Consistent(r.dev, r.mem, R, Z, hand, h) /\ i \in Entries(r.dev) \ Z
    BY <1>1, <2>1
  <2>3. Consistent(r.dev, r.mem, R, Z \cup {i}, hand \cup BlocksOf(r.dev, i), h)
    BY <2>2, Checkout
  <2>4. Z \cup {i} = {i} /\ hand \cup BlocksOf(r.dev, i) = B
    BY <1>1, <2>1
  <2> QED BY <2>3, <2>4
<1>7. Holds(h, s, g, R, {i}, B)
  <2>1. Still(h, s, g)
    BY <1>4, StillWith
  <2> QED BY <1>1, <1>4, <1>6, <2>1 DEF Holds
<1>8. i \in g.dev.imap
  <2>1. FileOK(r.dev, i) /\ i \in r.dev.imap
    <3>1. i \in Reached(r.dev) \ {} /\ FsExists(r.dev)
      BY <1>1 DEF Consistent, Reached
    <3> QED BY <1>1, <3>1 DEF Consistent, Sound
  <2> QED BY <1>4, <2>1
<1>9. Shape(g.dev, g.ino[i], Words(g, i), k, D, B)
  <2>1. Words(g, i) = Words(r, i)
    BY <1>4, <1>5 DEF Words
  <2>2. Shape(r.dev, n, Words(r, i), k, D, B)
    BY <1>1, <1>5 DEF Shape
  <2> QED BY <1>4, <2>1, <2>2
<1>10. OthersRest(g, i)
  <2>1. \A j \in Inode \ {i} : r.ino[j] = r.dev.node[j] /\ r.ind[j] = Zero
    BY DEF OthersRest
  <2>2. \A j \in Inode \ {i} : g.ino[j] = r.ino[j]
    BY <1>1, <1>4
  <2> QED BY <1>4, <2>1, <2>2 DEF OthersRest
<1> QED BY <1>1, <1>4, <1>5, <1>7, <1>8, <1>9, <1>10 DEF Held

\* The second block of data goes, and the indirect block.
LEMMA CutToOne ==
  ASSUME NEW h, NEW s, NEW g, NEW i \in File, NEW R, NEW D, NEW B, Held(h, s, g, i, R, 2, D, B),
         OthersRest(g, i), g.ind[i] = Zero,
         NEW q, q = Truncate(g, i, 1)
  PROVE  \E E : Held(h, s, q, i, R, 1, E, E) /\ OthersRest(q, i) /\ q.ind[i] = Zero
<1>1. PICK n : n = g.ino[i]
  OBVIOUS
<1>2. /\ Holds(h, s, g, R, {i}, B) /\ i \in Entries(g.dev) /\ i \in g.dev.imap
      /\ Shape(g.dev, n, Words(g, i), 2, D, B) /\ n.size = 2
      /\ g.open \subseteq {i} /\ g.unsaved = R
      /\ i \in R \/ B \subseteq g.dev.bmap
      /\ h = {} => \A b \in D : g.mem.csum[b] = Csum(Data)
  BY <1>1 DEF Held
<1>3. /\ Still(h, s, g) /\ Consistent(g.dev, g.mem, R, {i}, B, h)
  BY <1>2 DEF Holds
<1>4. g \in Runs /\ g.ino \in [Inode -> Dinodes] /\ i \in Inode /\ i # Root /\ R \subseteq File
      /\ B \subseteq Block
  <2>1. g.mem \in Memory
    BY <1>3, StillIs
  <2>2. R \subseteq File /\ B \subseteq g.mem.bmap
    BY <1>3 DEF Consistent
  <2> QED BY <1>3, <2>1, <2>2, StillIs DEF Memory, File
<1>5. PICK b, e : /\ b = n.indirect /\ e \in Block /\ b \in Block /\ e # b /\ n.direct \in Block
                  /\ n.direct # b /\ n.direct # e /\ b # 0
                  /\ Words(g, i) = <<e>> /\ D = {n.direct, e} /\ B = {n.direct, b, e}
  <2>1. \A c \in Block : c # 0
    BY NumbersAreWords
  <2> QED BY <1>2, <2>1 DEF Shape, BlockPtr
<1>6. Mapped(g, i, 1) = e
  <2>1. g.dev.block[b] = <<e>>
    BY <1>1, <1>5 DEF Words
  <2>2. <<e>> # Zero /\ <<e>>[1] = e
    BY DEF Zero
  <2> QED BY <1>1, <1>5, <2>1, <2>2 DEF Mapped
<1>7. PICK y : y = CutIndirect(g, i, e, b)
  OBVIOUS
<1>8. q = [y EXCEPT !.ino[i].size = 1]
  <2>1. Truncate(g, i, 1) = [CutTo(g, i, 1) EXCEPT !.ino[i].size = 1]
    BY <1>1, <1>2, TruncateIs
  <2>2. CutTo(g, i, 1) = CutIndirect(g, i, Mapped(g, i, 1), g.ino[i].indirect)
    BY <1>1, <1>2 DEF CutTo
  <2> QED BY <1>1, <1>5, <1>6, <1>7, <2>1, <2>2
<1>9. PICK m : m = [n EXCEPT !.indirect = 0]
  OBVIOUS
<1>10. Cut(h, s, y, g, R, i, B, {b, e}, m)
  <2>1. MayFree(g, R, i)
    <3>1. Root \notin R
      BY <1>4 DEF File
    <3>2. AtRisk(g) \cup ({i} \cap Entries(g.dev)) = R \cup {i}
      BY <1>2 DEF AtRisk
    <3>3. Fits(g.dev, R, {i}, R \cup {i})
      BY <1>4, <3>1 DEF Fits
    <3> QED BY <3>2, <3>3 DEF MayFree
  <2>2. b \in B /\ e \in B \ {b}
    BY <1>5
  <2>3. Cut(h, s, y, g, R, i, B, {b, e}, [g.ino[i] EXCEPT !.indirect = 0])
    BY <1>2, <1>4, <1>7, <2>1, <2>2, FreeSecondHolds
  <2> QED BY <1>1, <1>9, <2>3
<1>11. PICK E : E = B \ {b, e}
  OBVIOUS
<1>12. E = {n.direct} /\ E \subseteq D /\ E \subseteq B
  BY <1>5, <1>11
<1>13. /\ Holds(h, s, y, R, {i}, E) /\ HasCut(y, g, i) /\ y.ino[i] = m
       /\ \A c \in Block \ {b, e} : y.dev.block[c] = g.dev.block[c]
       /\ g.dev.bmap \ {b, e} \subseteq y.dev.bmap
  BY <1>10, <1>11 DEF Cut
<1>14. /\ y.ind = g.ind /\ y.unsaved = R /\ y.dev.node = g.dev.node
       /\ y.dev.imap = g.dev.imap /\ y.open \subseteq {i}
       /\ Entries(y.dev) = Entries(g.dev) /\ \A j \in Inode \ {i} : y.ino[j] = g.ino[j]
       /\ y.mem.csum = g.mem.csum
  BY <1>2, <1>13 DEF HasCut
<1>15. y \in Runs /\ y.ino \in [Inode -> Dinodes]
  BY <1>13, StillIs DEF Holds
<1>16. PICK l : l = [m EXCEPT !.size = 1]
  OBVIOUS
<1>17. Renoded(q, y, i, l)
  <2>1. PICK k \in 0 .. 2 : k = 1
    OBVIOUS
  <2>2. Renoded([y EXCEPT !.ino[i].size = k], y, i, [y.ino[i] EXCEPT !.size = k])
    BY <1>4, <1>15, SetSize
  <2> QED BY <1>8, <1>13, <1>16, <2>1, <2>2
<1>18. Holds(h, s, q, R, {i}, E)
  BY <1>13, <1>17, RenodedHolds
<1>19. /\ q.dev = y.dev /\ q.ind = y.ind /\ q.mem = y.mem /\ q.open = y.open /\ q.unsaved = y.unsaved
       /\ q.ino = [y.ino EXCEPT ![i] = l] /\ q.ino[i] = l
  BY <1>4, <1>15, <1>17 DEF Renoded
<1>20. /\ l.size = 1 /\ l.indirect = 0 /\ l.direct = n.direct /\ l.type = n.type
  BY <1>1, <1>4, <1>9, <1>16 DEF Dinodes
<1>21. Shape(q.dev, l, Words(q, i), 1, E, E)
  <2>1. \A c \in E : q.dev.block[c] = Data
    <3>1. \A c \in E : c \in Block \ {b, e} /\ g.dev.block[c] = Data
      BY <1>2, <1>5, <1>12 DEF Shape
    <3> QED BY <1>13, <1>19, <3>1
  <2>2. n.type = "file" /\ n.direct \in BlockPtr /\ n.direct # 0
    BY <1>2 DEF Shape
  <2> QED BY <1>12, <1>20, <2>1, <2>2 DEF Shape
<1>22. OthersRest(q, i)
  <2>1. \A j \in Inode \ {i} : g.ino[j] = g.dev.node[j] /\ g.ind[j] = Zero
    BY DEF OthersRest
  <2>2. \A j \in Inode \ {i} : q.ino[j] = y.ino[j]
    BY <1>4, <1>15, <1>19
  <2> QED BY <1>14, <1>19, <2>1, <2>2 DEF OthersRest
<1>23. i \in R \/ (E \subseteq q.dev.bmap /\ q.ind[i] = Zero)
  BY <1>2, <1>11, <1>13, <1>14, <1>19
<1>24. h = {} => \A c \in E : q.mem.csum[c] = Csum(Data)
  BY <1>2, <1>12, <1>14, <1>19
<1>25. Held(h, s, q, i, R, 1, E, E)
  BY <1>2, <1>14, <1>18, <1>19, <1>20, <1>21, <1>23, <1>24 DEF Held
<1> QED BY <1>14, <1>19, <1>22, <1>25

LEMMA FinishHolds ==
  ASSUME NEW h, NEW s, NEW r, NEW i, NEW R, NEW k \in 0 .. 2, NEW D, NEW B, Still(h, s, r),
         Draft(h, r, i, R, k, D, B, {}), OthersRest(r, i), NEW size \in 1 .. 2,
         k = IF r.ino[i].size < size THEN size ELSE r.ino[i].size,
         k = size \/ r.ind[i] = Zero,
         NEW q, q = Finish(r, i, size)
  PROVE  AtRest(h, s, q, R) /\ Settled(h, s, q) /\ q.writes # <<>>
<1>1. PICK g : g = GrowTo(r, i, size)
  OBVIOUS
<1>2. /\ Held(h, s, g, i, R, k, D, B) /\ OthersRest(g, i) /\ g.ind = r.ind
      /\ g.open = {} /\ g.ino[i].size = k
  BY SMTT(30), <1>1, GrowHolds
<1>3. i \in File /\ (r.ind[i] = Zero \/ k = 2)
  <2>1. PICK Y : Y = {}
    OBVIOUS
  <2>2. Draft(h, r, i, R, k, D, B, Y)
    BY <2>1
  <2>3. i \in File
    BY <2>2, DraftIs
  <2> QED BY <2>2, <2>3 DEF Draft
<1>4. q = SyncInode(Truncate(g, i, size), i)
  BY <1>1 DEF Finish
<1>5. CASE k <= size
  <2>1. Truncate(g, i, size) = g
    BY <1>2, <1>5, TruncateIs
  <2>2. g.ind[i] = Zero \/ k = 2
    BY <1>2, <1>3
  <2>3. /\ AtRest(h, s, SyncInode(g, i), R) /\ Settled(h, s, SyncInode(g, i))
        /\ SyncInode(g, i).writes # <<>>
    BY <1>2, <1>3, <2>2, SyncRests
  <2> QED BY <1>4, <2>1, <2>3
<1>6. CASE ~(k <= size)
  <2>1. k = 2 /\ size = 1 /\ g.ind[i] = Zero
    BY <1>2, <1>6
  <2>2. PICK t : t = Truncate(g, i, 1)
    OBVIOUS
  <2>3. Held(h, s, g, i, R, 2, D, B)
    BY <1>2, <2>1
  <2>4. PICK E : Held(h, s, t, i, R, 1, E, E) /\ OthersRest(t, i) /\ t.ind[i] = Zero
    BY <1>2, <1>3, <2>1, <2>2, <2>3, CutToOne
  <2>5. t.ind[i] = Zero \/ 1 = 2
    BY <2>4
  <2>6. /\ AtRest(h, s, SyncInode(t, i), R) /\ Settled(h, s, SyncInode(t, i))
        /\ SyncInode(t, i).writes # <<>>
    BY <1>3, <2>4, <2>5, SyncRests
  <2> QED BY <1>4, <2>1, <2>2, <2>6
<1> QED BY <1>5, <1>6

-----------------------------------------------------------------------------
(***************************************************************************)
(* owrite.                                                                 *)
(***************************************************************************)

\* A file at rest is a draft with nothing new.
LEMMA RestDrafts ==
  ASSUME NEW h, NEW s, NEW r, NEW R, AtRest(h, s, r, R), NEW i \in Entries(r.dev)
  PROVE  /\ \E D, B : Draft(h, r, i, R, r.ino[i].size, D, B, {})
         /\ OthersRest(r, i) /\ Still(h, s, r) /\ r.ino[i].size \in 0 .. 2
         /\ r.ind[i] = Zero /\ i \in File /\ r.ino[i].size = r.dev.node[i].size
<1>1. /\ Still(h, s, r) /\ Consistent(r.dev, r.mem, R, {}, {}, h) /\ Mirror(r.dev, r.mem)
      /\ r \in Runs /\ r.dev \in Device
  BY AtRestIs
<1>2. r.open = {} /\ r.unsaved = R /\ r.ino = r.dev.node /\ \A j \in Inode : r.ind[j] = Zero
  BY DEF AtRest
<1>3. i \in Inode /\ i \in File
  BY DEF Entries, File
<1>4. FileOK(r.dev, i) /\ (i \in R \/ BlocksOf(r.dev, i) \subseteq r.dev.bmap)
  <2>1. i \in Entries(r.dev) \ {} /\ i \in Reached(r.dev) /\ FsExists(r.dev)
    BY <1>1 DEF Consistent, Reached
  <2> QED BY <1>1, <2>1 DEF Consistent, Sound
<1>5. PICK B, D : B = BlocksOf(r.dev, i) /\ D = DataBlocks(r.dev, i)
  OBVIOUS
<1>6. /\ Shape(r.dev, r.dev.node[i], r.dev.block[r.dev.node[i].indirect], r.dev.node[i].size, D, B)
      /\ r.dev.node[i].size \in {0, 1, 2} /\ \A b \in D : r.dev.block[b] = Data
  BY <1>1, <1>3, <1>4, <1>5, ShapeOf, FileBlocks
<1>7. Words(r, i) = r.dev.block[r.dev.node[i].indirect]
  BY <1>2, <1>3 DEF Words
<1>8. h = {} => \A b \in D : r.mem.csum[b] = Csum(Data)
  <2>1. i \in Reached(r.dev) \ {}
    BY <1>1 DEF Consistent, Reached
  <2>2. h = {} => \A b \in DataBlocks(r.dev, i) : r.mem.csum[b] = Csum(r.dev.block[b])
    BY <1>1, <2>1 DEF Consistent
  <2> QED BY <1>5, <1>6, <2>2
<1>9. Draft(h, r, i, R, r.ino[i].size, D, B, {})
  <2>1. Consistent(r.dev, r.mem, R, {}, (B \ BlocksOf(r.dev, i)) \cup {}, h)
    <3>1. (B \ BlocksOf(r.dev, i)) \cup {} = {}
      BY <1>5
    <3> QED BY <1>1, <3>1
  <2>2. r.ino[i] = r.dev.node[i] /\ r.ind[i] = Zero
    BY <1>2, <1>3
  <2>3. Shape(r.dev, r.ino[i], Words(r, i), r.ino[i].size, D, B)
    BY <1>6, <1>7, <2>2
  <2>4. i \in R \/ (B \subseteq r.dev.bmap /\ r.ind[i] = Zero)
    BY <1>4, <1>5, <2>2
  <2>5. BlocksOf(r.dev, i) \subseteq B /\ B \cap {} = {}
    BY <1>5
  <2> QED BY <1>1, <1>2, <1>8, <2>1, <2>2, <2>3, <2>4, <2>5 DEF Draft
<1>10. OthersRest(r, i)
  BY <1>2 DEF OthersRest
<1> QED BY <1>1, <1>2, <1>3, <1>6, <1>9, <1>10

\* What the draft of i leaves alone stays at rest.
LEMMA OthersRestOn ==
  ASSUME NEW q, NEW r, NEW i, NEW Y, OthersRest(r, i), Continues(q, r, i, Y)
  PROVE  OthersRest(q, i) /\ q.ino[i].size = r.ino[i].size
BY DEF OthersRest, Continues

LEMMA FreeSame ==
  ASSUME NEW q, NEW r, NEW n, Free(r, n), q.mem.bmap = r.mem.bmap
  PROVE  Free(q, n)
BY DEF Free

\* The first block of data, new or not.
LEMMA WriteFirst ==
  ASSUME NEW h, NEW s, NEW r, NEW i, NEW R, NEW k \in 0 .. 2, NEW D, NEW B, NEW Y, Still(h, s, r),
         Draft(h, r, i, R, k, D, B, Y), NEW n \in Nat, Free(r, IF k = 0 THEN n + 1 ELSE n)
  PROVE  /\ Drafted(h, s, WriteBlock(r, i, 0, Data), r, i, R, IF k = 0 THEN 1 ELSE k, Y)
         /\ Free(WriteBlock(r, i, 0, Data), n)
<1>1. CASE k = 0
  <2>1. Draft(h, r, i, R, 0, D, B, Y) /\ Free(r, n + 1)
    BY <1>1
  <2>2. Drafted(h, s, WriteBlock(r, i, 0, Data), r, i, R, 1, Y) /\ Free(WriteBlock(r, i, 0, Data), n)
    BY <2>1, WriteNewFirst
  <2> QED BY <1>1, <2>2
<1>2. CASE k # 0
  <2>1. PICK b : b = Mapped(r, i, 0)
    OBVIOUS
  <2>2. b \in D /\ b # 0
    <3>1. Shape(r.dev, r.ino[i], Words(r, i), k, D, B)
      BY DEF Draft
    <3>2. b = r.ino[i].direct
      BY <2>1 DEF Mapped
    <3> QED BY <1>2, <3>1, <3>2 DEF Shape
  <2>3. WriteBlock(r, i, 0, Data) = Store(r, b, Data)
    BY <2>1, <2>2, WriteBlockIs
  <2>4. Drafted(h, s, Store(r, b, Data), r, i, R, k, Y) /\ Store(r, b, Data).mem.bmap = r.mem.bmap
    BY <2>2, RewriteHolds
  <2>5. Free(Store(r, b, Data), n)
    BY <1>2, <2>4, FreeSame
  <2> QED BY <1>2, <2>3, <2>4, <2>5
<1> QED BY <1>1, <1>2

\* The second.
LEMMA WriteSecond ==
  ASSUME NEW h, NEW s, NEW r, NEW i, NEW R, NEW k \in 1 .. 2, NEW D, NEW B, NEW Y, Still(h, s, r),
         Draft(h, r, i, R, k, D, B, Y), NEW n \in Nat, Free(r, IF k = 1 THEN n + 2 ELSE n),
         r.ind[i] = Zero
  PROVE  /\ Drafted(h, s, WriteBlock(r, i, 1, Data), r, i, R, 2, Y)
         /\ Free(WriteBlock(r, i, 1, Data), n)
<1>1. CASE k = 1
  <2>1. Draft(h, r, i, R, 1, D, B, Y) /\ Free(r, n + 2)
    BY <1>1
  <2> QED BY <2>1, WriteNewSecond
<1>2. CASE k # 1
  <2>1. PICK b : b = Mapped(r, i, 1)
    OBVIOUS
  <2>2. k = 2
    BY <1>2
  <2>3. b \in D /\ b # 0
    <3>1. Shape(r.dev, r.ino[i], Words(r, i), k, D, B)
      BY DEF Draft
    <3>2. PICK e \in Block : Words(r, i) = <<e>> /\ e \in D /\ r.ino[i].indirect \in Block
      BY <2>2, <3>1 DEF Shape
    <3>3. r.dev.block[r.ino[i].indirect] = <<e>>
      BY <3>2 DEF Words
    <3>4. e # 0 /\ r.ino[i].indirect # 0 /\ <<e>> # Zero /\ <<e>>[1] = e
      BY <3>2, NumbersAreWords DEF Zero
    <3>5. b = e
      BY <2>1, <3>3, <3>4 DEF Mapped
    <3> QED BY <3>2, <3>4, <3>5
  <2>4. WriteBlock(r, i, 1, Data) = Store(r, b, Data)
    BY <2>1, <2>3, WriteBlockIs
  <2>5. Drafted(h, s, Store(r, b, Data), r, i, R, k, Y) /\ Store(r, b, Data).mem.bmap = r.mem.bmap
    BY <2>3, RewriteHolds
  <2>6. Free(Store(r, b, Data), n)
    BY <1>2, <2>5, FreeSame
  <2> QED BY <2>2, <2>4, <2>5, <2>6
<1> QED BY <1>1, <1>2

\* Blocks that a file of k blocks needs to grow to size.
More(k, size) == IF size <= k THEN 0 ELSE size - k + (IF size = 2 THEN 1 ELSE 0)

LEMMA OwriteIs ==
  ASSUME NEW r, NEW i
  PROVE  /\ Owrite(r, i, 1) = Finish(WriteBlock(r, i, 0, Data), i, 1)
         /\ Owrite(r, i, 2) = Finish(WriteBlock(WriteBlock(r, i, 0, Data), i, 1, Data), i, 2)
<1>1. 1 - 1 = 0 /\ 2 - 1 = 1 /\ 2 # 1
  OBVIOUS
<1> QED BY <1>1 DEF Owrite, ForEach, Finish

LEMMA OwriteHolds ==
  ASSUME NEW h, NEW s, NEW r, NEW R, AtRest(h, s, r, R), NEW i \in Entries(r.dev),
         NEW size \in 1 .. 2, Free(r, More(r.dev.node[i].size, size)),
         NEW q, q = Owrite(r, i, size)
  PROVE  AtRest(h, s, q, R) /\ Settled(h, s, q) /\ q.writes # <<>>
<1>1. PICK k : k = r.ino[i].size
  OBVIOUS
<1>2. /\ \E D, B : Draft(h, r, i, R, k, D, B, {})
      /\ OthersRest(r, i) /\ Still(h, s, r) /\ k \in 0 .. 2
      /\ r.ind[i] = Zero /\ i \in File /\ k = r.dev.node[i].size
  BY <1>1, RestDrafts
<1>3. PICK D, B : Draft(h, r, i, R, k, D, B, {})
  BY <1>2
<1>4. PICK w : w = WriteBlock(r, i, 0, Data)
  OBVIOUS
<1>5. PICK l : l = IF k = 0 THEN 1 ELSE k
  OBVIOUS
<1>6. PICK n \in Nat : /\ Free(r, IF k = 0 THEN n + 1 ELSE n)
                       /\ size = 2 => n = IF l = 1 THEN 2 ELSE 0
  <2>1. Free(r, More(k, size))
    BY <1>2
  <2>2. k \in {0, 1, 2} /\ size \in {1, 2}
    BY <1>2
  <2>3. CASE size = 1
    <3>1. More(k, size) = IF k = 0 THEN 0 + 1 ELSE 0
      BY <2>2, <2>3 DEF More
    <3> QED BY <2>1, <2>3, <3>1
  <2>4. CASE size = 2
    <3>1. More(k, size) = IF k = 0 THEN 2 + 1 ELSE IF k = 1 THEN 2 ELSE 0
      BY <2>2, <2>4 DEF More
    <3>2. CASE k = 0
      <4>1. Free(r, 2 + 1) /\ l = 1
        BY <1>5, <2>1, <3>1, <3>2
      <4> QED BY <2>4, <3>2, <4>1
    <3>3. CASE k = 1
      <4>1. Free(r, 2) /\ l = 1
        BY <1>5, <2>1, <3>1, <3>3
      <4> QED BY <2>4, <3>3, <4>1
    <3>4. CASE k = 2
      <4>1. Free(r, 0) /\ l = 2
        BY <1>5, <2>1, <3>1, <3>4
      <4> QED BY <2>4, <3>4, <4>1
    <3> QED BY <2>2, <3>2, <3>3, <3>4
  <2> QED BY <2>2, <2>3, <2>4
<1>7. Drafted(h, s, w, r, i, R, l, {}) /\ Free(w, n)
  BY <1>2, <1>3, <1>4, <1>5, <1>6, WriteFirst
<1>8. /\ Still(h, s, w) /\ Continues(w, r, i, {}) /\ w.ind = r.ind
      /\ \E E, F : Draft(h, w, i, R, l, E, F, {})
  BY <1>7 DEF Drafted
<1>9. OthersRest(w, i) /\ w.ino[i].size = k
  <2>1. PICK Y : Y = {}
    OBVIOUS
  <2>2. OthersRest(r, i) /\ Continues(w, r, i, Y)
    BY <1>2, <1>8, <2>1
  <2>3. OthersRest(w, i) /\ w.ino[i].size = r.ino[i].size
    BY <2>2, OthersRestOn
  <2> QED BY <1>1, <2>3
<1>10. CASE size = 1
  <2>1. q = Finish(w, i, size)
    BY <1>4, <1>10, OwriteIs
  <2>2. PICK E, F : Draft(h, w, i, R, l, E, F, {})
    BY <1>8
  <2>3. /\ l \in 0 .. 2 /\ l = IF w.ino[i].size < size THEN size ELSE w.ino[i].size
        /\ l = size \/ w.ind[i] = Zero
    BY <1>2, <1>5, <1>8, <1>9, <1>10
  <2> QED BY <1>8, <1>9, <2>1, <2>2, <2>3, FinishHolds
<1>11. CASE size = 2
  <2>1. PICK E, F : Draft(h, w, i, R, l, E, F, {})
    BY <1>8
  <2>2. PICK v : v = WriteBlock(w, i, 1, Data)
    OBVIOUS
  <2>3. l \in 1 .. 2 /\ w.ind[i] = Zero /\ Free(w, IF l = 1 THEN 0 + 2 ELSE 0)
    <3>1. l \in {1, 2}
      BY <1>2, <1>5
    <3>2. CASE l = 1
      BY <1>2, <1>6, <1>7, <1>8, <1>11, <3>2
    <3>3. CASE l = 2
      BY <1>2, <1>6, <1>7, <1>8, <1>11, <3>3
    <3> QED BY <3>1, <3>2, <3>3
  <2>4. Drafted(h, s, v, w, i, R, 2, {})
    BY <1>8, <2>1, <2>2, <2>3, WriteSecond
  <2>5. /\ Still(h, s, v) /\ Continues(v, w, i, {}) /\ v.ind = w.ind
        /\ \E G, H : Draft(h, v, i, R, 2, G, H, {})
    BY <2>4 DEF Drafted
  <2>6. OthersRest(v, i) /\ v.ino[i].size = k
    BY <1>9, <2>5, OthersRestOn
  <2>7. q = Finish(v, i, size)
    BY <1>4, <1>11, <2>2, OwriteIs
  <2>8. PICK G, H : Draft(h, v, i, R, size, G, H, {})
    BY <1>11, <2>5
  <2>9. /\ size \in 0 .. 2 /\ size = IF v.ino[i].size < size THEN size ELSE v.ino[i].size
        /\ size = size \/ v.ind[i] = Zero
    BY <1>2, <1>11, <2>6
  <2> QED BY <2>5, <2>6, <2>7, <2>8, <2>9, FinishHolds
<1> QED BY <1>10, <1>11

LEMMA StartOwriteInv ==
  IInv /\ (\E i \in Entries(dev) : \E size \in 1 .. 2 : StartOwrite(i, size)) => IInv'
<1> SUFFICES ASSUME IInv, NEW i \in Entries(dev), NEW size \in 1 .. 2, StartOwrite(i, size)
             PROVE  IInv'
  OBVIOUS
<1>1. PICK q : q = Owrite(Now, i, size)
  OBVIOUS
<1>2. Usable /\ Enough(Needed(i, size)) /\ Execute("owrite", size, q)
  BY <1>1 DEF StartOwrite
<1>3. AtRest(history, On(dev, risk), Now, risk) /\ Now.dev = dev /\ Now.mem = mem
  BY <1>2, NowAtRest
<1>4. Free(Now, More(Now.dev.node[i].size, size))
  BY <1>2, <1>3 DEF Enough, Needed, Free, More
<1>5. PICK z, r, R, H : z = On(dev, risk) /\ r = Now /\ R = risk /\ H = history
  OBVIOUS
<1>6. AtRest(H, z, q, R) /\ Settled(H, z, q) /\ q.writes # <<>>
  <2>1. /\ AtRest(H, z, r, R) /\ i \in Entries(r.dev) /\ Free(r, More(r.dev.node[i].size, size))
        /\ q = Owrite(r, i, size)
    BY <1>1, <1>3, <1>4, <1>5
  <2> QED BY <2>1, OwriteHolds
<1>7. "owrite" \in Names \ {"mkfs", "bench"} /\ size \in Nat
  BY DEF Names
<1> QED BY <1>2, <1>5, <1>6, <1>7, RestInv
=============================================================================
