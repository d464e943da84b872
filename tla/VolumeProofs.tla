---------------------------- MODULE VolumeProofs ----------------------------
(***************************************************************************)
(* The plans of write, quit, mkfs and the benchmarks, and the theorems of  *)
(* Volume, for every volume and every number of crashes.                   *)
(***************************************************************************)
EXTENDS VolumePlans

-----------------------------------------------------------------------------
(***************************************************************************)
(* Blocks of data written without waiting for them.                        *)
(***************************************************************************)

\* The device a is d but for blocks in hand.
Adrift(a, d, hand) ==
  /\ a.imap = d.imap /\ a.bmap = d.bmap /\ a.node = d.node
  /\ \A c \in Block \ hand : a.block[c] = d.block[c]

\* Of what r has written, only blocks of W, all of them in hand or as they
\* were, may not be on the device.
Afloat(h, s, r, how, hand, W) ==
  \E t \in Points :
    /\ Led(h, s, r, t) /\ Adrift(t.a, r.dev, hand)
    /\ \A v \in t.p : v.area = "block" /\ DOMAIN v.val \subseteq W
    /\ how = "sync" => t.p = {}

LEMMA AfloatWith ==
  ASSUME NEW h, NEW s, NEW r, NEW how, NEW hand, NEW W, Afloat(h, s, r, how, hand, W),
         NEW q \in Runs, q.dev = r.dev, q.writes = r.writes, NEW more, hand \subseteq more,
         NEW V, W \subseteq V
  PROVE  Afloat(h, s, q, how, more, V)
<1>1. PICK t \in Points : /\ Led(h, s, r, t) /\ Adrift(t.a, r.dev, hand)
                          /\ \A v \in t.p : v.area = "block" /\ DOMAIN v.val \subseteq W
                          /\ how = "sync" => t.p = {}
  BY DEF Afloat
<1>2. Led(h, s, q, t)
  BY <1>1 DEF Led
<1>3. Adrift(t.a, q.dev, more)
  BY <1>1 DEF Adrift
<1>4. \A v \in t.p : v.area = "block" /\ DOMAIN v.val \subseteq V
  BY <1>1
<1> QED BY <1>1, <1>2, <1>3, <1>4 DEF Afloat

LEMMA StillAfloat ==
  ASSUME NEW h, NEW s, NEW r, Still(h, s, r), NEW how, NEW hand, NEW W
  PROVE  Afloat(h, s, r, how, hand, W)
<1>1. PICK R : Led(h, s, r, On(r.dev, R))
  BY DEF Still
<1>2. PICK t : t = On(r.dev, R)
  OBVIOUS
<1>3. t \in Points /\ t.a = r.dev /\ t.p = {} /\ Led(h, s, r, t)
  BY <1>1, <1>2 DEF Led, On
<1>4. Adrift(t.a, r.dev, hand)
  BY <1>3 DEF Adrift
<1> QED BY <1>3, <1>4 DEF Afloat

\* With synchronous writes nothing is afloat.
LEMMA SyncStill ==
  ASSUME NEW h, NEW s, NEW r, NEW hand, NEW W, Afloat(h, s, r, "sync", hand, W)
  PROVE  Still(h, s, r)
<1>1. PICK t \in Points : Led(h, s, r, t) /\ t.p = {}
  BY DEF Afloat
<1>2. t.l = r.dev /\ Covered(t.a, t.l, {}) /\ t.up
  BY <1>1 DEF Led
<1>3. t.a = t.l
  <2>1. t.a \in Device /\ t.l \in Device
    BY DEF Points
  <2>2. /\ t.a.imap = t.l.imap
        /\ \A b \in Block : /\ b \in t.a.bmap <=> b \in t.l.bmap
                            /\ t.a.csum[b] = t.l.csum[b] /\ t.a.block[b] = t.l.block[b]
        /\ \A i \in Inode : t.a.node[i] = t.l.node[i]
    BY <1>2 DEF Covered
  <2> QED BY <2>1, <2>2, SameDevice
<1>4. t = On(r.dev, t.r)
  BY <1>1, <1>2, <1>3 DEF Points, On
<1> QED BY <1>1, <1>4 DEF Still

LEMMA AfloatRuns ==
  ASSUME NEW h, NEW s, NEW r, NEW how, NEW hand, NEW W, Afloat(h, s, r, how, hand, W)
  PROVE  /\ r \in Runs /\ r.dev \in Device /\ r.mem \in Memory /\ r.ino \in [Inode -> Dinodes]
         /\ r.ind \in [Inode -> Seq(Word)] /\ AtRisk(r) \in SUBSET Inode
<1>1. r \in Runs
  BY DEF Afloat, Led
<1> QED BY <1>1 DEF Runs, AtRisk

\* Wherever the program stops meanwhile.
LEMMA AdriftSafe ==
  ASSUME NEW h, NEW d \in Device, NEW m \in Memory, NEW R, NEW hand, Consistent(d, m, R, {}, hand, h),
         NEW a, Adrift(a, d, hand), NEW x \in Device, Between(x, a, d)
  PROVE  Safe(h, x, R)
<1>1. /\ hand \subseteq m.bmap /\ d.bmap \subseteq m.bmap /\ d.imap = m.imap /\ R \subseteq File
  BY DEF Consistent
<1>2. /\ x.imap = d.imap /\ \A i \in Inode : x.node[i] = d.node[i]
      /\ \A b \in Block : (b \in x.bmap <=> b \in d.bmap)
      /\ \A b \in Block \ hand : x.block[b] = d.block[b]
  BY DEF Between, Adrift
<1>3. x.bmap \subseteq Block /\ d.bmap \subseteq Block
  BY DEF Device
<1>4. Beside(x, m, d, m, {}, hand, hand, h)
  <2>1. m.bmap \subseteq Block
    BY DEF Memory
  <2> QED BY <1>1, <1>2, <1>3, <2>1 DEF Beside
<1>5. Consistent(x, m, R, {}, hand, h)
  <2>1. PICK Z : Z = {}
    OBVIOUS
  <2>2. Consistent(d, m, R, Z, hand, h) /\ Beside(x, m, d, m, Z, hand, hand, h)
    BY <1>4, <2>1
  <2>3. Consistent(x, m, R, Z, hand, h)
    BY <2>2, BesideIs
  <2> QED BY <2>1, <2>3
<1>6. Fits(x, R, {}, R)
  BY <1>1 DEF Fits, File
<1> QED BY <1>5, <1>6, FitsSafe

\* A block of a file, as testfs_write_data_alternate writes it.
Float(r, how, b) == SetCsum(Write(r, how, "block", b, Data), b, Csum(Data))

HasFloated(q, r, b) ==
  /\ q \in Runs /\ q.dev = Filled(r.dev, b, Data) /\ q.writes # <<>>
  /\ q.ino = r.ino /\ q.ind = r.ind /\ q.open = r.open /\ q.unsaved = r.unsaved
  /\ q.mem.bmap = r.mem.bmap /\ q.mem.imap = r.mem.imap
  /\ \A c \in Block : q.mem.csum[c] = IF c = b THEN Csum(Data) ELSE r.mem.csum[c]
  /\ q.mem.dirty = r.mem.dirty \cup {Group(b)}

LEMMA SetCsumIs ==
  ASSUME NEW r \in Runs, NEW b \in Block, NEW x, NEW q, q = SetCsum(r, b, Csum(x))
  PROVE  /\ q \in Runs /\ q.dev = r.dev /\ q.writes = r.writes
         /\ q.ino = r.ino /\ q.ind = r.ind /\ q.open = r.open /\ q.unsaved = r.unsaved
         /\ q.mem.bmap = r.mem.bmap /\ q.mem.imap = r.mem.imap
         /\ \A c \in Block : q.mem.csum[c] = IF c = b THEN Csum(x) ELSE r.mem.csum[c]
         /\ q.mem.dirty = r.mem.dirty \cup {Group(b)}
<1>1. PICK c : c = Csum(x)
  OBVIOUS
<1>2. c \in SUBSET Bit /\ Group(b) \in Groups
  BY <1>1 DEF Csum, Groups
<1>3. r.mem \in Memory
  BY DEF Runs
<1>4. PICK m : m = [r.mem EXCEPT !.csum[b] = c, !.dirty = @ \cup {Group(b)}]
  OBVIOUS
<1>5. /\ m \in Memory /\ m.bmap = r.mem.bmap /\ m.imap = r.mem.imap
      /\ m.csum = [r.mem.csum EXCEPT ![b] = c] /\ m.dirty = r.mem.dirty \cup {Group(b)}
  BY <1>2, <1>3, <1>4 DEF Memory
<1>6. q = [r EXCEPT !.mem = m]
  BY <1>1, <1>4 DEF SetCsum, Runs
<1>7. \A e \in Block : m.csum[e] = IF e = b THEN c ELSE r.mem.csum[e]
  BY <1>3, <1>5 DEF Memory
<1>8. /\ q \in Runs /\ q.dev = r.dev /\ q.writes = r.writes
      /\ q.ino = r.ino /\ q.ind = r.ind /\ q.open = r.open /\ q.unsaved = r.unsaved /\ q.mem = m
  BY <1>5, <1>6 DEF Runs
<1> QED BY <1>1, <1>5, <1>7, <1>8

\* The request is issued,
IsIssued(h, s, v, r, how, hand, W, e) ==
  /\ Afloat(h, s, v, how, hand, W) /\ v \in Runs /\ v.dev = e /\ v.writes # <<>>
  /\ v.mem = r.mem /\ v.ino = r.ino /\ v.ind = r.ind
  /\ v.open = r.open /\ v.unsaved = r.unsaved

LEMMA IssueAfloat ==
  ASSUME NEW h, NEW s, NEW r, NEW how \in {"sync", "async"}, NEW R, NEW hand, NEW W,
         Afloat(h, s, r, how, hand, W), AtRisk(r) = R, NEW b \in Block, NEW y \in Seq(Word),
         NEW e \in Device, e = Filled(r.dev, b, y), Consistent(e, r.mem, R, {}, hand, h),
         b \in hand \ W \/ r.dev.block[b] = y,
         NEW v, v = Write(r, how, "block", b, y)
  PROVE  IsIssued(h, s, v, r, how, hand, W \cup {b}, e)
<1>1. r \in Runs /\ r.dev \in Device /\ r.mem \in Memory /\ R \subseteq File
  BY AfloatRuns DEF Consistent
<1>2. y \in Contents /\ b \in Nat /\ "block" \in Written
  BY ContentsAre DEF Block, Written
<1>3. Safe(h, e, R)
  <2>1. Fits(e, R, {}, R)
    BY <1>1 DEF Fits, File
  <2> QED BY <2>1, FitsSafe
<1>4. CASE how = "sync"
  <2>1. Still(h, s, r)
    BY <1>4, SyncStill
  <2>2. v = WriteSync(r, "block", b, y)
    BY <1>4 DEF WriteSync
  <2>3. Wrote(h, s, v, r, e)
    BY <1>2, <1>3, <2>1, <2>2, FilledWrote
  <2>4. Still(h, s, v)
    BY <2>3, WroteStill
  <2>5. Afloat(h, s, v, how, hand, W \cup {b})
    BY <2>4, StillAfloat
  <2> QED BY <2>3, <2>4, <2>5, StillIs DEF Wrote, IsIssued
<1>5. CASE how = "async"
  <2>1. PICK t \in Points : /\ Led(h, s, r, t) /\ Adrift(t.a, r.dev, hand)
                            /\ \A z \in t.p : z.area = "block" /\ DOMAIN z.val \subseteq W
    BY DEF Afloat
  <2>2. PICK w : w = Request(r, how, "block", At(b, y))
    OBVIOUS
  <2>3. /\ w \in Requests /\ w.area = "block" /\ w.val = At(b, y)
        /\ ~w.sync /\ w.risk = R
    <3>1. /\ Request(r, how, "block", At(b, y)) \in Requests
          /\ Request(r, how, "block", At(b, y)).area = "block"
          /\ Request(r, how, "block", At(b, y)).val = At(b, y)
          /\ (Request(r, how, "block", At(b, y)).sync <=> how = "sync")
          /\ Request(r, how, "block", At(b, y)).risk = AtRisk(r)
      BY <1>1, <1>2, RequestAt
    <3> QED BY <1>5, <2>2, <3>1
  <2>4. Put(r.dev, w) = e
    BY <1>1, <2>3, PutFilled
  <2>5. v = Issue(r, w)
    BY <2>2 DEF Write
  <2>6. DOMAIN w.val = {b} /\ w.val[b] = y
    BY <2>3 DEF At
  <2>7. t.l = r.dev
    BY <2>1 DEF Led
  <2>8. Fresh(t, w) \/ Agrees(r.dev, w)
    <3>1. CASE b \in hand \ W
      BY <2>1, <2>6, <3>1 DEF Fresh
    <3>2. CASE r.dev.block[b] = y
      <4>1. Filled(r.dev, b, y) = r.dev
        BY <1>1, <3>2, FilledSame
      <4>2. Agrees(Put(r.dev, w), w)
        BY <1>1, PutAgrees
      <4> QED BY <2>4, <4>1, <4>2
    <3> QED BY <3>1, <3>2
  <2>9. Adrift(t.a, e, hand)
    <3>1. /\ e.imap = r.dev.imap /\ e.bmap = r.dev.bmap /\ e.node = r.dev.node
          /\ e.block = [c \in Block |-> IF c = b THEN y ELSE r.dev.block[c]]
      BY <1>1, FilledIs
    <3>2. \A c \in Block \ hand : e.block[c] = r.dev.block[c]
      BY <3>1
    <3> QED BY <2>1, <3>1, <3>2 DEF Adrift
  <2>10. \A x \in Device : Between(x, t.a, Put(r.dev, w)) => Safe(h, x, w.risk)
    BY <1>1, <2>3, <2>4, <2>9, AdriftSafe
  <2>11. Led(h, s, v, Later(t, w)) /\ Later(t, w).l = e
    <3>1. w.area \in Written /\ Put(r.dev, w) \in Device
      BY <1>2, <2>3, <2>4
    <3> QED BY <2>1, <2>3, <2>4, <2>5, <2>8, <2>10, <3>1, IssueAsync
  <2>12. /\ Later(t, w) \in Points /\ Later(t, w).a = t.a /\ Later(t, w).p = t.p \cup {w}
    BY <2>3, <2>4, <2>7, LaterIs
  <2>13. /\ v \in Runs /\ v.dev = e /\ v.writes # <<>>
         /\ v.mem = r.mem /\ v.ino = r.ino /\ v.ind = r.ind
         /\ v.open = r.open /\ v.unsaved = r.unsaved
    <3>1. Put(r.dev, w) \in Device
      BY <2>4
    <3>2. /\ Issue(r, w) \in Runs /\ Issue(r, w).dev = Put(r.dev, w)
          /\ Issue(r, w).writes # <<>>
          /\ Issue(r, w).mem = r.mem /\ Issue(r, w).ino = r.ino /\ Issue(r, w).ind = r.ind
          /\ Issue(r, w).open = r.open /\ Issue(r, w).unsaved = r.unsaved
      BY <1>1, <2>3, <3>1, IssueIs
    <3> QED BY <2>4, <2>5, <3>2
  <2>14. PICK u : u = Later(t, w)
    OBVIOUS
  <2>15. \A z \in u.p : z.area = "block" /\ DOMAIN z.val \subseteq W \cup {b}
    BY <2>1, <2>3, <2>6, <2>12, <2>14
  <2>16. u \in Points /\ Led(h, s, v, u) /\ Adrift(u.a, v.dev, hand)
    BY <2>9, <2>11, <2>12, <2>13, <2>14
  <2>17. Afloat(h, s, v, how, hand, W \cup {b})
    BY <1>5, <2>15, <2>16 DEF Afloat
  <2> QED BY <2>13, <2>17 DEF IsIssued
<1> QED BY <1>4, <1>5

\* ... and the checksum is set in memory.
FloatsOn(h, s, q, r, how, R, hand, W, b) ==
  /\ Afloat(h, s, q, how, hand, W) /\ Consistent(q.dev, q.mem, R, {}, hand, h)
  /\ Mirror(q.dev, q.mem) /\ HasFloated(q, r, b) /\ Entries(q.dev) = Entries(r.dev)

LEMMA FloatHolds ==
  ASSUME NEW h, NEW s, NEW r, NEW how \in {"sync", "async"}, NEW R, NEW hand, NEW W,
         Afloat(h, s, r, how, hand, W), Consistent(r.dev, r.mem, R, {}, hand, h),
         Mirror(r.dev, r.mem), AtRisk(r) = R, NEW b \in Block,
         b \in hand \ W \/ r.dev.block[b] = Data,
         NEW q, q = Float(r, how, b)
  PROVE  FloatsOn(h, s, q, r, how, R, hand, W \cup {b}, b)
<1>1. r \in Runs /\ r.dev \in Device /\ r.mem \in Memory
  BY AfloatRuns
<1>2. PICK e, v, Z : e = Filled(r.dev, b, Data) /\ v = Write(r, how, "block", b, Data) /\ Z = {}
  OBVIOUS
<1>3. Consistent(r.dev, r.mem, R, Z, hand, h) /\ Data \in Seq(Word)
  BY <1>2, DataIsWords
<1>4. /\ e.imap = r.dev.imap /\ e.bmap = r.dev.bmap /\ e.csum = r.dev.csum /\ e.node = r.dev.node
      /\ e.block = [c \in Block |-> IF c = b THEN Data ELSE r.dev.block[c]]
  BY <1>1, <1>2, FilledIs
<1>5. ASSUME NEW n \in Memory, n.bmap = r.mem.bmap, n.imap = r.mem.imap,
             \/ n.csum = r.mem.csum
             \/ \A c \in Block : n.csum[c] = IF c = b THEN Csum(Data) ELSE r.mem.csum[c]
      PROVE  /\ e \in Device /\ Consistent(e, n, R, Z, hand, h) /\ Entries(e) = Entries(r.dev)
  <2>0. r.mem.bmap \subseteq Block
    BY <1>1 DEF Memory
  <2>1. CASE b \in hand
    <3>1. Likewise(n, r.mem, hand, h)
      BY <1>5, <2>0, <2>1 DEF Likewise
    <3>2. /\ Consistent(Filled(r.dev, b, Data), n, R, Z, hand, h)
          /\ Entries(Filled(r.dev, b, Data)) = Entries(r.dev) /\ Filled(r.dev, b, Data) \in Device
      BY <1>1, <1>3, <2>1, <3>1, FilledBeside
    <3> QED BY <1>2, <3>2
  <2>2. CASE r.dev.block[b] = Data
    <3>1. e = r.dev
      BY <1>1, <1>2, <2>2, FilledSame
    <3>2. \A c \in Block : n.csum[c] \in {r.mem.csum[c], Csum(r.dev.block[c])}
      BY <1>5, <2>2
    <3>3. /\ hand \subseteq r.mem.bmap /\ r.dev.bmap \subseteq r.mem.bmap /\ r.dev.imap = r.mem.imap
      BY DEF Consistent
    <3>4. Beside(r.dev, n, r.dev, r.mem, Z, hand, hand, h)
      BY <1>5, <2>0, <3>2, <3>3 DEF Beside
    <3>5. Consistent(r.dev, n, R, Z, hand, h)
      BY <1>1, <1>3, <3>4, BesideIs
    <3> QED BY <1>1, <3>1, <3>5
  <2> QED BY <2>1, <2>2
<1>6. e \in Device /\ Consistent(e, r.mem, R, {}, hand, h) /\ Entries(e) = Entries(r.dev)
  BY <1>1, <1>2, <1>5
<1>7. /\ Afloat(h, s, v, how, hand, W \cup {b}) /\ v \in Runs /\ v.dev = e /\ v.writes # <<>>
      /\ v.mem = r.mem /\ v.ino = r.ino /\ v.ind = r.ind
      /\ v.open = r.open /\ v.unsaved = r.unsaved
  <2>1. /\ v = Write(r, how, "block", b, Data) /\ e = Filled(r.dev, b, Data)
        /\ e \in Device /\ Consistent(e, r.mem, R, {}, hand, h)
    BY <1>2, <1>6
  <2>2. Data \in Seq(Word)
    BY DataIsWords
  <2> HIDE <1>1, <1>2
  <2>3. IsIssued(h, s, v, r, how, hand, W \cup {b}, e)
    BY <2>1, <2>2, IssueAfloat
  <2> QED BY <2>3 DEF IsIssued
<1>8. q = SetCsum(v, b, Csum(Data))
  BY <1>2 DEF Float
<1>9. /\ q \in Runs /\ q.dev = v.dev /\ q.writes = v.writes
      /\ q.ino = v.ino /\ q.ind = v.ind /\ q.open = v.open /\ q.unsaved = v.unsaved
      /\ q.mem.bmap = v.mem.bmap /\ q.mem.imap = v.mem.imap
      /\ \A c \in Block : q.mem.csum[c] = IF c = b THEN Csum(Data) ELSE v.mem.csum[c]
      /\ q.mem.dirty = v.mem.dirty \cup {Group(b)}
  BY <1>7, <1>8, SetCsumIs
<1>10. HasFloated(q, r, b)
  BY <1>2, <1>7, <1>9 DEF HasFloated
<1>11. q.mem \in Memory
  BY <1>9 DEF Runs
<1>12. Consistent(q.dev, q.mem, R, {}, hand, h)
  BY <1>2, <1>5, <1>7, <1>9, <1>11
<1>13. Mirror(q.dev, q.mem)
  <2>1. \A c \in Block : Group(c) \in r.mem.dirty \/ r.mem.csum[c] = r.dev.csum[c]
    BY DEF Mirror
  <2> QED BY <1>4, <1>7, <1>9, <2>1 DEF Mirror
<1>14. Afloat(h, s, q, how, hand, W \cup {b})
  BY <1>7, <1>9, AfloatWith
<1> QED BY <1>6, <1>7, <1>9, <1>10, <1>12, <1>13, <1>14 DEF FloatsOn

\* One block, as testfs_write_data_alternate has it.
FloatBlock(r, i, k, how) ==
  LET t == IF LogToPhy(r, i, k) # 0 THEN r ELSE AllocateAlternate(r, i, k)
  IN  Float(t, how, LogToPhy(t, i, k))

\* Indirect blocks that are in memory only; those of other files are in Y.
Dry(r)       == {r.ino[j].indirect : j \in {l \in Inode : r.ind[l] # Zero}}
Wet(r)       == r.mem.bmap \ Dry(r)
Lent(r, i, Y) == \A j \in Inode \ {i} : r.ind[j] # Zero => r.ino[j].indirect \in Y

\* A draft with blocks afloat.
Drifts(h, s, r, how, i, R, k, D, B, Y) ==
  /\ Draft(h, r, i, R, k, D, B, Y) /\ Lent(r, i, Y)
  /\ Afloat(h, s, r, how, (B \ BlocksOf(r.dev, i)) \cup Y, Wet(r))

\* The run q is r with k blocks of data in the file i, some of them afloat.
Floated(h, s, q, r, how, i, R, k, Y) ==
  /\ q.writes # <<>> /\ Continues(q, r, i, Y)
  /\ \E Q, D, B : /\ R \subseteq Q /\ Q \subseteq R \cup {i}
                  /\ Drifts(h, s, q, how, i, Q, k, D, B, Y)

FloatedAgain(h, s, q, r, how, i, R, k, Y) ==
  Floated(h, s, q, r, how, i, R, k, Y) /\ q.mem.bmap = r.mem.bmap /\ q.ind = r.ind

\* ... and n blocks are free.
FloatedNew(h, s, q, r, how, i, R, k, Y, n) ==
  Floated(h, s, q, r, how, i, R, k, Y) /\ Free(q, n) /\ q.ind[i] = r.ind[i] /\ i \in q.unsaved

\* A block of the file once more.
LEMMA FloatAgain ==
  ASSUME NEW h, NEW s, NEW r, NEW how \in {"sync", "async"}, NEW i, NEW R, NEW k, NEW D, NEW B, NEW Y,
         Drifts(h, s, r, how, i, R, k, D, B, Y), NEW b \in D,
         NEW q, q = Float(r, how, b)
  PROVE  FloatedAgain(h, s, q, r, how, i, R, k, Y)
<1>0. /\ Draft(h, r, i, R, k, D, B, Y) /\ Afloat(h, s, r, how, (B \ BlocksOf(r.dev, i)) \cup Y, Wet(r))
      /\ Lent(r, i, Y)
  BY DEF Drifts
<1>1. PICK hand, W : hand = (B \ BlocksOf(r.dev, i)) \cup Y /\ W = Wet(r)
  OBVIOUS
<1>2. /\ r.dev \in Device /\ r.mem \in Memory /\ AtRisk(r) = R
      /\ D \subseteq B /\ B \subseteq r.mem.bmap /\ Y \subseteq r.mem.bmap /\ r.mem.bmap \subseteq Block
      /\ BlocksOf(r.dev, i) \subseteq r.mem.bmap /\ r.ino \in [Inode -> Dinodes]
  BY <1>0, DraftIs
<1>3. /\ Consistent(r.dev, r.mem, R, {}, hand, h) /\ Mirror(r.dev, r.mem)
      /\ Shape(r.dev, r.ino[i], Words(r, i), k, D, B) /\ r.open = {} /\ r.unsaved = R
      /\ i \in Entries(r.dev) /\ BlocksOf(r.dev, i) \subseteq B /\ B \cap Y = {}
      /\ i \in R \/ (B \subseteq r.dev.bmap /\ r.ind[i] = Zero)
      /\ r.ind[i] = Zero \/ k = 2
      /\ h = {} => \A c \in D : r.mem.csum[c] = Csum(Data)
  BY <1>0, <1>1 DEF Draft
<1>4. r.dev.block[b] = Data /\ b \in Block /\ W \cup {b} = W
  <2>1. b \notin Dry(r)
    <3>1. ASSUME NEW j \in Inode, r.ind[j] # Zero PROVE r.ino[j].indirect # b
      <4>1. CASE j = i
        BY <1>3, <3>1, <4>1 DEF Shape
      <4>2. CASE j # i
        BY <1>0, <1>2, <1>3, <3>1, <4>2 DEF Lent
      <4> QED BY <4>1, <4>2
    <3> QED BY <3>1 DEF Dry
  <2> QED BY <1>1, <1>2, <1>3, <2>1 DEF Shape, Wet
<1>5. PICK V : V = W \cup {b}
  OBVIOUS
<1>6. /\ Afloat(h, s, q, how, hand, W \cup {b}) /\ Consistent(q.dev, q.mem, R, {}, hand, h)
      /\ Mirror(q.dev, q.mem) /\ HasFloated(q, r, b) /\ Entries(q.dev) = Entries(r.dev)
  <2>1. Afloat(h, s, r, how, hand, W) /\ (b \in hand \ W \/ r.dev.block[b] = Data)
    BY <1>0, <1>1, <1>4
  <2>2. FloatsOn(h, s, q, r, how, R, hand, W \cup {b}, b)
    BY <1>2, <1>3, <1>4, <2>1, FloatHolds
  <2> QED BY <2>2 DEF FloatsOn
<1>7. /\ q \in Runs /\ q.dev = r.dev /\ q.ino = r.ino /\ q.ind = r.ind /\ q.open = {} /\ q.unsaved = R
      /\ q.writes # <<>> /\ q.mem.bmap = r.mem.bmap /\ q.mem.imap = r.mem.imap
      /\ \A c \in Block : q.mem.csum[c] = IF c = b THEN Csum(Data) ELSE r.mem.csum[c]
  <2>1. Filled(r.dev, b, Data) = r.dev
    BY <1>2, <1>4, FilledSame
  <2> QED BY <1>3, <1>6, <2>1 DEF HasFloated
<1>8. Continues(q, r, i, Y)
  <2>1. b \notin Y
    BY <1>2, <1>3
  <2> QED BY <1>2, <1>6, <1>7, <2>1 DEF Continues
<1>9. Shape(q.dev, q.ino[i], Words(q, i), k, D, B)
  BY <1>3, <1>7 DEF Words
<1>10. h = {} => \A c \in D : q.mem.csum[c] = Csum(Data)
  BY <1>2, <1>3, <1>7
<1>11. Draft(h, q, i, R, k, D, B, Y)
  BY <1>1, <1>3, <1>6, <1>7, <1>9, <1>10 DEF Draft
<1>12. Afloat(h, s, q, how, (B \ BlocksOf(q.dev, i)) \cup Y, Wet(q)) /\ Lent(q, i, Y)
  <2>1. Wet(q) = W /\ Lent(q, i, Y)
    BY <1>0, <1>1, <1>7 DEF Wet, Dry, Lent
  <2> QED BY <1>1, <1>4, <1>6, <1>7, <2>1
<1> QED BY <1>7, <1>8, <1>11, <1>12 DEF Drifts, Floated, FloatedAgain

-----------------------------------------------------------------------------
\* Blocks are allocated in memory only.
Reserve(r, i, b) == [r EXCEPT !.mem.bmap = @ \cup {b}, !.unsaved = @ \cup {i}]

LEMMA ReserveIs ==
  ASSUME NEW r \in Runs, NEW i \in Inode, NEW b \in Block, NEW q, q = Reserve(r, i, b)
  PROVE  /\ q \in Runs /\ q.dev = r.dev /\ q.writes = r.writes /\ q.ino = r.ino /\ q.ind = r.ind
         /\ q.open = r.open /\ q.unsaved = r.unsaved \cup {i}
         /\ q.mem.bmap = r.mem.bmap \cup {b} /\ q.mem.imap = r.mem.imap
         /\ q.mem.csum = r.mem.csum /\ q.mem.dirty = r.mem.dirty
<1>1. PICK m, U : m = [r.mem EXCEPT !.bmap = @ \cup {b}] /\ U = r.unsaved \cup {i}
  OBVIOUS
<1>2. /\ m \in Memory /\ m.bmap = r.mem.bmap \cup {b} /\ m.imap = r.mem.imap
      /\ m.csum = r.mem.csum /\ m.dirty = r.mem.dirty
  <2>1. r.mem \in Memory
    BY DEF Runs
  <2> QED BY <1>1, <2>1 DEF Memory
<1>3. U \in SUBSET Inode
  BY <1>1 DEF Runs
<1>4. q = [r EXCEPT !.mem = m, !.unsaved = U]
  BY <1>1 DEF Reserve, Runs
<1>5. /\ q \in Runs /\ q.dev = r.dev /\ q.writes = r.writes /\ q.ino = r.ino /\ q.ind = r.ind
      /\ q.open = r.open /\ q.unsaved = U /\ q.mem = m
  BY <1>2, <1>3, <1>4 DEF Runs
<1> QED BY <1>1, <1>2, <1>5

\* The run p is r with the blocks C for i, whose dinode is n and whose
\* indirect block has the words x, all in memory only.
HasReserved(p, r, i, n, x, C) ==
  /\ p \in Runs /\ p.dev = r.dev /\ p.writes = r.writes
  /\ p.ino = [r.ino EXCEPT ![i] = n] /\ p.ind = [r.ind EXCEPT ![i] = x]
  /\ p.open = r.open /\ p.unsaved = r.unsaved \cup {i}
  /\ p.mem.bmap = r.mem.bmap \cup C /\ p.mem.imap = r.mem.imap
  /\ p.mem.csum = r.mem.csum /\ p.mem.dirty = r.mem.dirty

LEMMA ReserveFirst ==
  ASSUME NEW r \in Runs, NEW i \in Inode, Block \ r.mem.bmap # {}
  PROVE  \E b \in Block \ r.mem.bmap :
           HasReserved(AllocateAlternate(r, i, 0), r, i, [r.ino[i] EXCEPT !.direct = b], r.ind[i], {b})
<1>1. PICK b, p, v : b = FirstFreeBlock(r) /\ p = AllocateAlternate(r, i, 0) /\ v = Reserve(r, i, b)
  OBVIOUS
<1>2. b \in Block \ r.mem.bmap /\ b \in BlockPtr
  BY <1>1, FirstFreeIs DEF BlockPtr
<1>3. /\ v \in Runs /\ v.dev = r.dev /\ v.writes = r.writes /\ v.ino = r.ino /\ v.ind = r.ind
      /\ v.open = r.open /\ v.unsaved = r.unsaved \cup {i}
      /\ v.mem.bmap = r.mem.bmap \cup {b} /\ v.mem.imap = r.mem.imap
      /\ v.mem.csum = r.mem.csum /\ v.mem.dirty = r.mem.dirty
  BY <1>1, <1>2, ReserveIs
<1>4. p = [v EXCEPT !.ino[i].direct = b]
  BY <1>1 DEF AllocateAlternate, Reserve
<1>5. Renoded(p, v, i, [v.ino[i] EXCEPT !.direct = b])
  BY <1>2, <1>3, <1>4, SetDirect
<1>6. r.ind = [r.ind EXCEPT ![i] = r.ind[i]]
  BY DEF Runs
<1>7. HasReserved(p, r, i, [r.ino[i] EXCEPT !.direct = b], r.ind[i], {b})
  BY <1>3, <1>5, <1>6 DEF HasReserved, Renoded
<1> QED BY <1>1, <1>2, <1>7

\* ... and then the indirect block.
Extend(v, i, c) == [v EXCEPT !.mem.bmap = @ \cup {c}, !.ino[i].indirect = c]

LEMMA ReserveBoth ==
  ASSUME NEW r, NEW i, NEW e, e = FirstFreeBlock(r), NEW v, v = Reserve(r, i, e),
         NEW c, c = FirstFreeBlock(v), v.ino[i].indirect = 0
  PROVE  AllocateAlternate(r, i, 1) = [Extend(v, i, c) EXCEPT !.ind[i] = <<e>>]
<1>1. 1 # 0
  OBVIOUS
<1> QED BY <1>1 DEF AllocateAlternate, Reserve, Extend

LEMMA ReserveSecond ==
  ASSUME NEW r \in Runs, NEW i \in Inode, r.ino[i].indirect = 0, NEW n \in Nat, Free(r, n + 2)
  PROVE  \E c, e \in Block \ r.mem.bmap :
           /\ c # e /\ Free(AllocateAlternate(r, i, 1), n)
           /\ HasReserved(AllocateAlternate(r, i, 1), r, i, [r.ino[i] EXCEPT !.indirect = c], <<e>>, {c, e})
<1>1. PICK e, p, v : e = FirstFreeBlock(r) /\ p = AllocateAlternate(r, i, 1) /\ v = Reserve(r, i, e)
  OBVIOUS
<1>2. Free(r, (n + 1) + 1) /\ n + 1 \in Nat
  <2>1. n + 2 = (n + 1) + 1
    OBVIOUS
  <2> QED BY <2>1
<1>3. e \in Block \ r.mem.bmap
  BY <1>1, <1>2, FreeSome, FirstFreeIs
<1>4. /\ v \in Runs /\ v.dev = r.dev /\ v.writes = r.writes /\ v.ino = r.ino /\ v.ind = r.ind
      /\ v.open = r.open /\ v.unsaved = r.unsaved \cup {i}
      /\ v.mem.bmap = r.mem.bmap \cup {e} /\ v.mem.imap = r.mem.imap
      /\ v.mem.csum = r.mem.csum /\ v.mem.dirty = r.mem.dirty
  BY <1>1, <1>3, ReserveIs
<1>5. Free(v, n + 1)
  BY <1>2, <1>3, <1>4, FreeLess
<1>6. PICK c, B : c = FirstFreeBlock(v) /\ B = v.mem.bmap \cup {c}
  OBVIOUS
<1>7. c \in Block \ v.mem.bmap /\ c \in BlockPtr /\ B \in SUBSET Block
  <2>1. c \in Block \ v.mem.bmap
    BY <1>5, <1>6, FreeSome, FirstFreeIs
  <2>2. v.mem \in Memory
    BY <1>4 DEF Runs
  <2> QED BY <1>6, <2>1, <2>2 DEF BlockPtr, Memory
<1>8. PICK w : w = [v EXCEPT !.mem.bmap = B]
  OBVIOUS
<1>9. /\ Same(w, v) /\ w.open = v.open /\ w.unsaved = v.unsaved
      /\ w.mem.bmap = B /\ w.mem.imap = v.mem.imap /\ w.mem.csum = v.mem.csum
      /\ w.mem.dirty = v.mem.dirty
  BY <1>4, <1>7, <1>8 DEF Runs, Memory, Same
<1>10. w \in Runs /\ w.dev = v.dev /\ w.writes = v.writes /\ w.ino = v.ino /\ w.ind = v.ind
  BY <1>9 DEF Same
<1>11. PICK z : z = [w EXCEPT !.ino[i].indirect = c]
  OBVIOUS
<1>12. Renoded(z, w, i, [w.ino[i] EXCEPT !.indirect = c])
  BY <1>7, <1>10, <1>11, SetIndirect
<1>13. /\ z \in Runs /\ z.dev = w.dev /\ z.writes = w.writes /\ z.ind = w.ind /\ z.mem = w.mem
       /\ z.open = w.open /\ z.unsaved = w.unsaved
       /\ z.ino = [w.ino EXCEPT ![i] = [w.ino[i] EXCEPT !.indirect = c]]
  BY <1>12 DEF Renoded
<1>14. p = [z EXCEPT !.ind[i] = <<e>>]
  <2>1. v.ino[i].indirect = 0
    BY <1>4
  <2>2. z = Extend(v, i, c)
    BY <1>4, <1>6, <1>8, <1>11 DEF Runs, Extend
  <2>3. AllocateAlternate(r, i, 1) = [Extend(v, i, c) EXCEPT !.ind[i] = <<e>>]
    BY <1>1, <1>6, <2>1, ReserveBoth
  <2> QED BY <1>1, <2>2, <2>3
<1>15. /\ p \in Runs /\ p.dev = z.dev /\ p.writes = z.writes /\ p.ino = z.ino
       /\ p.ind = [z.ind EXCEPT ![i] = <<e>>] /\ p.open = z.open /\ p.unsaved = z.unsaved
       /\ p.mem = z.mem
  <2>1. <<e>> \in Seq(Word)
    BY <1>3, DataIsWords
  <2> QED BY <1>13, <1>14, <2>1 DEF Runs
<1>16. HasReserved(p, r, i, [r.ino[i] EXCEPT !.indirect = c], <<e>>, {c, e})
  <2>1. B = r.mem.bmap \cup {c, e}
    BY <1>4, <1>6
  <2> QED BY <1>4, <1>9, <1>10, <1>13, <1>15, <2>1 DEF HasReserved
<1>17. Free(p, n)
  BY <1>5, <1>6, <1>7, <1>9, <1>13, <1>15, FreeLess
<1> QED BY <1>1, <1>3, <1>4, <1>7, <1>16, <1>17

\* New blocks in hand, and a file at risk until they are marked.
LEMMA ReservedConsistent ==
  ASSUME NEW d \in Device, NEW m \in Memory, NEW n \in Memory, NEW R, NEW hand, NEW h,
         Consistent(d, m, R, {}, hand, h), NEW C \in SUBSET (Block \ m.bmap),
         n.bmap = m.bmap \cup C, n.imap = m.imap, n.csum = m.csum, NEW i \in File
  PROVE  Consistent(d, n, R \cup {i}, {}, hand \cup C, h)
<1>1. /\ hand \subseteq m.bmap /\ d.bmap \subseteq m.bmap /\ d.imap = m.imap
  BY DEF Consistent
<1>2. PICK Z, H, Q : Z = {} /\ H = hand \cup C /\ Q = R \cup {i}
  OBVIOUS
<1>3. Beside(d, n, d, m, Z, hand, H, h)
  <2>1. n.bmap \ H = m.bmap \ hand /\ H \subseteq n.bmap
    BY <1>1, <1>2
  <2>2. d.bmap \subseteq n.bmap
    BY <1>1
  <2> QED BY <1>1, <2>1, <2>2 DEF Beside
<1>4. Consistent(d, m, R, Z, hand, h)
  BY <1>2
<1>5. Consistent(d, n, R, Z, H, h)
  BY <1>3, <1>4, BesideIs
<1>6. Consistent(d, n, Q, Z, H, h)
  <2>1. R \subseteq Q /\ (R \subseteq File => Q \subseteq File)
    BY <1>2
  <2> QED BY <1>5, <2>1 DEF Consistent
<1> QED BY <1>2, <1>6

\* The run q has data in the block b, one of the new blocks C of the draft of
\* i, whose dinode in memory is now n.
Grafted(h, s, q, r, how, i, R, hand, W, Y, n, x, C, b) ==
  /\ Afloat(h, s, q, how, hand \cup C, W \cup {b})
  /\ Consistent(q.dev, q.mem, R \cup {i}, {}, hand \cup C, h) /\ Mirror(q.dev, q.mem)
  /\ q \in Runs /\ q.open = {} /\ q.unsaved = R \cup {i} /\ q.writes # <<>>
  /\ q.ino[i] = n /\ q.ind[i] = x /\ q.mem.bmap = r.mem.bmap \cup C
  /\ q.dev.block[b] = Data /\ \A c \in Block \ {b} : q.dev.block[c] = r.dev.block[c]
  /\ \A c \in Block : q.mem.csum[c] = IF c = b THEN Csum(Data) ELSE r.mem.csum[c]
  /\ Continues(q, r, i, Y) /\ BlocksOf(q.dev, i) = BlocksOf(r.dev, i)
  /\ Entries(q.dev) = Entries(r.dev)

LEMMA Graft ==
  ASSUME NEW h, NEW s, NEW r, NEW how \in {"sync", "async"}, NEW i, NEW R, NEW k, NEW D, NEW B, NEW Y,
         Draft(h, r, i, R, k, D, B, Y), NEW hand, hand = (B \ BlocksOf(r.dev, i)) \cup Y,
         NEW W, Afloat(h, s, r, how, hand, W), W \subseteq r.mem.bmap, NEW C \in SUBSET (Block \ r.mem.bmap), NEW b \in C,
         NEW n, n.size = r.ino[i].size, NEW x, NEW p, HasReserved(p, r, i, n, x, C),
         NEW q, q = Float(p, how, b)
  PROVE  Grafted(h, s, q, r, how, i, R, hand, W, Y, n, x, C, b)
<1>1. PICK H, Q : H = hand \cup C /\ Q = R \cup {i}
  OBVIOUS
<1>2. /\ r.dev \in Device /\ r.mem \in Memory /\ AtRisk(r) = R /\ i \in File /\ i \in Inode
      /\ B \subseteq r.mem.bmap /\ Y \subseteq r.mem.bmap /\ r.mem.bmap \subseteq Block
      /\ BlocksOf(r.dev, i) \subseteq r.mem.bmap
      /\ r.ino \in [Inode -> Dinodes] /\ r.ind \in [Inode -> Seq(Word)]
  BY DraftIs
<1>3. /\ Consistent(r.dev, r.mem, R, {}, hand, h) /\ Mirror(r.dev, r.mem)
      /\ r.open = {} /\ r.unsaved = R
  BY DEF Draft
<1>4. /\ p \in Runs /\ p.dev = r.dev /\ p.writes = r.writes
      /\ p.ino = [r.ino EXCEPT ![i] = n] /\ p.ind = [r.ind EXCEPT ![i] = x]
      /\ p.open = {} /\ p.unsaved = Q
      /\ p.mem.bmap = r.mem.bmap \cup C /\ p.mem.imap = r.mem.imap
      /\ p.mem.csum = r.mem.csum /\ p.mem.dirty = r.mem.dirty
  BY <1>1, <1>3 DEF HasReserved
<1>5. p.mem \in Memory /\ p.dev \in Device
  BY <1>4 DEF Runs
<1>6. Consistent(p.dev, p.mem, Q, {}, H, h)
  <2>1. Consistent(r.dev, p.mem, R \cup {i}, {}, hand \cup C, h)
    BY <1>2, <1>3, <1>4, <1>5, ReservedConsistent
  <2> QED BY <1>1, <1>4, <2>1
<1>7. Mirror(p.dev, p.mem)
  BY <1>3, <1>4 DEF Mirror
<1>8. Afloat(h, s, p, how, H, W)
  <2>1. hand \subseteq H /\ W \subseteq W /\ Afloat(h, s, r, how, hand, W)
    BY <1>1
  <2> QED BY <1>4, <2>1, AfloatWith
<1>9. AtRisk(p) = Q
  BY <1>4 DEF AtRisk
<1>10. b \in Block /\ b \in H \ W /\ b \notin r.mem.bmap
  BY <1>1
<1>11. FloatsOn(h, s, q, p, how, Q, H, W \cup {b}, b)
  BY <1>6, <1>7, <1>8, <1>9, <1>10, FloatHolds
<1>12. /\ Afloat(h, s, q, how, H, W \cup {b}) /\ Consistent(q.dev, q.mem, Q, {}, H, h)
       /\ Mirror(q.dev, q.mem) /\ HasFloated(q, p, b) /\ Entries(q.dev) = Entries(p.dev)
  BY <1>11 DEF FloatsOn
<1>13. /\ q \in Runs /\ q.dev = Filled(p.dev, b, Data) /\ q.writes # <<>>
       /\ q.ino = p.ino /\ q.ind = p.ind /\ q.open = p.open /\ q.unsaved = p.unsaved
       /\ q.mem.bmap = p.mem.bmap /\ q.mem.imap = p.mem.imap
       /\ \A c \in Block : q.mem.csum[c] = IF c = b THEN Csum(Data) ELSE p.mem.csum[c]
  BY <1>12 DEF HasFloated
<1>14. /\ q.dev.imap = r.dev.imap /\ q.dev.node = r.dev.node
       /\ q.dev.block[b] = Data /\ \A c \in Block \ {b} : q.dev.block[c] = r.dev.block[c]
  <2>1. /\ Filled(p.dev, b, Data).imap = p.dev.imap /\ Filled(p.dev, b, Data).node = p.dev.node
        /\ Filled(p.dev, b, Data).block = [c \in Block |-> IF c = b THEN Data ELSE p.dev.block[c]]
    BY <1>5, FilledIs
  <2> QED BY <1>4, <1>10, <1>13, <2>1
<1>16. q.ino[i] = n /\ q.ind[i] = x /\ \A j \in Inode \ {i} : q.ino[j] = r.ino[j] /\ q.ind[j] = r.ind[j]
  BY <1>2, <1>4, <1>13
<1>17. Entries(q.dev) = Entries(r.dev)
  BY <1>4, <1>12
<1>18. Continues(q, r, i, Y)
  <2>1. /\ r.mem.bmap \subseteq q.mem.bmap /\ \A c \in r.mem.bmap : q.dev.block[c] = r.dev.block[c]
        /\ \A c \in Y : q.mem.csum[c] = r.mem.csum[c]
    BY <1>2, <1>4, <1>10, <1>13, <1>14
  <2> QED BY <1>4, <1>13, <1>14, <1>16, <1>17, <2>1 DEF Continues
<1>19. BlocksOf(q.dev, i) = BlocksOf(r.dev, i)
  BY <1>2, <1>18, ContinuesFile
<1>20. \A c \in Block : q.mem.csum[c] = IF c = b THEN Csum(Data) ELSE r.mem.csum[c]
  BY <1>4, <1>13
<1> QED BY <1>1, <1>4, <1>12, <1>13, <1>14, <1>16, <1>17, <1>18, <1>19, <1>20 DEF Grafted

\* A new block b is under way, an indirect block in memory only not.
LEMMA WetMore ==
  ASSUME NEW q, NEW r, NEW i, NEW Y, Continues(q, r, i, Y), Lent(r, i, Y), Y \subseteq r.mem.bmap,
         r.ind[i] = Zero, NEW b \in q.mem.bmap \ r.mem.bmap,
         q.ind[i] = Zero \/ q.ino[i].indirect \notin r.mem.bmap \cup {b}
  PROVE  Wet(r) \cup {b} \subseteq Wet(q) /\ Lent(q, i, Y)
<1>1. /\ \A j \in Inode \ {i} : q.ino[j] = r.ino[j] /\ q.ind[j] = r.ind[j]
      /\ r.mem.bmap \subseteq q.mem.bmap
  BY DEF Continues
<1>2. ASSUME NEW c \in Wet(r) \cup {b} PROVE c \notin Dry(q)
  <2>1. ASSUME NEW j \in Inode, q.ind[j] # Zero PROVE q.ino[j].indirect # c
    <3>1. CASE j = i
      BY <1>2, <2>1, <3>1 DEF Wet
    <3>2. CASE j # i
      <4>1. r.ind[j] # Zero /\ q.ino[j].indirect = r.ino[j].indirect
        BY <1>1, <2>1, <3>2
      <4>2. r.ino[j].indirect \in Y /\ r.ino[j].indirect \in Dry(r)
        BY <3>2, <4>1 DEF Lent, Dry
      <4> QED BY <1>2, <4>1, <4>2 DEF Wet
    <3> QED BY <3>1, <3>2
  <2> QED BY <2>1 DEF Dry
<1>3. Wet(r) \cup {b} \subseteq q.mem.bmap
  BY <1>1 DEF Wet
<1>4. Lent(q, i, Y)
  BY <1>1 DEF Lent
<1> QED BY <1>2, <1>3, <1>4 DEF Wet

\* The first block of data.
LEMMA FloatNewFirst ==
  ASSUME NEW h, NEW s, NEW r, NEW how \in {"sync", "async"}, NEW i, NEW R, NEW D, NEW B, NEW Y,
         Drifts(h, s, r, how, i, R, 0, D, B, Y),
         NEW n \in Nat, Free(r, n + 1), NEW q, q = FloatBlock(r, i, 0, how)
  PROVE  FloatedNew(h, s, q, r, how, i, R, 1, Y, n)
<1>0. /\ Draft(h, r, i, R, 0, D, B, Y) /\ Afloat(h, s, r, how, (B \ BlocksOf(r.dev, i)) \cup Y, Wet(r))
      /\ Lent(r, i, Y)
  BY DEF Drifts
<1>1. PICK hand, W : hand = (B \ BlocksOf(r.dev, i)) \cup Y /\ W = Wet(r)
  OBVIOUS
<1>2. /\ r \in Runs /\ i \in Inode /\ r.ino \in [Inode -> Dinodes] /\ Y \subseteq r.mem.bmap
      /\ BlocksOf(r.dev, i) \subseteq B /\ i \in Entries(r.dev)
      /\ Shape(r.dev, r.ino[i], Words(r, i), 0, D, B) /\ r.ind[i] = Zero
  <2>1. i \in Entries(r.dev)
    BY <1>0 DEF Draft
  <2>2. /\ r \in Runs /\ BlocksOf(r.dev, i) \subseteq B
        /\ Shape(r.dev, r.ino[i], Words(r, i), 0, D, B) /\ (r.ind[i] = Zero \/ 0 = 2)
    BY <1>0 DEF Draft
  <2>3. i \in Inode /\ r.ino \in [Inode -> Dinodes] /\ Y \subseteq r.mem.bmap
    BY <1>0, DraftIs
  <2> QED BY <2>1, <2>2, <2>3
<1>3. B = {} /\ r.ino[i].direct = 0 /\ r.ino[i].indirect = 0 /\ r.ino[i].type = "file"
  BY <1>2 DEF Shape
<1>4. BlocksOf(r.dev, i) = {} /\ hand = Y
  BY <1>1, <1>2, <1>3
<1>5. Block \ r.mem.bmap # {}
  BY FreeSome
<1>6. PICK b \in Block \ r.mem.bmap :
        HasReserved(AllocateAlternate(r, i, 0), r, i, [r.ino[i] EXCEPT !.direct = b], r.ind[i], {b})
  BY <1>2, <1>5, ReserveFirst
<1>7. PICK p, m, C : p = AllocateAlternate(r, i, 0) /\ m = [r.ino[i] EXCEPT !.direct = b] /\ C = {b}
  OBVIOUS
<1>8. /\ m.direct = b /\ m.indirect = 0 /\ m.type = "file" /\ m.size = r.ino[i].size
  BY <1>2, <1>3, <1>7 DEF Dinodes
<1>9. HasReserved(p, r, i, m, Zero, C)
  BY <1>2, <1>6, <1>7
<1>10. b # 0 /\ p.ino[i] = m
  BY <1>2, <1>9, NumbersAreWords DEF HasReserved
<1>11. q = Float(p, how, b)
  <2>1. LogToPhy(r, i, 0) = 0
    BY <1>3 DEF LogToPhy, Mapped
  <2>2. LogToPhy(p, i, 0) = b
    BY <1>8, <1>10 DEF LogToPhy, Mapped
  <2> QED BY <1>7, <2>1, <2>2 DEF FloatBlock
<1>12. Grafted(h, s, q, r, how, i, R, hand, W, Y, m, Zero, C, b)
  <2>1. C \in SUBSET (Block \ r.mem.bmap) /\ b \in C
    BY <1>7
  <2>2. Afloat(h, s, r, how, hand, W) /\ W \subseteq r.mem.bmap
    BY <1>0, <1>1 DEF Wet
  <2>3. PICK k : k = 0
    OBVIOUS
  <2>4. Draft(h, r, i, R, k, D, B, Y) /\ b \in C
    BY <1>0, <2>1, <2>3
  <2>5. PICK x : x = Zero
    OBVIOUS
  <2>6. HasReserved(p, r, i, m, x, C) /\ m.size = r.ino[i].size
    BY <1>8, <1>9, <2>5
  <2>7. Grafted(h, s, q, r, how, i, R, hand, W, Y, m, x, C, b)
    BY <1>1, <1>11, <2>1, <2>2, <2>4, <2>6, Graft
  <2> QED BY <2>5, <2>7
<1>13. /\ Afloat(h, s, q, how, hand \cup C, W \cup {b})
       /\ Consistent(q.dev, q.mem, R \cup {i}, {}, hand \cup C, h) /\ Mirror(q.dev, q.mem)
       /\ q \in Runs /\ q.open = {} /\ q.unsaved = R \cup {i} /\ q.writes # <<>>
       /\ q.ino[i] = m /\ q.ind[i] = Zero /\ q.mem.bmap = r.mem.bmap \cup C
       /\ q.dev.block[b] = Data
       /\ q.mem.csum[b] = Csum(Data)
       /\ Continues(q, r, i, Y) /\ BlocksOf(q.dev, i) = BlocksOf(r.dev, i)
       /\ Entries(q.dev) = Entries(r.dev)
  BY <1>12 DEF Grafted
<1>14. Shape(q.dev, q.ino[i], Words(q, i), 1, C, C)
  <2>1. b \in BlockPtr
    BY DEF BlockPtr
  <2> QED BY <1>7, <1>8, <1>10, <1>13, <2>1 DEF Shape
<1>15. PICK Q, K : Q = R \cup {i} /\ K = (C \ BlocksOf(q.dev, i)) \cup Y
  OBVIOUS
<1>16. hand \cup C = K /\ BlocksOf(q.dev, i) \subseteq C
  BY <1>4, <1>13, <1>15
<1>17. Draft(h, q, i, Q, 1, C, C, Y)
  <2>1. Consistent(q.dev, q.mem, Q, {}, (C \ BlocksOf(q.dev, i)) \cup Y, h)
    BY <1>13, <1>15, <1>16
  <2>2. C \cap Y = {} /\ i \in Q /\ i \in Entries(q.dev)
    BY <1>2, <1>7, <1>13, <1>15
  <2>3. h = {} => \A c \in C : q.mem.csum[c] = Csum(Data)
    BY <1>7, <1>13
  <2> QED BY <1>13, <1>14, <1>15, <1>16, <2>1, <2>2, <2>3 DEF Draft
<1>18. Afloat(h, s, q, how, (C \ BlocksOf(q.dev, i)) \cup Y, Wet(q)) /\ Lent(q, i, Y)
  <2>1. b \in q.mem.bmap \ r.mem.bmap
    BY <1>7, <1>13
  <2>2. Wet(r) \cup {b} \subseteq Wet(q) /\ Lent(q, i, Y)
    BY <1>0, <1>2, <1>13, <2>1, WetMore
  <2>3. W \cup {b} \subseteq Wet(q) /\ K \subseteq K /\ Afloat(h, s, q, how, K, W \cup {b})
    BY <1>1, <1>13, <1>16, <2>2
  <2>4. Afloat(h, s, q, how, K, Wet(q))
    BY <1>13, <2>3, AfloatWith
  <2> QED BY <1>15, <2>2, <2>4
<1>19. R \subseteq Q /\ Q \subseteq R \cup {i} /\ i \in q.unsaved
  BY <1>13, <1>15
<1>20. Free(q, n)
  BY <1>7, <1>13, FreeLess
<1> QED BY <1>2, <1>13, <1>17, <1>18, <1>19, <1>20 DEF Drifts, Floated, FloatedNew

\* The second block of data, and the indirect block in memory.
LEMMA FloatNewSecond ==
  ASSUME NEW h, NEW s, NEW r, NEW how \in {"sync", "async"}, NEW i, NEW R, NEW D, NEW B, NEW Y,
         Drifts(h, s, r, how, i, R, 1, D, B, Y),
         NEW n \in Nat, Free(r, n + 2), NEW q, q = FloatBlock(r, i, 1, how)
  PROVE  Floated(h, s, q, r, how, i, R, 2, Y) /\ Free(q, n)
<1>0. /\ Draft(h, r, i, R, 1, D, B, Y) /\ Afloat(h, s, r, how, (B \ BlocksOf(r.dev, i)) \cup Y, Wet(r))
      /\ Lent(r, i, Y)
  BY DEF Drifts
<1>1. PICK hand, f, W : hand = (B \ BlocksOf(r.dev, i)) \cup Y /\ f = r.ino[i].direct /\ W = Wet(r)
  OBVIOUS
<1>2. /\ r \in Runs /\ i \in Inode /\ r.ino \in [Inode -> Dinodes] /\ Y \subseteq r.mem.bmap
      /\ BlocksOf(r.dev, i) \subseteq B /\ i \in Entries(r.dev) /\ B \subseteq r.mem.bmap
      /\ Shape(r.dev, r.ino[i], Words(r, i), 1, D, B) /\ r.ind[i] = Zero
      /\ B \cap Y = {} /\ r.mem.bmap \subseteq Block
      /\ h = {} => \A b \in D : r.mem.csum[b] = Csum(Data)
  <2>1. i \in Entries(r.dev)
    BY <1>0 DEF Draft
  <2>2. /\ r \in Runs /\ BlocksOf(r.dev, i) \subseteq B /\ B \cap Y = {}
        /\ Shape(r.dev, r.ino[i], Words(r, i), 1, D, B) /\ (r.ind[i] = Zero \/ 1 = 2)
        /\ h = {} => \A b \in D : r.mem.csum[b] = Csum(Data)
    BY <1>0 DEF Draft
  <2>3. /\ i \in Inode /\ r.ino \in [Inode -> Dinodes] /\ Y \subseteq r.mem.bmap
        /\ B \subseteq r.mem.bmap /\ r.mem.bmap \subseteq Block
    BY <1>0, DraftIs
  <2> QED BY <2>1, <2>2, <2>3
<1>3. /\ f # 0 /\ r.ino[i].indirect = 0 /\ r.ino[i].type = "file" /\ D = {f} /\ B = {f}
      /\ f \in BlockPtr /\ r.dev.block[f] = Data
  BY <1>1, <1>2 DEF Shape
<1>4. PICK c, e \in Block \ r.mem.bmap :
        /\ c # e /\ Free(AllocateAlternate(r, i, 1), n)
        /\ HasReserved(AllocateAlternate(r, i, 1), r, i, [r.ino[i] EXCEPT !.indirect = c], <<e>>, {c, e})
  BY <1>2, <1>3, ReserveSecond
<1>5. PICK p, m, x, C : /\ p = AllocateAlternate(r, i, 1) /\ m = [r.ino[i] EXCEPT !.indirect = c]
                        /\ x = <<e>> /\ C = {c, e}
  OBVIOUS
<1>6. /\ m.direct = f /\ m.indirect = c /\ m.type = "file" /\ m.size = r.ino[i].size
  BY <1>1, <1>2, <1>3, <1>5 DEF Dinodes
<1>7. HasReserved(p, r, i, m, x, C) /\ Free(p, n)
  BY <1>4, <1>5
<1>8. x # Zero /\ x[1] = e
  BY <1>5 DEF Zero
<1>9. c # 0 /\ e # 0 /\ p.ino[i] = m /\ p.ind[i] = x
  BY <1>2, <1>4, <1>7, NumbersAreWords DEF HasReserved, Runs
<1>10. q = Float(p, how, e)
  <2>1. LogToPhy(r, i, 1) = 0
    BY <1>2, <1>3 DEF LogToPhy, Mapped
  <2>2. LogToPhy(p, i, 1) = e
    BY <1>8, <1>9 DEF LogToPhy
  <2> QED BY <1>5, <2>1, <2>2 DEF FloatBlock
<1>11. Grafted(h, s, q, r, how, i, R, hand, W, Y, m, x, C, e)
  <2>1. C \in SUBSET (Block \ r.mem.bmap) /\ e \in C
    BY <1>4, <1>5
  <2>2. Afloat(h, s, r, how, hand, W) /\ W \subseteq r.mem.bmap /\ m.size = r.ino[i].size
    BY <1>0, <1>1, <1>6 DEF Wet
  <2>3. PICK k : k = 1
    OBVIOUS
  <2>4. Draft(h, r, i, R, k, D, B, Y)
    BY <1>0, <2>3
  <2> QED BY <1>1, <1>7, <1>10, <2>1, <2>2, <2>4, Graft
<1>12. /\ Afloat(h, s, q, how, hand \cup C, W \cup {e})
       /\ Consistent(q.dev, q.mem, R \cup {i}, {}, hand \cup C, h) /\ Mirror(q.dev, q.mem)
       /\ q \in Runs /\ q.open = {} /\ q.unsaved = R \cup {i} /\ q.writes # <<>>
       /\ q.ino[i] = m /\ q.ind[i] = x /\ q.mem.bmap = r.mem.bmap \cup C
       /\ q.dev.block[e] = Data /\ \A b \in Block \ {e} : q.dev.block[b] = r.dev.block[b]
       /\ \A b \in Block : q.mem.csum[b] = IF b = e THEN Csum(Data) ELSE r.mem.csum[b]
       /\ Continues(q, r, i, Y) /\ BlocksOf(q.dev, i) = BlocksOf(r.dev, i)
       /\ Entries(q.dev) = Entries(r.dev)
  BY <1>11 DEF Grafted
<1>13. PICK E, F, Q, K : /\ E = {f, e} /\ F = {f, c, e} /\ Q = R \cup {i}
                         /\ K = (F \ BlocksOf(q.dev, i)) \cup Y
  OBVIOUS
<1>14. /\ f \in Block /\ f # c /\ f # e /\ f \in r.mem.bmap /\ c \in Block /\ e \in Block
  BY <1>2, <1>3, <1>4
<1>15. Shape(q.dev, q.ino[i], Words(q, i), 2, E, F)
  <2>1. Words(q, i) = <<e>>
    BY <1>5, <1>8, <1>12 DEF Words
  <2>2. q.dev.block[f] = Data
    BY <1>3, <1>12, <1>14
  <2>3. q.ino[i].direct = f /\ q.ino[i].indirect = c /\ q.ino[i].type = "file"
    BY <1>6, <1>12
  <2>4. q.dev.block[e] = Data
    BY <1>12
  <2> QED BY <1>3, <1>4, <1>13, <1>14, <2>1, <2>2, <2>3, <2>4 DEF Shape
<1>16. hand \cup C = K /\ BlocksOf(q.dev, i) \subseteq F
  BY <1>1, <1>2, <1>3, <1>4, <1>5, <1>12, <1>13
<1>17. Draft(h, q, i, Q, 2, E, F, Y)
  <2>1. Consistent(q.dev, q.mem, Q, {}, (F \ BlocksOf(q.dev, i)) \cup Y, h)
    BY <1>12, <1>13, <1>16
  <2>2. F \cap Y = {} /\ i \in Q /\ i \in Entries(q.dev)
    BY <1>2, <1>3, <1>4, <1>12, <1>13
  <2>3. h = {} => \A b \in E : q.mem.csum[b] = Csum(Data)
    BY <1>2, <1>3, <1>12, <1>13, <1>14
  <2> QED BY <1>12, <1>13, <1>15, <1>16, <2>1, <2>2, <2>3 DEF Draft
<1>18. Afloat(h, s, q, how, (F \ BlocksOf(q.dev, i)) \cup Y, Wet(q)) /\ Lent(q, i, Y)
  <2>1. e \in q.mem.bmap \ r.mem.bmap /\ q.ino[i].indirect \notin r.mem.bmap \cup {e}
    BY <1>4, <1>5, <1>6, <1>12
  <2>2. Wet(r) \cup {e} \subseteq Wet(q) /\ Lent(q, i, Y)
    BY <1>0, <1>2, <1>12, <2>1, WetMore
  <2>3. W \cup {e} \subseteq Wet(q) /\ K \subseteq K /\ Afloat(h, s, q, how, K, W \cup {e})
    BY <1>1, <1>12, <1>16, <2>2
  <2>4. Afloat(h, s, q, how, K, Wet(q))
    BY <1>12, <2>3, AfloatWith
  <2> QED BY <1>13, <2>2, <2>4
<1>19. R \subseteq Q /\ Q \subseteq R \cup {i}
  BY <1>13
<1>20. Free(q, n)
  <2>1. q.mem.bmap = p.mem.bmap
    BY <1>5, <1>7, <1>12 DEF HasReserved
  <2> QED BY <1>7, <2>1, FreeSame
<1> QED BY <1>12, <1>17, <1>18, <1>19, <1>20 DEF Drifts, Floated

\* The first block of data, new or not.
FloatedFirst(h, s, q, r, how, i, R, k, Y, n) ==
  /\ Floated(h, s, q, r, how, i, R, IF k = 0 THEN 1 ELSE k, Y) /\ Free(q, n) /\ q.ind[i] = Zero
  /\ k = 0 => i \in q.unsaved

LEMMA FloatFirst ==
  ASSUME NEW h, NEW s, NEW r, NEW how \in {"sync", "async"}, NEW i, NEW R, NEW k \in 0 .. 2,
         NEW D, NEW B, NEW Y, Drifts(h, s, r, how, i, R, k, D, B, Y), r.ind[i] = Zero,
         NEW n \in Nat, Free(r, IF k = 0 THEN n + 1 ELSE n), NEW q, q = FloatBlock(r, i, 0, how)
  PROVE  FloatedFirst(h, s, q, r, how, i, R, k, Y, n)
<1>1. CASE k = 0
  <2>1. Drifts(h, s, r, how, i, R, 0, D, B, Y) /\ Free(r, n + 1)
    BY <1>1
  <2>2. FloatedNew(h, s, q, r, how, i, R, 1, Y, n)
    BY <2>1, FloatNewFirst
  <2> QED BY <1>1, <2>2 DEF FloatedNew, FloatedFirst
<1>2. CASE k # 0
  <2>1. PICK b : b = LogToPhy(r, i, 0)
    OBVIOUS
  <2>2. b \in D /\ b # 0
    <3>1. Shape(r.dev, r.ino[i], Words(r, i), k, D, B)
      BY DEF Drifts, Draft
    <3>2. b = r.ino[i].direct
      BY <2>1 DEF LogToPhy, Mapped
    <3> QED BY <1>2, <3>1, <3>2 DEF Shape
  <2>3. q = Float(r, how, b)
    BY <2>1, <2>2 DEF FloatBlock
  <2>4. FloatedAgain(h, s, q, r, how, i, R, k, Y)
    BY <2>2, <2>3, FloatAgain
  <2>5. Free(q, n)
    BY <1>2, <2>4, FreeSame DEF FloatedAgain
  <2> QED BY <1>2, <2>4, <2>5 DEF FloatedAgain, FloatedFirst
<1> QED BY <1>1, <1>2

\* The second.
LEMMA FloatSecond ==
  ASSUME NEW h, NEW s, NEW r, NEW how \in {"sync", "async"}, NEW i, NEW R, NEW k \in 1 .. 2,
         NEW D, NEW B, NEW Y, Drifts(h, s, r, how, i, R, k, D, B, Y),
         NEW n \in Nat, Free(r, IF k = 1 THEN n + 2 ELSE n), NEW q, q = FloatBlock(r, i, 1, how)
  PROVE  Floated(h, s, q, r, how, i, R, 2, Y) /\ Free(q, n)
<1>1. CASE k = 1
  <2>1. Drifts(h, s, r, how, i, R, 1, D, B, Y) /\ Free(r, n + 2)
    BY <1>1
  <2> QED BY <2>1, FloatNewSecond
<1>2. CASE k # 1
  <2>1. PICK b : b = LogToPhy(r, i, 1)
    OBVIOUS
  <2>2. k = 2
    BY <1>2
  <2>3. b \in D /\ b # 0
    <3>1. Shape(r.dev, r.ino[i], Words(r, i), k, D, B)
      BY DEF Drifts, Draft
    <3>2. PICK e \in Block : Words(r, i) = <<e>> /\ e \in D /\ r.ino[i].indirect \in Block
      BY <2>2, <3>1 DEF Shape
    <3>3. e # 0 /\ r.ino[i].indirect # 0 /\ <<e>> # Zero /\ <<e>>[1] = e
      BY <3>2, NumbersAreWords DEF Zero
    <3>4. CASE r.ind[i] # Zero
      <4>1. r.ind[i] = <<e>>
        BY <3>2, <3>4 DEF Words
      <4>2. b = e
        BY <2>1, <3>3, <3>4, <4>1 DEF LogToPhy
      <4> QED BY <3>2, <3>3, <4>2
    <3>5. CASE r.ind[i] = Zero
      <4>1. r.dev.block[r.ino[i].indirect] = <<e>>
        BY <3>2, <3>5 DEF Words
      <4>2. b = e
        BY <2>1, <3>3, <3>5, <4>1 DEF LogToPhy, Mapped
      <4> QED BY <3>2, <3>3, <4>2
    <3> QED BY <3>4, <3>5
  <2>4. q = Float(r, how, b)
    BY <2>1, <2>3 DEF FloatBlock
  <2>5. FloatedAgain(h, s, q, r, how, i, R, k, Y)
    BY <2>3, <2>4, FloatAgain
  <2>6. Free(q, n)
    BY <1>2, <2>5, FreeSame DEF FloatedAgain
  <2> QED BY <2>2, <2>5, <2>6 DEF FloatedAgain
<1> QED BY <1>1, <1>2

-----------------------------------------------------------------------------
(***************************************************************************)
(* testfs_write_data_alternate, of a whole file.                           *)
(***************************************************************************)

LEMMA AlternateIs ==
  ASSUME NEW r, NEW i, NEW how
  PROVE  /\ WriteAlternate(r, i, 1, how) = GrowTo(FloatBlock(r, i, 0, how), i, 1)
         /\ WriteAlternate(r, i, 2, how) = GrowTo(FloatBlock(FloatBlock(r, i, 0, how), i, 1, how), i, 2)
<1>1. 1 - 1 = 0 /\ 2 - 1 = 1 /\ 2 # 1
  OBVIOUS
<1> QED BY <1>1 DEF WriteAlternate, ForEach, FloatBlock, Float

\* The size of the dinode in memory does not matter to a draft.
LEMMA GrownDrifts ==
  ASSUME NEW h, NEW s, NEW v, NEW how, NEW i, NEW Q, NEW l, NEW E, NEW F, NEW Y,
         Drifts(h, s, v, how, i, Q, l, E, F, Y), NEW q, Renoded(q, v, i, Sized(v.ino[i], l))
  PROVE  Drifts(h, s, q, how, i, Q, l, E, F, Y)
<1>1. PICK hand : hand = (F \ BlocksOf(v.dev, i)) \cup Y
  OBVIOUS
<1>2. Draft(h, v, i, Q, l, E, F, Y) /\ Afloat(h, s, v, how, hand, Wet(v)) /\ Lent(v, i, Y)
  BY <1>1 DEF Drifts
<1>3. /\ q \in Runs /\ q.dev = v.dev /\ q.writes = v.writes /\ q.ind = v.ind /\ q.mem = v.mem
      /\ q.open = v.open /\ q.unsaved = v.unsaved /\ q.ino = [v.ino EXCEPT ![i] = Sized(v.ino[i], l)]
  BY DEF Renoded
<1>4. v.ino \in [Inode -> Dinodes] /\ i \in Inode
  BY <1>2, DraftIs
<1>5. /\ q.ino[i].type = v.ino[i].type /\ q.ino[i].direct = v.ino[i].direct
      /\ q.ino[i].indirect = v.ino[i].indirect
  BY <1>3, <1>4 DEF Sized, Dinodes
<1>6. Afloat(h, s, q, how, hand, Wet(q)) /\ Lent(q, i, Y)
  <2>1. \A j \in Inode : q.ino[j].indirect = v.ino[j].indirect
    BY <1>3, <1>4, <1>5
  <2>2. Wet(q) = Wet(v)
    BY <1>3, <2>1 DEF Wet, Dry
  <2>3. hand \subseteq hand /\ Wet(v) \subseteq Wet(q)
    BY <2>2
  <2>4. Afloat(h, s, q, how, hand, Wet(q))
    BY <1>2, <1>3, <2>3, AfloatWith
  <2>5. Lent(q, i, Y)
    BY <1>2, <1>3, <2>1 DEF Lent
  <2> QED BY <2>4, <2>5
<1>7. Words(q, i) = Words(v, i)
  BY <1>3, <1>5 DEF Words
<1>8. /\ v \in Runs /\ Mirror(v.dev, v.mem) /\ Consistent(v.dev, v.mem, Q, {}, hand, h)
      /\ i \in Entries(v.dev) /\ BlocksOf(v.dev, i) \subseteq F /\ F \cap Y = {}
      /\ Shape(v.dev, v.ino[i], Words(v, i), l, E, F)
      /\ i \in Q \/ (F \subseteq v.dev.bmap /\ v.ind[i] = Zero)
      /\ v.ind[i] = Zero \/ l = 2
      /\ h = {} => \A b \in E : v.mem.csum[b] = Csum(Data)
      /\ v.open = {} /\ v.unsaved = Q
  BY <1>1, <1>2 DEF Draft
<1>9. Shape(q.dev, q.ino[i], Words(q, i), l, E, F)
  BY <1>3, <1>5, <1>7, <1>8 DEF Shape
<1>10. Draft(h, q, i, Q, l, E, F, Y)
  BY <1>1, <1>3, <1>8, <1>9 DEF Draft
<1> QED BY <1>1, <1>3, <1>6, <1>10 DEF Drifts

\* The run q is r with the file i written up to the size l, and n blocks are
\* still free.
Lengthened(h, s, q, r, how, i, R, l, Y, n) ==
  \E v, Q, E, F :
    /\ R \subseteq Q /\ Q \subseteq R \cup {i}
    /\ Continues(v, r, i, Y) /\ Renoded(q, v, i, Sized(v.ino[i], l))
    /\ Drifts(h, s, q, how, i, Q, l, E, F, Y) /\ Free(q, n) /\ q.ino[i].size = l

Lengthens(h, s, q, v, r, how, i, R, l, Y, n) ==
  Lengthened(h, s, q, r, how, i, R, l, Y, n) /\ q.ind = v.ind /\ q.unsaved = v.unsaved

LEMMA Lengthen ==
  ASSUME NEW h, NEW s, NEW v, NEW r, NEW how, NEW i, NEW R, NEW l \in 0 .. 2, NEW Y, NEW n,
         Floated(h, s, v, r, how, i, R, l, Y), Free(v, n), NEW size \in 1 .. 2,
         l = IF r.ino[i].size < size THEN size ELSE r.ino[i].size,
         NEW q, q = GrowTo(v, i, size)
  PROVE  Lengthens(h, s, q, v, r, how, i, R, l, Y, n)
<1>1. PICK Q, E, F : /\ R \subseteq Q /\ Q \subseteq R \cup {i} /\ Drifts(h, s, v, how, i, Q, l, E, F, Y)
                     /\ Continues(v, r, i, Y)
  BY DEF Floated
<1>2. v \in Runs /\ i \in Inode /\ v.ino[i].size = r.ino[i].size
  <2>1. Draft(h, v, i, Q, l, E, F, Y)
    BY <1>1 DEF Drifts
  <2>2. i \in Inode
    BY <2>1, DraftIs
  <2> QED BY <1>1, <2>1, <2>2 DEF Draft, Continues
<1>3. l = IF v.ino[i].size < size THEN size ELSE v.ino[i].size
  BY <1>2
<1>4. Renoded(q, v, i, Sized(v.ino[i], l))
  BY <1>2, <1>3, GrowIs
<1>5. Drifts(h, s, q, how, i, Q, l, E, F, Y)
  BY <1>1, <1>4, GrownDrifts
<1>6. q.ind = v.ind /\ Free(q, n) /\ q.unsaved = v.unsaved
  BY <1>4 DEF Renoded, Free
<1>7. q.ino[i].size = l
  <2>1. v.ino[i] \in Dinodes
    BY <1>2 DEF Runs
  <2>2. Sized(v.ino[i], l).size = l
    BY <2>1 DEF Sized, Dinodes
  <2>3. q.ino[i] = Sized(v.ino[i], l)
    BY <1>2, <1>4 DEF Renoded, Runs
  <2> QED BY <2>2, <2>3
<1> QED BY <1>1, <1>4, <1>5, <1>6, <1>7 DEF Lengthened, Lengthens

Alternated(h, s, q, r, how, i, R, l, Y, n, size) ==
  /\ Lengthened(h, s, q, r, how, i, R, l, Y, n) /\ (l = size \/ q.ind[i] = Zero)
  /\ r.ino[i].size = 0 => i \in q.unsaved

LEMMA AlternateHolds ==
  ASSUME NEW h, NEW s, NEW r, NEW how \in {"sync", "async"}, NEW i, NEW R, NEW k \in 0 .. 2,
         NEW D, NEW B, NEW Y, Drifts(h, s, r, how, i, R, k, D, B, Y), r.ind[i] = Zero,
         r.ino[i].size = k, NEW size \in 1 .. 2, NEW n \in Nat, Free(r, n + More(k, size)),
         NEW l, l = IF k < size THEN size ELSE k, NEW q, q = WriteAlternate(r, i, size, how)
  PROVE  Alternated(h, s, q, r, how, i, R, l, Y, n, size)
<1>1. PICK v, j : v = FloatBlock(r, i, 0, how) /\ j = IF k = 0 THEN 1 ELSE k
  OBVIOUS
<1>2. k \in {0, 1, 2} /\ size \in {1, 2}
  OBVIOUS
<1>3. PICK m \in Nat : /\ Free(r, IF k = 0 THEN m + 1 ELSE m)
                       /\ m = IF size = 1 THEN n ELSE IF j = 1 THEN n + 2 ELSE n
  <2>1. CASE size = 1
    <3>1. n + More(k, size) = IF k = 0 THEN n + 1 ELSE n
      BY <1>2, <2>1 DEF More
    <3> QED BY <2>1, <3>1
  <2>2. CASE size = 2
    <3>1. CASE k = 0
      <4>1. n + More(k, size) = (n + 2) + 1 /\ n + 2 \in Nat
        BY <2>2, <3>1 DEF More
      <4> QED BY <1>1, <2>2, <3>1, <4>1
    <3>2. CASE k = 1
      <4>1. n + More(k, size) = n + 2 /\ n + 2 \in Nat
        BY <2>2, <3>2 DEF More
      <4> QED BY <1>1, <2>2, <3>2, <4>1
    <3>3. CASE k = 2
      <4>1. n + More(k, size) = n
        BY <2>2, <3>3 DEF More
      <4> QED BY <1>1, <2>2, <3>3, <4>1
    <3> QED BY <1>2, <3>1, <3>2, <3>3
  <2> QED BY <1>2, <2>1, <2>2
<1>4. /\ Floated(h, s, v, r, how, i, R, j, Y) /\ Free(v, m) /\ v.ind[i] = Zero
      /\ k = 0 => i \in v.unsaved
  <2>1. FloatedFirst(h, s, v, r, how, i, R, k, Y, m)
    BY <1>1, <1>3, FloatFirst
  <2> QED BY <1>1, <2>1 DEF FloatedFirst
<1>5. CASE size = 1
  <2>1. q = GrowTo(v, i, size)
    BY <1>1, <1>5, AlternateIs
  <2>2. /\ j \in 0 .. 2 /\ j = IF r.ino[i].size < size THEN size ELSE r.ino[i].size
        /\ Free(v, n) /\ j = l
    BY <1>1, <1>2, <1>3, <1>4, <1>5
  <2>3. Lengthens(h, s, q, v, r, how, i, R, j, Y, n)
    BY <1>4, <2>1, <2>2, Lengthen
  <2> QED BY <1>4, <2>2, <2>3 DEF Lengthens, Alternated
<1>6. CASE size = 2
  <2>1. PICK w : w = FloatBlock(v, i, 1, how)
    OBVIOUS
  <2>2. PICK Q, E, F : /\ R \subseteq Q /\ Q \subseteq R \cup {i} /\ Drifts(h, s, v, how, i, Q, j, E, F, Y)
                       /\ Continues(v, r, i, Y)
    BY <1>4 DEF Floated
  <2>3. j \in 1 .. 2 /\ Free(v, IF j = 1 THEN n + 2 ELSE n) /\ l = 2
    BY <1>1, <1>2, <1>3, <1>4, <1>6
  <2>4. Floated(h, s, w, v, how, i, Q, 2, Y) /\ Free(w, n)
    BY <2>1, <2>2, <2>3, FloatSecond
  <2>5. Floated(h, s, w, r, how, i, R, l, Y) /\ (k = 0 => i \in w.unsaved)
    <3>1. PICK P, G, H : /\ Q \subseteq P /\ P \subseteq Q \cup {i} /\ Drifts(h, s, w, how, i, P, 2, G, H, Y)
                         /\ Continues(w, v, i, Y) /\ w.writes # <<>>
      BY <2>4 DEF Floated
    <3>2. R \subseteq P /\ P \subseteq R \cup {i}
      BY <2>2, <3>1
    <3>3. Continues(w, r, i, Y)
      BY <2>2, <3>1, ContinuesOn
    <3>4. w.unsaved = P /\ v.unsaved = Q
      BY <2>2, <3>1 DEF Drifts, Draft
    <3>5. k = 0 => i \in w.unsaved
      BY <1>4, <3>1, <3>4
    <3> QED BY <2>3, <3>1, <3>2, <3>3, <3>5 DEF Floated
  <2>6. q = GrowTo(w, i, size)
    BY <1>1, <1>6, <2>1, AlternateIs
  <2>7. l \in 0 .. 2 /\ l = IF r.ino[i].size < size THEN size ELSE r.ino[i].size
    BY <1>6
  <2>8. Lengthens(h, s, q, w, r, how, i, R, l, Y, n)
    BY <2>4, <2>5, <2>6, <2>7, Lengthen
  <2> QED BY <1>6, <2>3, <2>5, <2>8 DEF Lengthens, Alternated
<1> QED BY <1>2, <1>5, <1>6

-----------------------------------------------------------------------------
(***************************************************************************)
(* spin_wait, and write.                                                   *)
(***************************************************************************)
HasWaited(w, q) ==
  /\ w.dev = q.dev /\ w.mem = q.mem /\ w.ino = q.ino /\ w.ind = q.ind
  /\ w.open = q.open /\ w.unsaved = q.unsaved /\ w.writes # <<>>

\* Once nothing is afloat.
LEMMA WaitDrafts ==
  ASSUME NEW h, NEW s, NEW q, NEW how, NEW i, NEW Q, NEW l, NEW E, NEW F, NEW Y,
         Drifts(h, s, q, how, i, Q, l, E, F, Y), NEW w, w = SpinWait(q)
  PROVE  Still(h, s, w) /\ Draft(h, w, i, Q, l, E, F, Y) /\ HasWaited(w, q)
<1>1. PICK hand : hand = (F \ BlocksOf(q.dev, i)) \cup Y
  OBVIOUS
<1>2. Draft(h, q, i, Q, l, E, F, Y) /\ Afloat(h, s, q, how, hand, Wet(q))
  BY <1>1 DEF Drifts
<1>3. AtRisk(q) = Q /\ Fits(q.dev, Q, {}, Q) /\ q.dev \in Device
  BY <1>2, DraftIs
<1>4. PICK t : Led(h, s, q, t)
  BY <1>2 DEF Afloat
<1>5. Safe(h, q.dev, AtRisk(q))
  <2>1. PICK X : X = {}
    OBVIOUS
  <2>2. Consistent(q.dev, q.mem, Q, X, hand, h) /\ Fits(q.dev, Q, X, Q)
    BY <1>1, <1>2, <1>3, <2>1 DEF Draft
  <2>3. Safe(h, q.dev, Q)
    BY <2>2, FitsSafe
  <2> QED BY <1>3, <2>3
<1>6. Wrote(h, s, w, q, q.dev)
  BY <1>4, <1>5, WaitWrote
<1>7. Still(h, s, w) /\ HasWaited(w, q)
  BY <1>6, WroteStill DEF Wrote, HasWaited
<1>8. w \in Runs /\ w.dev = q.dev /\ w.mem = q.mem /\ w.ino = q.ino /\ w.ind = q.ind
      /\ w.open = q.open /\ w.unsaved = q.unsaved
  BY <1>7, StillIs DEF HasWaited
<1>9. Words(w, i) = Words(q, i)
  BY <1>8 DEF Words
<1>10. Draft(h, w, i, Q, l, E, F, Y)
  BY <1>2, <1>8, <1>9 DEF Draft
<1> QED BY <1>7, <1>10

LEMMA SameRun ==
  ASSUME NEW q \in Runs, NEW r \in Runs, q.dev = r.dev, q.mem = r.mem, q.ino = r.ino, q.ind = r.ind,
         q.writes = r.writes, q.open = r.open, q.unsaved = r.unsaved
  PROVE  q = r
<1>1. /\ q = [dev |-> q.dev, mem |-> q.mem, ino |-> q.ino, ind |-> q.ind, writes |-> q.writes,
               open |-> q.open, unsaved |-> q.unsaved]
      /\ r = [dev |-> r.dev, mem |-> r.mem, ino |-> r.ino, ind |-> r.ind, writes |-> r.writes,
               open |-> r.open, unsaved |-> r.unsaved]
  BY DEF Runs
<1> QED BY <1>1

\* What is long enough does not grow.
LEMMA GrowNothing ==
  ASSUME NEW w \in Runs, NEW i \in Inode, NEW size \in 1 .. 2, NEW l \in 0 .. 2, w.ino[i].size = l,
         size <= l
  PROVE  GrowTo(w, i, size) = w
<1>1. PICK g : g = GrowTo(w, i, size)
  OBVIOUS
<1>2. g = [w EXCEPT !.ino[i].size = l]
  BY <1>1 DEF GrowTo
<1>3. Renoded(g, w, i, Sized(w.ino[i], l))
  BY <1>2, SetSize DEF Sized
<1>4. Sized(w.ino[i], l) = w.ino[i]
  BY DEF Sized, Runs, Dinodes
<1>5. w.ino = [w.ino EXCEPT ![i] = w.ino[i]]
  BY DEF Runs
<1>6. g = w
  <2>1. /\ g \in Runs /\ g.dev = w.dev /\ g.writes = w.writes /\ g.ind = w.ind /\ g.mem = w.mem
        /\ g.open = w.open /\ g.unsaved = w.unsaved /\ g.ino = w.ino
    BY <1>3, <1>4, <1>5 DEF Renoded
  <2> QED BY <2>1, SameRun
<1> QED BY <1>1, <1>6

LEMMA CmdWriteIs ==
  ASSUME NEW r, NEW i, NEW size, NEW w, w = SpinWait(WriteAlternate(r, i, size, "async")),
         GrowTo(w, i, size) = w
  PROVE  CmdWrite(r, i, size) = Finish(w, i, size)
BY DEF CmdWrite, Finish

LEMMA CmdWriteHolds ==
  ASSUME NEW h, NEW s, NEW r, NEW R, AtRest(h, s, r, R), NEW i \in Entries(r.dev),
         NEW size \in 1 .. 2, Free(r, More(r.dev.node[i].size, size)),
         NEW q, q = CmdWrite(r, i, size)
  PROVE  \E Q : AtRest(h, s, q, Q) /\ Settled(h, s, q) /\ q.writes # <<>>
<1>1. PICK k, Y, how : k = r.ino[i].size /\ Y = {} /\ how = "async"
  OBVIOUS
<1>2. /\ \E D, B : Draft(h, r, i, R, k, D, B, Y)
      /\ OthersRest(r, i) /\ Still(h, s, r) /\ k \in 0 .. 2
      /\ r.ind[i] = Zero /\ i \in File /\ k = r.dev.node[i].size
  BY <1>1, RestDrafts
<1>3. PICK D, B : Draft(h, r, i, R, k, D, B, Y)
  BY <1>2
<1>4. Drifts(h, s, r, how, i, R, k, D, B, Y)
  <2>1. PICK hand : hand = (B \ BlocksOf(r.dev, i)) \cup Y
    OBVIOUS
  <2>2. Afloat(h, s, r, how, hand, Wet(r))
    BY <1>2, StillAfloat
  <2>3. Lent(r, i, Y)
    BY <1>2 DEF OthersRest, Lent
  <2> QED BY <1>3, <2>1, <2>2, <2>3 DEF Drifts
<1>5. PICK l, p : l = (IF k < size THEN size ELSE k) /\ p = WriteAlternate(r, i, size, how)
  OBVIOUS
<1>6. k \in {0, 1, 2} /\ size \in {1, 2} /\ l \in 0 .. 2 /\ size <= l
  BY <1>2, <1>5
<1>7. Lengthened(h, s, p, r, how, i, R, l, Y, 0) /\ (l = size \/ p.ind[i] = Zero)
  <2>1. PICK n \in Nat : n = 0
    OBVIOUS
  <2>2. Free(r, n + More(k, size))
    <3>1. More(k, size) \in Nat
      BY <1>6 DEF More
    <3>2. n + More(k, size) = More(k, size)
      BY <2>1, <3>1
    <3> QED BY <1>2, <3>2
  <2>3. how \in {"sync", "async"} /\ r.ino[i].size = k
    BY <1>1
  <2>4. Alternated(h, s, p, r, how, i, R, l, Y, n, size)
    BY <1>2, <1>4, <1>5, <2>2, <2>3, AlternateHolds
  <2> QED BY <2>1, <2>4 DEF Alternated
<1>8. PICK v, Q, E, F :
        /\ Continues(v, r, i, Y) /\ Renoded(p, v, i, Sized(v.ino[i], l))
        /\ Drifts(h, s, p, how, i, Q, l, E, F, Y) /\ p.ino[i].size = l
  BY <1>7 DEF Lengthened
<1>9. PICK w : w = SpinWait(p)
  OBVIOUS
<1>10. Still(h, s, w) /\ Draft(h, w, i, Q, l, E, F, Y) /\ HasWaited(w, p)
  BY <1>8, <1>9, WaitDrafts
<1>11. i \in Inode /\ w \in Runs
  <2>1. i \in Inode
    BY <1>10, DraftIs
  <2> QED BY <1>10, <2>1 DEF Draft
<1>12. w.ino[i].size = l
  BY <1>8, <1>10 DEF HasWaited
<1>13. q = Finish(w, i, size)
  <2>1. GrowTo(w, i, size) = w
    BY <1>6, <1>11, <1>12, GrowNothing
  <2> QED BY <1>1, <1>5, <1>9, <2>1, CmdWriteIs
<1>14. OthersRest(w, i)
  <2>1. OthersRest(v, i)
    BY <1>2, <1>8, OthersRestOn
  <2> QED BY <1>8, <1>10, <2>1 DEF OthersRest, HasWaited, Renoded, Runs
<1>15. AtRest(h, s, q, Q) /\ Settled(h, s, q) /\ q.writes # <<>>
  <2>1. /\ l = IF w.ino[i].size < size THEN size ELSE w.ino[i].size
        /\ l = size \/ w.ind[i] = Zero
    BY <1>6, <1>7, <1>10, <1>12 DEF HasWaited
  <2>2. Draft(h, w, i, Q, l, E, F, {})
    BY <1>1, <1>10
  <2> QED BY <1>6, <1>10, <1>13, <1>14, <2>1, <2>2, FinishHolds
<1> QED BY <1>15

LEMMA StartWriteInv ==
  IInv /\ (\E i \in Entries(dev) : \E size \in 1 .. 2 : StartWrite(i, size)) => IInv'
<1> SUFFICES ASSUME IInv, NEW i \in Entries(dev), NEW size \in 1 .. 2, StartWrite(i, size)
             PROVE  IInv'
  OBVIOUS
<1>1. PICK q : q = CmdWrite(Now, i, size)
  OBVIOUS
<1>2. Usable /\ Enough(Needed(i, size)) /\ Execute("write", size, q)
  BY <1>1 DEF StartWrite
<1>3. AtRest(history, On(dev, risk), Now, risk) /\ Now.dev = dev /\ Now.mem = mem
  BY <1>2, NowAtRest
<1>4. Free(Now, More(Now.dev.node[i].size, size))
  BY <1>2, <1>3 DEF Enough, Needed, Free, More
<1>5. PICK z, r, R, H : z = On(dev, risk) /\ r = Now /\ R = risk /\ H = history
  OBVIOUS
<1>6. \E Q : AtRest(H, z, q, Q) /\ Settled(H, z, q) /\ q.writes # <<>>
  <2>1. /\ AtRest(H, z, r, R) /\ i \in Entries(r.dev) /\ Free(r, More(r.dev.node[i].size, size))
        /\ q = CmdWrite(r, i, size)
    BY <1>1, <1>3, <1>4, <1>5
  <2> QED BY <2>1, CmdWriteHolds
<1>7. PICK Q : AtRest(H, z, q, Q) /\ Settled(H, z, q) /\ q.writes # <<>>
  BY <1>6
<1>8. "write" \in Names \ {"mkfs", "bench"} /\ size \in Nat
  BY DEF Names
<1> QED BY <1>2, <1>5, <1>7, <1>8, RestInv

-----------------------------------------------------------------------------
(***************************************************************************)
(* The block freemap, written whole.                                       *)
(***************************************************************************)
LEMMA GroupsAre ==
  Groups \in SUBSET Nat /\ IsFiniteSet(Groups) /\ Groups # {}
<1>1. PICK f : f = [b \in Block |-> Group(b)]
  OBVIOUS
<1>2. IsFiniteSet(Block) /\ Block # {}
  <2>1. 1 \in Block
    BY VolumeAssumption DEF Block
  <2>2. Block \ {} = Block
    OBVIOUS
  <2> QED BY <2>1, <2>2, BlocksFinite
<1>3. f \in Surjection(Block, Groups)
  BY <1>1 DEF Groups, Surjection
<1>4. IsFiniteSet(Groups)
  BY <1>2, <1>3, FS_Surjection
<1> QED BY <1>2, <1>4, Numbers DEF Groups

\* The freemap of d is the one in memory.
FullMarked(d, m) == Marked(d, m, Groups)

LEMMA FullMarkedIs ==
  ASSUME NEW d \in Device, NEW m \in Memory, NEW e, e = FullMarked(d, m)
  PROVE  /\ e \in Device /\ e.bmap = m.bmap /\ e.imap = d.imap /\ e.csum = d.csum
         /\ e.node = d.node /\ e.block = d.block
<1>1. e \in Device
  BY MarkedDevice DEF FullMarked
<1>2. e.bmap = {b \in Block : IF Group(b) \in Groups THEN b \in m.bmap ELSE b \in d.bmap}
  BY MarkedIs DEF FullMarked
<1>3. \A b \in Block : Group(b) \in Groups
  BY DEF Groups
<1>4. m.bmap \subseteq Block
  BY DEF Memory
<1>5. e.bmap = m.bmap
  BY <1>2, <1>3, <1>4
<1> QED BY <1>1, <1>5, MarkedIs DEF FullMarked

\* The request of testfs_flush_block_freemap.
LEMMA BmapRequest ==
  ASSUME NEW r \in Runs, NEW val, val = [g \in Groups |-> BmapOf(r, g)],
         NEW w, w = Request(r, "async", "bmap", val)
  PROVE  val \in [Groups -> Contents] /\ Put(r.dev, w) = FullMarked(r.dev, r.mem)
<1>1. r.dev \in Device /\ r.mem \in Memory
  BY DEF Runs
<1>2. \A g \in Groups : val[g] = r.mem.bmap \cap InGroup(g)
  BY DEF BmapOf
<1>3. val \in [Groups -> Contents]
  <2>1. \A g \in Groups : val[g] \in SUBSET Block
    BY <1>1, <1>2 DEF Memory
  <2> QED BY <2>1, ContentsAre
<1>4. w.area = "bmap" /\ w.val = val
  <2>1. val \in Vals
    BY <1>3, GroupsAre, ValsAre
  <2>2. "bmap" \in Written
    BY DEF Written
  <2> QED BY <2>1, <2>2, RequestIs
<1>5. Put(r.dev, w) = Marked(r.dev, r.mem, Groups)
  <2>1. DOMAIN w.val = Groups /\ \A g \in Groups : w.val[g] = r.mem.bmap \cap InGroup(g)
    BY <1>2, <1>4
  <2> QED BY <1>1, <1>4, <2>1, PutMarked
<1> QED BY <1>3, <1>5 DEF FullMarked

\* What is kept of a run when its freemap is written.
HasMarked(q, r) ==
  /\ q.dev = FullMarked(r.dev, r.mem) /\ q.mem = r.mem /\ q.ino = r.ino /\ q.ind = r.ind
  /\ q.open = r.open /\ q.unsaved = r.unsaved

\* The program may stop wherever it is on the way.
SafeTo(h, a, e, R) == \A x \in Device : Between(x, a, e) => Safe(h, x, R)

\* Of what is under way at z only the freemap is new.
Spread(h, s, q, t, R) ==
  \E z \in Points : /\ Led(h, s, q, z) /\ z.a = t.a /\ z.r = R
                    /\ \A v \in z.p : v \in t.p \/ v.area = "bmap"

LEMMA WriteBmapHolds ==
  ASSUME NEW h, NEW s, NEW r, NEW t, Led(h, s, r, t), \A v \in t.p : v.area # "bmap",
         SafeTo(h, t.a, FullMarked(r.dev, r.mem), AtRisk(r)),
         NEW q, q = WriteBmap(r)
  PROVE  Spread(h, s, q, t, AtRisk(r)) /\ HasMarked(q, r)
<1>1. PICK val : val = [g \in Groups |-> BmapOf(r, g)]
  OBVIOUS
<1>2. PICK w : w = Request(r, "async", "bmap", val)
  OBVIOUS
<1>3. r \in Runs /\ r.dev \in Device /\ r.mem \in Memory
  BY DEF Led, Runs
<1>4. val \in [Groups -> Contents] /\ Put(r.dev, w) = FullMarked(r.dev, r.mem)
  BY <1>1, <1>2, <1>3, BmapRequest
<1>5. PICK G, area : G = Groups /\ area = "bmap"
  OBVIOUS
<1>6. /\ G \in SUBSET Nat /\ IsFiniteSet(G) /\ G # {} /\ val \in [G -> Contents] /\ area \in Written
      /\ w = Request(r, "async", area, val) /\ Put(r.dev, w) \in Device
      /\ \A v \in t.p : v.area # area \/ DOMAIN v.val \cap G = {}
      /\ \A x \in Device : Between(x, t.a, Put(r.dev, w)) => Safe(h, x, AtRisk(r))
      /\ q = WriteEach(r, "async", area, val)
  <2>1. Put(r.dev, w) \in Device
    BY <1>3, <1>4, FullMarkedIs
  <2>2. \A x \in Device : Between(x, t.a, Put(r.dev, w)) => Safe(h, x, AtRisk(r))
    BY <1>4 DEF SafeTo
  <2>3. q = WriteEach(r, "async", area, val)
    BY <1>1, <1>5 DEF WriteBmap
  <2>4. area \in Written /\ \A v \in t.p : v.area # area
    BY <1>5 DEF Written
  <2> QED BY <1>2, <1>4, <1>5, <2>1, <2>2, <2>3, <2>4, GroupsAre
<1>7. /\ \E z \in Points :
           /\ Led(h, s, q, z) /\ z.a = t.a /\ z.r = AtRisk(r)
           /\ \A v \in z.p : v \in t.p \/ (v.area = area /\ DOMAIN v.val \subseteq G)
      /\ q.dev = Put(r.dev, w)
      /\ q.mem = r.mem /\ q.ino = r.ino /\ q.ind = r.ind
      /\ q.open = r.open /\ q.unsaved = r.unsaved
  BY <1>6, EachAsync
<1>8. Spread(h, s, q, t, AtRisk(r))
  BY <1>5, <1>7 DEF Spread
<1> QED BY <1>4, <1>7, <1>8 DEF HasMarked

\* Nothing is unsaved any more.
Saved(r) == [r EXCEPT !.unsaved = {}]

LEMMA SavedIs ==
  ASSUME NEW r \in Runs, NEW q, q = Saved(r)
  PROVE  Same(q, r) /\ q.mem = r.mem /\ q.open = r.open /\ q.unsaved = {}
<1>1. /\ q = [r EXCEPT !.unsaved = {}]
  BY DEF Saved
<1> QED BY <1>1 DEF Same, Runs

\* The run q is r once the freemap is on the device.
HasFlushedBmap(h, s, q, r) ==
  /\ Settled(h, s, q) /\ q.dev = FullMarked(r.dev, r.mem) /\ q.writes # <<>>
  /\ q.mem = r.mem /\ q.ino = r.ino /\ q.ind = r.ind /\ q.open = r.open /\ q.unsaved = {}

LEMMA LedSame ==
  ASSUME NEW h, NEW s, NEW r, NEW t, Led(h, s, r, t), NEW q, Same(q, r)
  PROVE  Led(h, s, q, t)
BY DEF Led, Same

LEMMA FlushBmapHolds ==
  ASSUME NEW h, NEW s, NEW r, Still(h, s, r), NEW e, e = FullMarked(r.dev, r.mem),
         SafeTo(h, r.dev, e, AtRisk(r)), Safe(h, e, r.open),
         NEW q, q = FlushBlockFreemap(r)
  PROVE  HasFlushedBmap(h, s, q, r)
<1>1. PICK R : Led(h, s, r, On(r.dev, R))
  BY DEF Still
<1>2. PICK t : t = On(r.dev, R)
  OBVIOUS
<1>3. Led(h, s, r, t) /\ t.p = {} /\ t.a = r.dev
  BY <1>1, <1>2 DEF On
<1>4. PICK v, w : v = WriteBmap(r) /\ w = Saved(v)
  OBVIOUS
<1>5. Spread(h, s, v, t, AtRisk(r)) /\ HasMarked(v, r)
  <2>1. SafeTo(h, t.a, FullMarked(r.dev, r.mem), AtRisk(r)) /\ \A u \in t.p : u.area # "bmap"
    BY <1>3
  <2> QED BY <1>3, <1>4, <2>1, WriteBmapHolds
<1>6. PICK z : Led(h, s, v, z)
  BY <1>5 DEF Spread
<1>7. Same(w, v) /\ w.mem = v.mem /\ w.open = v.open /\ w.unsaved = {}
  <2>1. v \in Runs
    BY <1>6 DEF Led
  <2> QED BY <1>4, <2>1, SavedIs
<1>8. Led(h, s, w, z)
  BY <1>6, <1>7, LedSame
<1>9. w.dev = e /\ w.open = r.open /\ AtRisk(w) = r.open
  BY <1>5, <1>7 DEF HasMarked, Same, AtRisk
<1>10. q = SpinWait(w)
  BY <1>4 DEF FlushBlockFreemap, Saved
<1>11. Wrote(h, s, q, w, w.dev)
  <2>1. Safe(h, w.dev, AtRisk(w))
    BY <1>9
  <2> QED BY <1>8, <1>10, <2>1, WaitWrote
<1>12. Settled(h, s, q)
  BY <1>11, WroteSettled
<1> QED BY <1>5, <1>7, <1>9, <1>11, <1>12 DEF HasFlushedBmap, HasMarked, Wrote, Same

-----------------------------------------------------------------------------
(***************************************************************************)
(* A volume at rest whose freemaps are flushed.                            *)
(***************************************************************************)
LEMMA FlushedConsistent ==
  ASSUME NEW d \in Device, NEW m \in Memory, NEW R, NEW h, Consistent(d, m, R, {}, {}, h),
         NEW e, e = FullMarked(d, m)
  PROVE  /\ \A x \in Device : Between(x, d, e) => Consistent(x, m, R, {}, {}, h)
         /\ Consistent(e, m, {}, {}, {}, h)
<1>1. PICK Z : Z = {}
  OBVIOUS
<1>2. Consistent(d, m, R, Z, Z, h)
  BY <1>1
<1>3. /\ e \in Device /\ e.bmap = m.bmap /\ e.imap = d.imap /\ e.csum = d.csum
      /\ e.node = d.node /\ e.block = d.block
  BY FullMarkedIs
<1>4. d.bmap \subseteq m.bmap /\ d.imap = m.imap /\ m.bmap \subseteq Block
  BY <1>2 DEF Consistent, Memory
<1>5. ASSUME NEW x \in Device, Between(x, d, e)
      PROVE  Consistent(x, m, R, Z, Z, h)
  <2>1. /\ \A i \in Inode \ Z : x.node[i] = d.node[i] /\ (i \in x.imap <=> i \in d.imap)
        /\ \A b \in m.bmap \ Z : /\ x.block[b] = d.block[b] /\ (b \in d.bmap => b \in x.bmap)
                                 /\ h = {} => m.csum[b] \in {m.csum[b], Csum(d.block[b])}
    BY <1>3, <1>4, <1>5 DEF Between
  <2>2. x.bmap \subseteq m.bmap /\ x.imap = m.imap
    <3>1. x.bmap \subseteq Block
      BY DEF Device
    <3> QED BY <1>3, <1>4, <1>5, <3>1 DEF Between
  <2>3. m.bmap \ Z = m.bmap \ Z /\ Z \subseteq m.bmap
    BY <1>1
  <2>4. Beside(x, m, d, m, Z, Z, Z, h)
    BY <2>1, <2>2, <2>3 DEF Beside
  <2> QED BY <1>2, <2>4, BesideIs
<1>6. Consistent(e, m, R, Z, Z, h)
  <2>1. Between(e, d, e)
    BY BetweenEnds
  <2> QED BY <1>3, <1>5, <2>1
<1>7. Consistent(e, m, Z, Z, Z, h)
  <2>1. \A i \in Reached(e) \ (Z \cup Z) : BlocksOf(e, i) \subseteq e.bmap
    BY <1>1, <1>3, <1>6 DEF Consistent, Sound
  <2>2. Z \subseteq File
    BY <1>1
  <2> QED BY <1>6, <2>1, <2>2 DEF Consistent
<1> QED BY <1>1, <1>5, <1>7

LEMMA NumberedSame ==
  ASSUME NEW d \in Device, NEW I, d.imap = I
  PROVE  Numbered(d, I) = d
<1>1. Numbered(d, I) \in Device
  BY NumberedDevice DEF Device
<1> QED BY <1>1, NumberedIs, SameDevice

-----------------------------------------------------------------------------
(***************************************************************************)
(* testfs_flush_super_block, and quit.                                     *)
(***************************************************************************)

\* The run q is r once the freemaps are on the device.
HasFlushedSuper(h, s, q, r) ==
  /\ Settled(h, s, q) /\ q.dev = FullMarked(Numbered(r.dev, r.mem.imap), r.mem) /\ q.writes # <<>>
  /\ q.mem = r.mem /\ q.ino = r.ino /\ q.ind = r.ind /\ q.open = r.open /\ q.unsaved = {}

LEMMA FlushSuperIs ==
  ASSUME NEW h, NEW s, NEW r, Still(h, s, r), NEW d, d = Numbered(r.dev, r.mem.imap),
         NEW e, e = FullMarked(d, r.mem),
         Safe(h, d, AtRisk(r)), SafeTo(h, d, e, AtRisk(r)), Safe(h, e, r.open),
         NEW q, q = FlushSuper(r)
  PROVE  HasFlushedSuper(h, s, q, r)
<1>1. r.mem.imap \in SUBSET Inode
  BY StillIs DEF Memory
<1>2. PICK w : w = WriteSync(r, "imap", 0, r.mem.imap)
  OBVIOUS
<1>3. Wrote(h, s, w, r, d)
  BY <1>1, <1>2, NumberedWrote
<1>4. /\ Still(h, s, w) /\ w.dev = d /\ w.mem = r.mem /\ w.ino = r.ino /\ w.ind = r.ind
      /\ w.open = r.open /\ w.unsaved = r.unsaved /\ AtRisk(w) = AtRisk(r)
  BY <1>3, WroteStill, WroteSettled DEF Wrote
<1>5. q = FlushBlockFreemap(w)
  BY <1>2 DEF FlushSuper
<1>6. HasFlushedBmap(h, s, q, w)
  <2>1. e = FullMarked(w.dev, w.mem) /\ SafeTo(h, w.dev, e, AtRisk(w)) /\ Safe(h, e, w.open)
    BY <1>4
  <2> QED BY <1>4, <1>5, <2>1, FlushBmapHolds
<1> QED BY <1>4, <1>6 DEF HasFlushedBmap, HasFlushedSuper

\* Of a volume at rest.
FlushedRest(h, s, q, r) ==
  /\ AtRest(h, s, q, {}) /\ Settled(h, s, q) /\ q.writes # <<>>
  /\ q.mem = r.mem /\ q.dev = FullMarked(r.dev, r.mem)

LEMMA FlushSuperHolds ==
  ASSUME NEW h, NEW s, NEW r, NEW R, AtRest(h, s, r, R), NEW q, q = FlushSuper(r)
  PROVE  FlushedRest(h, s, q, r)
<1>1. /\ Still(h, s, r) /\ Consistent(r.dev, r.mem, R, {}, {}, h) /\ Mirror(r.dev, r.mem)
      /\ r \in Runs /\ r.dev \in Device /\ r.mem \in Memory /\ AtRisk(r) = R /\ R \subseteq File
  BY AtRestIs
<1>2. r.open = {} /\ r.unsaved = R /\ r.ino = r.dev.node /\ \A i \in Inode : r.ind[i] = Zero
  BY DEF AtRest
<1>3. PICK d, e : d = Numbered(r.dev, r.mem.imap) /\ e = FullMarked(r.dev, r.mem)
  OBVIOUS
<1>4. d = r.dev
  BY <1>1, <1>3, NumberedSame DEF Consistent
<1>5. /\ \A x \in Device : Between(x, r.dev, e) => Consistent(x, r.mem, R, {}, {}, h)
      /\ Consistent(e, r.mem, {}, {}, {}, h)
  BY <1>1, <1>3, FlushedConsistent
<1>6. /\ e \in Device /\ e.bmap = r.mem.bmap /\ e.imap = r.dev.imap /\ e.csum = r.dev.csum
      /\ e.node = r.dev.node /\ e.block = r.dev.block
  BY <1>1, <1>3, FullMarkedIs
<1>7. PICK Z : Z = {}
  OBVIOUS
<1>8. SafeTo(h, d, e, AtRisk(r))
  <2>1. ASSUME NEW x \in Device, Between(x, d, e) PROVE Safe(h, x, R)
    <3>1. Consistent(x, r.mem, R, Z, Z, h)
      BY <1>4, <1>5, <1>7, <2>1
    <3>2. Fits(x, R, Z, R)
      BY <1>1, <1>7 DEF Fits, File
    <3> QED BY <3>1, <3>2, FitsSafe
  <2> QED BY <1>1, <2>1 DEF SafeTo
<1>9. Safe(h, d, AtRisk(r))
  BY <1>1, <1>4, <1>8, BetweenEnds DEF SafeTo
<1>10. Safe(h, e, r.open)
  <2>1. Consistent(e, r.mem, Z, Z, Z, h)
    BY <1>5, <1>7
  <2>2. Fits(e, Z, Z, Z)
    BY <1>7 DEF Fits
  <2> QED BY <1>2, <1>7, <2>1, <2>2, FitsSafe
<1>11. HasFlushedSuper(h, s, q, r)
  <2>1. e = FullMarked(d, r.mem)
    BY <1>3, <1>4
  <2> QED BY <1>1, <1>3, <1>8, <1>9, <1>10, <2>1, FlushSuperIs
<1>12. /\ Settled(h, s, q) /\ q.dev = e /\ q.writes # <<>>
       /\ q.mem = r.mem /\ q.ino = r.ino /\ q.ind = r.ind /\ q.open = r.open /\ q.unsaved = {}
  BY <1>3, <1>4, <1>11 DEF HasFlushedSuper
<1>13. AtRest(h, s, q, {})
  <2>1. Mirror(q.dev, q.mem)
    BY <1>1, <1>6, <1>12 DEF Mirror
  <2>2. Holds(h, s, q, {}, {}, {})
    BY <1>5, <1>12, <2>1, SettledStill DEF Holds
  <2> QED BY <1>2, <1>6, <1>12, <2>2 DEF AtRest
<1> QED BY <1>3, <1>12, <1>13 DEF FlushedRest

-----------------------------------------------------------------------------
\* What is on the device when the program has stopped.
Stopped(d) == [On(d, {}) EXCEPT !.up = FALSE]

LEMMA DevStopHolds ==
  ASSUME NEW h, NEW s, NEW r, Settled(h, s, r), AtRisk(r) = {}, Safe(h, r.dev, {}),
         NEW q, q = DevStop(r)
  PROVE  /\ q \in Runs /\ q.writes # <<>> /\ q.mem = r.mem
         /\ Stopped(r.dev) \in Points /\ Leads(h, q.writes, s, Stopped(r.dev))
<1>1. Led(h, s, r, On(r.dev, {}))
  BY DEF Settled
<1>2. r \in Runs /\ r.dev \in Device /\ r.writes \in Seq(Requests) /\ Leads(h, r.writes, s, On(r.dev, {}))
  BY <1>1 DEF Led, Runs
<1>3. PICK w : w = Request(r, "sync", "stop", <<>>)
  OBVIOUS
<1>4. w \in Requests /\ w.area = "stop"
  BY <1>2, <1>3, BareRequest
<1>5. Put(r.dev, w) = r.dev
  BY <1>4, PutNothing DEF Written
<1>6. PICK t, u : t = On(r.dev, {}) /\ u = Stopped(r.dev)
  OBVIOUS
<1>7. /\ t \in Points /\ t.p = {} /\ t.r = {} /\ t.up
      /\ u \in Points /\ u.a = r.dev /\ u.l = r.dev /\ u.r = {} /\ u = [t EXCEPT !.up = FALSE]
  BY <1>2, <1>6 DEF On, Stopped, Points
<1>8. Goes(h, w, t, u)
  <2>1. IsStop(w, t, u)
    BY <1>4, <1>7 DEF IsStop
  <2>2. Secure(h, u)
    <3>1. \A x \in Device : Between(x, u.a, u.l) => x = r.dev
      BY <1>2, <1>7, BetweenSame
    <3> QED BY <1>7, <3>1 DEF Secure, Safe
  <2> QED BY <1>7, <2>1, <2>2 DEF Goes
<1>9. /\ q \in Runs /\ q.writes = r.writes \o <<w>> /\ q.writes # <<>> /\ q.mem = r.mem
  <2>1. q = Issue(r, w)
    BY <1>3 DEF DevStop
  <2> QED BY <1>2, <1>4, <1>5, <2>1, IssueIs
<1>10. Leads(h, r.writes \o <<w>>, s, u)
  BY <1>2, <1>4, <1>6, <1>7, <1>8, LeadsFurther
<1> QED BY <1>6, <1>7, <1>9, <1>10

HistoryQuit(m, h) == h \cup IF m.dirty = {} THEN {} ELSE {"csumLost"}

\* The program stops.
LEMMA StoppedInv ==
  ASSUME IInv, Ready, NEW r, Settled(history, On(dev, risk), r), AtRisk(r) = {},
         Safe(history, r.dev, {}), Rests(r.dev, Load(r.dev), {}, HistoryQuit(r.mem, history)),
         NEW q, q = DevStop(r), Execute("quit", 0, q)
  PROVE  IInv'
<1>1. PICK h, s, u : h = history /\ s = On(dev, risk) /\ u = Stopped(r.dev)
  OBVIOUS
<1>2. /\ q \in Runs /\ q.writes # <<>> /\ q.mem = r.mem /\ u \in Points /\ Leads(h, q.writes, s, u)
  BY <1>1, DevStopHolds
<1>3. Achieves("quit", 0, q.mem, history, u)
  <2>1. u.p = {} /\ ~u.up /\ u.l = r.dev
    BY <1>1 DEF Stopped, On
  <2> QED BY <1>2, <2>1 DEF Achieves, HistoryQuit
<1>4. "quit" \in Names /\ 0 \in Nat
  BY DEF Names
<1> QED BY <1>1, <1>2, <1>3, <1>4, ExecuteInv

\* What the freemaps say once they are flushed is all there is.
LEMMA QuitRests ==
  ASSUME NEW d \in Device, NEW m \in Memory, NEW h, Consistent(d, m, {}, {}, {}, h), Mirror(d, m),
         d.bmap = m.bmap
  PROVE  Rests(d, Load(d), {}, HistoryQuit(m, h))
<1>1. PICK k, n : k = HistoryQuit(m, h) /\ n = Load(d)
  OBVIOUS
<1>2. n.bmap = d.bmap /\ n.imap = d.imap /\ n.csum = d.csum
  BY <1>1 DEF Load
<1>3. Mirror(d, n)
  BY <1>2 DEF Mirror
<1>4. h \subseteq k /\ (k = {} => m.dirty = {})
  BY <1>1 DEF HistoryQuit
<1>5. k = {} => \A b \in Block : m.csum[b] = d.csum[b]
  BY <1>4 DEF Mirror
<1>6. PICK Z : Z = {}
  OBVIOUS
<1>7. Consistent(d, m, Z, Z, Z, h)
  BY <1>6
<1>8. /\ FsExists(d) /\ Sound(d, n.bmap, Z) /\ d.bmap \subseteq n.bmap /\ d.imap = n.imap
      /\ Z \subseteq File /\ Z \subseteq n.bmap
      /\ \A i \in Reached(d) \ (Z \cup Z) : BlocksOf(d, i) \subseteq d.bmap
      /\ \A i \in Reached(d) \ Z : BlocksOf(d, i) \cap Z = {}
  BY <1>2, <1>6, <1>7 DEF Consistent
<1>9. k \subseteq {"csumLost"} =>
        /\ n.imap \subseteq Reached(d) \cup Z
        /\ \A b \in n.bmap \ Z : \E i \in Reached(d) \ Z : b \in BlocksOf(d, i)
  <2>1. k \subseteq {"csumLost"} => h \subseteq {"csumLost"}
    BY <1>4
  <2>2. h \subseteq {"csumLost"} =>
          /\ m.imap \subseteq Reached(d) \cup Z
          /\ \A b \in m.bmap \ Z : \E i \in Reached(d) \ Z : b \in BlocksOf(d, i)
    BY <1>7 DEF Consistent
  <2>3. n.imap = m.imap /\ n.bmap = m.bmap
    BY <1>2, <1>7 DEF Consistent
  <2> QED BY <2>1, <2>2, <2>3
<1>10. k = {} => \A i \in Reached(d) \ Z : \A b \in DataBlocks(d, i) : n.csum[b] = Csum(d.block[b])
  <2>1. ASSUME k = {}, NEW i \in Reached(d) \ Z, NEW b \in DataBlocks(d, i)
        PROVE  n.csum[b] = Csum(d.block[b])
    <3>1. h = {}
      BY <1>4, <2>1
    <3>2. m.csum[b] = Csum(d.block[b])
      BY <1>7, <2>1, <3>1 DEF Consistent
    <3>3. b \in Block
      <4>1. DataBlocks(d, i) \subseteq BlocksOf(d, i)
        BY OwnBlocks
      <4>2. BlocksOf(d, i) \subseteq d.bmap
        BY <1>6, <1>8
      <4> QED BY <2>1, <4>1, <4>2 DEF Device
    <3> QED BY <1>2, <1>5, <2>1, <3>2, <3>3
  <2> QED BY <2>1
<1>11. Consistent(d, n, Z, Z, Z, k)
  BY <1>8, <1>9, <1>10 DEF Consistent
<1> QED BY <1>1, <1>3, <1>6, <1>8, <1>11 DEF Rests

LEMMA StartQuitInv == IInv /\ StartQuit => IInv'
<1> SUFFICES ASSUME IInv, StartQuit PROVE IInv'
  OBVIOUS
<1>1. PICK h, s, r, q : h = history /\ s = On(dev, risk) /\ r = Now /\ q = Quit(Now)
  OBVIOUS
<1>2. Ready /\ Execute("quit", 0, q)
  BY <1>1 DEF StartQuit
<1>3. /\ Settled(h, s, r) /\ r.dev = dev /\ r.mem = mem /\ r.open = {} /\ AtRisk(r) = risk
  BY <1>1, <1>2, NowIs
<1>4. Still(h, s, r)
  BY <1>3, SettledStill
<1>5. Rests(dev, mem, risk, history)
  BY <1>2 DEF IInv, Ready
<1>6. CASE ~FsExists(dev)
  <2>1. q = DevStop(r)
    BY <1>1, <1>3, <1>6 DEF Quit
  <2>2. AtRisk(r) = {}
    BY <1>3, <1>5, <1>6 DEF Rests
  <2>3. Safe(history, r.dev, {})
    BY <1>3, <1>6 DEF Safe, Recoverable
  <2>4. Rests(r.dev, Load(r.dev), {}, HistoryQuit(r.mem, history))
    BY <1>3, <1>6 DEF Rests
  <2> QED BY <1>1, <1>2, <1>3, <2>1, <2>2, <2>3, <2>4, StoppedInv
<1>7. CASE FsExists(dev) /\ "damaged" \in history
  <2>1. PICK d, e, p : d = Numbered(r.dev, r.mem.imap) /\ e = FullMarked(d, r.mem) /\ p = FlushSuper(r)
    OBVIOUS
  <2>2. \A x, R : Safe(h, x, R)
    BY <1>1, <1>7 DEF Safe
  <2>3. Safe(h, d, AtRisk(r)) /\ SafeTo(h, d, e, AtRisk(r)) /\ Safe(h, e, r.open)
    BY <2>2 DEF SafeTo
  <2>4. HasFlushedSuper(h, s, p, r)
    BY <1>4, <2>1, <2>3, FlushSuperIs
  <2>5. Settled(h, s, p) /\ AtRisk(p) = {} /\ p.mem = r.mem
    BY <1>3, <2>4 DEF HasFlushedSuper, AtRisk
  <2>6. q = DevStop(p)
    BY <1>1, <1>3, <1>7, <2>1 DEF Quit
  <2>7. Safe(history, p.dev, {}) /\ Rests(p.dev, Load(p.dev), {}, HistoryQuit(p.mem, history))
    BY <1>1, <1>7, <2>2 DEF Rests, HistoryQuit
  <2> QED BY <1>1, <1>2, <2>5, <2>6, <2>7, StoppedInv
<1>8. CASE FsExists(dev) /\ "damaged" \notin history
  <2>1. AtRest(h, s, r, risk)
    <3>1. Usable
      BY <1>2, <1>8 DEF Usable
    <3> QED BY <1>1, <3>1, NowAtRest
  <2>2. PICK p : p = FlushSuper(r)
    OBVIOUS
  <2>3. FlushedRest(h, s, p, r)
    BY <2>1, <2>2, FlushSuperHolds
  <2>4. PICK Z : Z = {}
    OBVIOUS
  <2>5. AtRest(h, s, p, Z) /\ Settled(h, s, p) /\ p.mem = r.mem /\ p.dev = FullMarked(r.dev, r.mem)
    BY <2>3, <2>4 DEF FlushedRest
  <2>6. /\ Consistent(p.dev, p.mem, Z, {}, {}, h) /\ Mirror(p.dev, p.mem)
        /\ p.dev \in Device /\ p.mem \in Memory /\ AtRisk(p) = Z
    BY <2>5, AtRestIs
  <2>7. p.dev.bmap = p.mem.bmap
    <3>1. r.dev \in Device /\ r.mem \in Memory
      BY <2>1, AtRestIs
    <3> QED BY <2>5, <3>1, FullMarkedIs
  <2>8. q = DevStop(p)
    BY <1>1, <1>3, <1>8, <2>2 DEF Quit
  <2>9. Safe(history, p.dev, {})
    <3>1. Consistent(p.dev, p.mem, Z, Z, Z, h) /\ Fits(p.dev, Z, Z, Z)
      BY <2>4, <2>6 DEF Fits
    <3> QED BY <1>1, <2>4, <3>1, FitsSafe
  <2>10. Rests(p.dev, Load(p.dev), {}, HistoryQuit(p.mem, history))
    BY <1>1, <2>4, <2>6, <2>7, QuitRests
  <2> QED BY <1>1, <1>2, <2>4, <2>5, <2>6, <2>8, <2>9, <2>10, StoppedInv
<1> QED BY <1>6, <1>7, <1>8

-----------------------------------------------------------------------------
(***************************************************************************)
(* The volume cleared by mkfs.                                             *)
(***************************************************************************)

LEMMA ClearBmap ==
  ASSUME NEW h, NEW s, NEW r, Settled(h, s, r), AtRisk(r) = Inode,
         NEW q, q = WriteEach(r, "sync", "bmap", [g \in Groups |-> {}])
  PROVE  WroteEach(h, s, q, r, FullMarked(r.dev, NoMem))
<1>1. PICK val, G, area : val = [g \in Groups |-> {}] /\ G = Groups /\ area = "bmap"
  OBVIOUS
<1>2. PICK w : w = Request(r, "sync", area, val)
  OBVIOUS
<1>3. r \in Runs /\ r.dev \in Device /\ NoMem \in Memory /\ area \in Written
  <2>1. NoMem \in Memory
    BY DEF NoMem, Memory
  <2> QED BY <1>1, <2>1, SettledStill, StillIs DEF Written
<1>4. G \in SUBSET Nat /\ IsFiniteSet(G) /\ G # {} /\ val \in [G -> Contents]
  <2>1. {} \in Contents
    BY ContentsAre
  <2> QED BY <1>1, <2>1, GroupsAre
<1>5. w.area = area /\ w.val = val
  <2>1. val \in Vals
    BY <1>4, ValsAre
  <2> QED BY <1>2, <1>3, <2>1, RequestIs
<1>6. Put(r.dev, w) = FullMarked(r.dev, NoMem)
  <2>1. \A g \in G : w.val[g] = NoMem.bmap \cap InGroup(g)
    BY <1>1, <1>5 DEF NoMem
  <2>2. DOMAIN w.val = G
    BY <1>4, <1>5
  <2>3. Put(r.dev, w) = Marked(r.dev, NoMem, G)
    BY <1>1, <1>3, <1>5, <2>1, <2>2, PutMarked
  <2> QED BY <1>1, <2>3 DEF FullMarked
<1>7. Put(r.dev, w) \in Device
  BY <1>3, <1>6, FullMarkedIs
<1>8. PICK R : R = AtRisk(r) /\ Led(h, s, r, On(r.dev, R))
  BY DEF Settled
<1>9. PICK d : d = Put(r.dev, w)
  OBVIOUS
<1>10. SafeOnce(h, r.dev, d, w, AtRisk(r))
  BY DEF Safe, Recoverable, SafeOnce
<1>11. /\ q = WriteEach(r, "sync", area, val) /\ d \in Device
  BY <1>1, <1>7, <1>9
<1>12. WroteEach(h, s, q, r, d)
  BY <1>2, <1>3, <1>4, <1>8, <1>9, <1>10, <1>11, EachSync
<1> QED BY <1>6, <1>9, <1>12

LEMMA ClearCsum ==
  ASSUME NEW h, NEW s, NEW r, Settled(h, s, r), AtRisk(r) = Inode,
         NEW q, q = WriteEach(r, "sync", "csum", [g \in Groups |-> [b \in InGroup(g) |-> {}]])
  PROVE  WroteEach(h, s, q, r, Summed(r.dev, NoMem, Groups))
<1>1. PICK val, G, area :
        val = [g \in Groups |-> [b \in InGroup(g) |-> {}]] /\ G = Groups /\ area = "csum"
  OBVIOUS
<1>2. PICK w : w = Request(r, "sync", area, val)
  OBVIOUS
<1>3. r \in Runs /\ r.dev \in Device /\ NoMem \in Memory /\ area \in Written
  <2>1. NoMem \in Memory
    BY DEF NoMem, Memory
  <2> QED BY <1>1, <2>1, SettledStill, StillIs DEF Written
<1>4. G \in SUBSET Nat /\ IsFiniteSet(G) /\ G # {} /\ val \in [G -> Contents]
  <2>1. \A g \in G : val[g] \in Contents
    <3>1. ASSUME NEW g \in G PROVE val[g] \in Contents
      <4>1. PICK S : S = InGroup(g)
        OBVIOUS
      <4>2. val[g] = [b \in S |-> {}] /\ S \in SUBSET Block
        BY <1>1, <3>1, <4>1 DEF InGroup
      <4>3. val[g] \in [S -> SUBSET Bit]
        BY <4>2
      <4> QED BY <4>2, <4>3, ContentsAre
    <3> QED BY <3>1
  <2> QED BY <1>1, <2>1, GroupsAre
<1>5. w.area = area /\ w.val = val
  <2>1. val \in Vals
    BY <1>4, ValsAre
  <2> QED BY <1>2, <1>3, <2>1, RequestIs
<1>6. Put(r.dev, w) = Summed(r.dev, NoMem, Groups)
  <2>1. \A g \in G : \A b \in InGroup(g) : w.val[g][b] = NoMem.csum[b]
    BY <1>1, <1>5 DEF NoMem, InGroup
  <2>2. w.area = "csum" /\ r.dev \in Device /\ DOMAIN w.val = G
    BY <1>1, <1>3, <1>4, <1>5
  <2>3. PICK d, m : d = r.dev /\ m = NoMem
    OBVIOUS
  <2>4. \A g \in G : \A b \in InGroup(g) : w.val[g][b] = m.csum[b]
    BY <2>1, <2>3
  <2>5. d \in Device /\ w.area = "csum" /\ DOMAIN w.val = G
    BY <2>2, <2>3
  <2>6. Put(d, w) = Summed(d, m, G)
    BY <2>4, <2>5, PutSummed
  <2> QED BY <1>1, <2>3, <2>6
<1>7. Put(r.dev, w) \in Device
  BY <1>3, <1>6, SummedDevice
<1>8. PICK R : R = AtRisk(r) /\ Led(h, s, r, On(r.dev, R))
  BY DEF Settled
<1>9. PICK d : d = Put(r.dev, w)
  OBVIOUS
<1>10. SafeOnce(h, r.dev, d, w, AtRisk(r))
  BY DEF Safe, Recoverable, SafeOnce
<1>11. /\ q = WriteEach(r, "sync", area, val) /\ d \in Device
  BY <1>1, <1>7, <1>9
<1>12. WroteEach(h, s, q, r, d)
  BY <1>2, <1>3, <1>4, <1>8, <1>9, <1>10, <1>11, EachSync
<1> QED BY <1>6, <1>9, <1>12

NoNodes == [i \in Inode |-> NoDinode]

LEMMA NoNodesAre ==
  NoNodes \in [Inode -> Dinodes] /\ \A i \in Inode : NoNodes[i] = NoDinode
BY NewDinode DEF NoNodes

LEMMA InodeBlocksAre ==
  /\ InodeBlocks \in SUBSET Nat /\ IsFiniteSet(InodeBlocks)
  /\ InodeBlock(Root) \in InodeBlocks /\ \A g \in InodeBlocks : InodeBlock(Root) <= g
<1>1. PICK f : f = [i \in Inode |-> InodeBlock(i)]
  OBVIOUS
<1>2. IsFiniteSet(Inode)
  <2>1. NInodes \in Nat
    BY VolumeAssumption
  <2> QED BY <2>1, FS_Interval DEF Inode
<1>3. f \in Surjection(Inode, InodeBlocks)
  BY <1>1 DEF InodeBlocks, Surjection
<1>4. IsFiniteSet(InodeBlocks)
  BY <1>2, <1>3, FS_Surjection
<1>5. InodeBlock(Root) = 0
  BY VolumeAssumption DEF InodeBlock, Root
<1>6. InodeBlocks \in SUBSET Nat
  BY Numbers DEF InodeBlocks
<1>7. InodeBlock(Root) \in InodeBlocks
  BY Numbers DEF InodeBlocks
<1> QED BY <1>4, <1>5, <1>6, <1>7

\* The root goes first.
LEMMA ClearNodes ==
  ASSUME NEW h, NEW s, NEW r, NEW R, Led(h, s, r, On(r.dev, R)), AtRisk(r) = {},
         NEW q, q = WriteEach(r, "sync", "inodes",
                              [g \in InodeBlocks |-> [i \in InBlock(g) |-> NoDinode]])
  PROVE  WroteEach(h, s, q, r, Noded(r.dev, NoNodes, Inode))
<1>1. PICK val, G, area :
        /\ val = [g \in InodeBlocks |-> [i \in InBlock(g) |-> NoDinode]]
        /\ G = InodeBlocks /\ area = "inodes"
  OBVIOUS
<1>2. PICK w : w = Request(r, "sync", area, val)
  OBVIOUS
<1>3. r \in Runs /\ r.dev \in Device /\ area \in Written
  BY <1>1 DEF Led, Runs, Written
<1>4. G \in SUBSET Nat /\ IsFiniteSet(G) /\ G # {} /\ val \in [G -> Contents]
  <2>1. \A g \in G : val[g] \in Contents
    <3>1. ASSUME NEW g \in G PROVE val[g] \in Contents
      <4>1. PICK S : S = InBlock(g)
        OBVIOUS
      <4>2. val[g] = [i \in S |-> NoDinode] /\ S \in SUBSET Inode
        BY <1>1, <3>1, <4>1 DEF InBlock
      <4>3. val[g] \in [S -> Dinodes]
        BY <4>2, NewDinode
      <4> QED BY <4>2, <4>3, ContentsAre
    <3> QED BY <3>1
  <2> QED BY <1>1, <2>1, InodeBlocksAre
<1>5. w.area = area /\ w.val = val /\ w \in Requests
  BY <1>2, <1>3, <1>4, ValsAre, RequestIs
<1>6. PICK S : S = Inode
  OBVIOUS
<1>7. Put(r.dev, w) = Noded(r.dev, NoNodes, Inode)
  <2>1. \A g \in DOMAIN w.val :
          w.val[g] = [i \in InBlock(g) |-> IF i \in S THEN NoNodes[i] ELSE r.dev.node[i]]
    <3>1. \A g : InBlock(g) \subseteq Inode
      BY DEF InBlock
    <3> QED BY <1>1, <1>5, <1>6, <3>1, NoNodesAre
  <2>2. \A i \in S : InodeBlock(i) \in DOMAIN w.val
    BY <1>1, <1>5, <1>6 DEF InodeBlocks
  <2>3. Put(r.dev, w) = Noded(r.dev, NoNodes, S)
    BY <1>1, <1>3, <1>5, <1>6, <2>1, <2>2, PutNoded
  <2> QED BY <1>6, <2>3
<1>8. Put(r.dev, w) \in Device
  BY <1>3, <1>7, NodedDevice, NoNodesAre
<1>9. PICK d : d = Put(r.dev, w)
  OBVIOUS
<1>10. SafeOnce(h, r.dev, d, w, AtRisk(r))
  <2>1. ASSUME NEW x \in Device, Begun(x, w) PROVE ~FsExists(x)
    <3>1. PICK n : n = InodeBlock(Root)
      OBVIOUS
    <3>2. n \in DOMAIN w.val /\ \A m \in DOMAIN w.val : n <= m
      BY <1>1, <1>5, <3>1, InodeBlocksAre
    <3>3. PICK p, N : p = Part(w, N) /\ N = {n}
      OBVIOUS
    <3>4. Agrees(x, p)
      BY <2>1, <3>2, <3>3 DEF Begun
    <3>5. p.area = area /\ DOMAIN p.val = {n} /\ p.val[n] = val[n]
      <4>1. N \in SUBSET DOMAIN w.val
        BY <3>2, <3>3
      <4> QED BY <1>5, <3>3, <4>1, PartIs
    <3>6. Hits(p, "inodes", InodeBlock(Root))
      BY <1>1, <3>1, <3>5 DEF Hits
    <3>7. x.node[Root] = p.val[InodeBlock(Root)][Root]
      BY <3>4, <3>6, Numbers DEF Agrees
    <3>8. Root \in InBlock(n) /\ n \in InodeBlocks
      BY <1>1, <1>5, <3>1, <3>2, Numbers DEF InBlock
    <3>9. x.node[Root] = NoDinode
      BY <1>1, <3>1, <3>5, <3>7, <3>8
    <3> QED BY <3>9 DEF FsExists, NoDinode, Dinode
  <2> QED BY <2>1 DEF Safe, Recoverable, SafeOnce
<1>11. /\ q = WriteEach(r, "sync", area, val) /\ d \in Device
  BY <1>1, <1>8, <1>9
<1>12. WroteEach(h, s, q, r, d)
  BY <1>2, <1>3, <1>4, <1>9, <1>10, <1>11, EachSync
<1> QED BY <1>7, <1>9, <1>12

-----------------------------------------------------------------------------
(***************************************************************************)
(* The root made by mkfs.                                                  *)
(***************************************************************************)

\* What memory and the device have in common once both are set up.
Alike(d, m) ==
  d.imap = m.imap /\ d.bmap = m.bmap /\ d.csum = m.csum /\ m.dirty = {}

\* Without a file system, and with the dinode n of the root in memory.
Bare(h, s, r, n) ==
  /\ Still(h, s, r) /\ r.open = {} /\ r.unsaved = {}
  /\ r.dev.node = NoNodes /\ Alike(r.dev, r.mem)
  /\ n \in Dinodes /\ r.ino = [NoNodes EXCEPT ![Root] = n] /\ \A i \in Inode : r.ind[i] = Zero

LEMMA BareIs ==
  ASSUME NEW h, NEW s, NEW r, NEW n, Bare(h, s, r, n)
  PROVE  /\ Still(h, s, r) /\ r \in Runs /\ r.dev \in Device /\ r.mem \in Memory
         /\ AtRisk(r) = {} /\ r.ino[Root] = n /\ n \in Dinodes /\ r.dev.node[Root] = NoDinode
<1>1. r.ino[Root] = n
  BY Numbers, NoNodesAre DEF Bare
<1>2. r.dev.node[Root] = NoDinode
  BY Numbers, NoNodesAre DEF Bare
<1> QED BY <1>1, <1>2, StillIs DEF Bare, AtRisk

\* A write that leaves it so is safe.
LEMMA BareSafe ==
  ASSUME NEW h, NEW d, d.node = NoNodes, NEW R
  PROVE  Safe(h, d, R)
<1>1. d.node[Root] = NoDinode
  BY Numbers, NoNodesAre
<1> QED BY <1>1 DEF Safe, Recoverable, FsExists, NoDinode, Dinode

LEMMA BareLoad ==
  ASSUME NEW h, NEW s, NEW r, Still(h, s, r), r.open = {}, r.unsaved = {},
         r.dev.node = NoNodes, \A i \in Inode : r.ind[i] = Zero,
         NEW q, q = InitSuper(r)
  PROVE  Bare(h, s, q, NoDinode) /\ q.dev = r.dev
<1>1. r \in Runs /\ r.dev \in Device
  BY StillIs
<1>2. PICK m : m = Load(r.dev)
  OBVIOUS
<1>3. m \in Memory /\ Alike(r.dev, m)
  BY <1>1, <1>2 DEF Load, Memory, Device, Alike
<1>4. q = [r EXCEPT !.mem = m, !.ino = r.dev.node]
  BY <1>2 DEF InitSuper
<1>5. /\ q \in Runs /\ q.dev = r.dev /\ q.writes = r.writes /\ q.mem = m /\ q.ino = NoNodes
      /\ q.ind = r.ind /\ q.open = {} /\ q.unsaved = {}
  BY <1>1, <1>3, <1>4, NoNodesAre DEF Runs
<1>6. Still(h, s, q)
  BY <1>5, StillWith
<1>7. [NoNodes EXCEPT ![Root] = NoDinode] = NoNodes
  BY Numbers, NoNodesAre
<1> QED BY <1>3, <1>5, <1>6, <1>7, NewDinode DEF Bare

\* testfs_create_inode of the root.
LEMMA BareCreate ==
  ASSUME NEW h, NEW s, NEW r, Bare(h, s, r, NoDinode), NEW q, q = CreateInode(r, Root, "dir")
  PROVE  /\ Bare(h, s, q, Dinode("dir", 0, 0, 0))
         /\ q.mem.imap = r.mem.imap \cup {Root} /\ q.mem.bmap = r.mem.bmap
<1>1. /\ Still(h, s, r) /\ r \in Runs /\ r.dev \in Device /\ r.mem \in Memory
      /\ AtRisk(r) = {} /\ r.dev.node[Root] = NoDinode
  BY BareIs
<1>2. PICK I : I = r.mem.imap \cup {Root}
  OBVIOUS
<1>3. I \in SUBSET Inode
  BY <1>1, <1>2, Numbers DEF Memory
<1>4. PICK o : o = [r EXCEPT !.mem.imap = I]
  OBVIOUS
<1>5. /\ Same(o, r) /\ o.open = r.open /\ o.unsaved = r.unsaved
      /\ o.mem.imap = I /\ o.mem.bmap = r.mem.bmap /\ o.mem.csum = r.mem.csum
      /\ o.mem.dirty = r.mem.dirty
  BY <1>1, <1>3, <1>4 DEF Runs, Memory, Same
<1>6. Still(h, s, o) /\ o.dev = r.dev /\ o.ino = r.ino /\ o.ind = r.ind
  BY <1>1, <1>5, SameStill DEF Same
<1>7. PICK d : d = Numbered(o.dev, I)
  OBVIOUS
<1>8. d.node = NoNodes /\ d.bmap = r.dev.bmap /\ d.csum = r.dev.csum /\ d.imap = I
  <2>1. d.bmap = o.dev.bmap /\ d.csum = o.dev.csum /\ d.node = o.dev.node /\ d.imap = I
    BY <1>1, <1>6, <1>7, NumberedIs
  <2> QED BY <1>6, <2>1 DEF Bare
<1>9. PICK z : z = WriteSync(o, "imap", 0, I)
  OBVIOUS
<1>10. Wrote(h, s, z, o, d)
  <2>1. Safe(h, Numbered(o.dev, I), AtRisk(o))
    BY <1>7, <1>8, BareSafe
  <2> QED BY <1>3, <1>6, <1>7, <1>9, <2>1, NumberedWrote
<1>11. /\ Still(h, s, z) /\ z.dev = d /\ z.mem = o.mem /\ z.ino = r.ino /\ z.ind = r.ind
       /\ z.open = {} /\ z.unsaved = {} /\ z \in Runs
  BY <1>5, <1>6, <1>10, WroteStill, StillIs DEF Wrote, Bare
<1>12. PICK n : n = Dinode("dir", 0, 0, 0)
  OBVIOUS
<1>13. n \in Dinodes
  BY <1>12 DEF Dinode, Dinodes, BlockPtr
<1>14. q = [z EXCEPT !.ino[Root] = n]
  <2>1. o = [r EXCEPT !.mem.imap = @ \cup {Root}]
    BY <1>2, <1>4
  <2>2. [r.dev.node[Root] EXCEPT !.type = "dir"] = n
    BY <1>1, <1>12 DEF NoDinode, Dinode
  <2>3. o.mem.imap = I
    BY <1>5
  <2> QED BY <1>9, <2>1, <2>2, <2>3 DEF CreateInode
<1>15. /\ q \in Runs /\ q.dev = d /\ q.writes = z.writes /\ q.ind = r.ind /\ q.mem = o.mem
       /\ q.open = {} /\ q.unsaved = {} /\ q.ino = [r.ino EXCEPT ![Root] = n]
  BY <1>11, <1>13, <1>14, Numbers, WithNode
<1>16. Still(h, s, q)
  BY <1>11, <1>15, StillWith
<1>17. Alike(q.dev, q.mem)
  BY <1>5, <1>8, <1>15 DEF Alike, Bare
<1>18. q.ino = [NoNodes EXCEPT ![Root] = n]
  BY <1>15 DEF Bare
<1>19. Bare(h, s, q, n)
  BY <1>8, <1>13, <1>15, <1>16, <1>17, <1>18 DEF Bare
<1> QED BY <1>2, <1>5, <1>12, <1>15, <1>19

\* testfs_allocate_block of the directory.
LEMMA BareAlloc ==
  ASSUME NEW h, NEW s, NEW r, NEW n, Bare(h, s, r, n), r.mem.bmap = {},
         NEW b, b = FirstFreeBlock(r), NEW q, q = AllocateBlock(r, Root, 0)
  PROVE  /\ b \in Block /\ Bare(h, s, q, [n EXCEPT !.direct = b])
         /\ q.mem.imap = r.mem.imap /\ q.mem.bmap = {b}
<1>1. /\ Still(h, s, r) /\ r \in Runs /\ r.dev \in Device /\ r.mem \in Memory
      /\ AtRisk(r) = {} /\ r.ino[Root] = n /\ n \in Dinodes
  BY BareIs
<1>2. b \in Block
  <2>1. 1 \in Block \ r.mem.bmap
    BY VolumeAssumption DEF Block
  <2> QED BY <2>1, FirstFreeIs
<1>3. PICK B : B = r.mem.bmap \cup {b}
  OBVIOUS
<1>4. PICK o : o = [r EXCEPT !.mem.bmap = B]
  OBVIOUS
<1>5. /\ Same(o, r) /\ o.open = r.open /\ o.unsaved = r.unsaved
      /\ o.mem.bmap = B /\ o.mem.imap = r.mem.imap /\ o.mem.csum = r.mem.csum
      /\ o.mem.dirty = r.mem.dirty
  <2>1. B \in SUBSET Block
    BY <1>2, <1>3
  <2> QED BY <1>1, <1>4, <2>1 DEF Runs, Memory, Same
<1>6. Still(h, s, o) /\ o.dev = r.dev /\ o.ino = r.ino /\ o.ind = r.ind
  BY <1>1, <1>5, SameStill DEF Same
<1>7. PICK d : d = Marked(o.dev, o.mem, {Group(b)})
  OBVIOUS
<1>8. d.node = NoNodes /\ d.bmap = B /\ d.csum = r.dev.csum /\ d.imap = r.dev.imap
  <2>1. /\ d.imap = r.dev.imap /\ d.csum = r.dev.csum /\ d.node = r.dev.node
        /\ d.bmap = {c \in Block : IF Group(c) \in {Group(b)} THEN c \in o.mem.bmap
                                   ELSE c \in r.dev.bmap}
    BY <1>1, <1>6, <1>7, MarkedIs
  <2>2. r.dev.bmap = {} /\ o.mem.bmap = {b}
    BY <1>3, <1>5 DEF Bare, Alike
  <2> QED BY <1>2, <1>3, <2>1, <2>2 DEF Bare
<1>9. PICK z : z = WriteBlockFreemap(o, b)
  OBVIOUS
<1>10. Wrote(h, s, z, o, d)
  <2>1. Safe(h, Marked(o.dev, o.mem, {Group(b)}), AtRisk(o))
    BY <1>7, <1>8, BareSafe
  <2>2. Wrote(h, s, WriteBlockFreemap(o, b), o, Marked(o.dev, o.mem, {Group(b)}))
    BY <1>2, <1>6, <2>1, MarkedWrote
  <2> QED BY <1>7, <1>9, <2>2
<1>11. /\ Still(h, s, z) /\ z.dev = d /\ z.mem = o.mem /\ z.ino = r.ino /\ z.ind = r.ind
       /\ z.open = {} /\ z.unsaved = {} /\ z \in Runs
  BY <1>5, <1>6, <1>10, WroteStill, StillIs DEF Wrote, Bare
<1>12. PICK k : k = [n EXCEPT !.direct = b]
  OBVIOUS
<1>13. k \in Dinodes
  BY <1>1, <1>2, <1>12 DEF Dinodes, BlockPtr
<1>14. q = [z EXCEPT !.ino[Root] = k]
  <2>1. q = [AllocBlock(r) EXCEPT !.ino[Root].direct = b]
    BY DEF AllocateBlock
  <2>2. AllocBlock(r) = z
    BY <1>3, <1>4, <1>9 DEF AllocBlock
  <2>3. q = [z EXCEPT !.ino[Root].direct = b]
    BY <2>1, <2>2
  <2>4. [z EXCEPT !.ino[Root].direct = b] = [z EXCEPT !.ino[Root] = [z.ino[Root] EXCEPT !.direct = b]]
    BY <1>11, Numbers DEF Runs
  <2>5. [z.ino[Root] EXCEPT !.direct = b] = k
    BY <1>1, <1>11, <1>12
  <2> QED BY <2>3, <2>4, <2>5
<1>15. /\ q \in Runs /\ q.dev = d /\ q.writes = z.writes /\ q.ind = r.ind /\ q.mem = o.mem
       /\ q.open = {} /\ q.unsaved = {} /\ q.ino = [r.ino EXCEPT ![Root] = k]
  BY <1>11, <1>13, <1>14, Numbers, WithNode
<1>16. Still(h, s, q)
  BY <1>11, <1>15, StillWith
<1>17. Alike(q.dev, q.mem)
  BY <1>5, <1>8, <1>15 DEF Alike, Bare
<1>18. q.ino = [NoNodes EXCEPT ![Root] = k]
  BY <1>15 DEF Bare
<1>19. Bare(h, s, q, k)
  BY <1>8, <1>13, <1>15, <1>16, <1>17, <1>18 DEF Bare
<1> QED BY <1>2, <1>3, <1>5, <1>12, <1>15, <1>19

\* Words written to a block, and the checksum.
LEMMA BareStore ==
  ASSUME NEW h, NEW s, NEW r, NEW n, Bare(h, s, r, n), NEW b \in Block, NEW x \in Seq(Word),
         NEW q, q = Store(r, b, x)
  PROVE  /\ Bare(h, s, q, n) /\ q.mem.imap = r.mem.imap /\ q.mem.bmap = r.mem.bmap
         /\ q.dev.block[b] = x /\ q.mem.csum[b] = Csum(x)
<1>1. /\ Still(h, s, r) /\ r \in Runs /\ r.dev \in Device /\ r.mem \in Memory
      /\ AtRisk(r) = {} /\ r.ino[Root] = n /\ n \in Dinodes
  BY BareIs
<1>2. PICK d : d = Filled(r.dev, b, x)
  OBVIOUS
<1>3. d \in Device /\ d.node = NoNodes /\ d.imap = r.dev.imap /\ d.bmap = r.dev.bmap
      /\ d.csum = r.dev.csum /\ d.block[b] = x
  <2>1. d \in Device
    BY <1>1, <1>2, FilledDevice
  <2>2. /\ d.imap = r.dev.imap /\ d.bmap = r.dev.bmap /\ d.csum = r.dev.csum /\ d.node = r.dev.node
        /\ d.block = [c \in Block |-> IF c = b THEN x ELSE r.dev.block[c]]
    BY <1>1, <1>2, FilledIs
  <2> QED BY <2>1, <2>2 DEF Bare
<1>4. PICK z : z = WriteSync(r, "block", b, x)
  OBVIOUS
<1>5. Wrote(h, s, z, r, d)
  <2>1. Safe(h, Filled(r.dev, b, x), AtRisk(r))
    BY <1>2, <1>3, BareSafe
  <2>2. Wrote(h, s, WriteSync(r, "block", b, x), r, Filled(r.dev, b, x))
    BY <1>1, <2>1, FilledWrote
  <2> QED BY <1>2, <1>4, <2>2
<1>6. /\ Still(h, s, z) /\ z.dev = d /\ z.mem = r.mem /\ z.ino = r.ino /\ z.ind = r.ind
      /\ z.open = {} /\ z.unsaved = {} /\ z \in Runs
  BY <1>5, WroteStill, StillIs DEF Wrote, Bare
<1>7. PICK c, p : c = Csum(x) /\ p = [z EXCEPT !.mem.csum[b] = c]
  OBVIOUS
<1>8. c \in SUBSET Bit
  BY <1>7 DEF Csum
<1>9. /\ Same(p, z) /\ p.open = z.open /\ p.unsaved = z.unsaved
      /\ p.mem.csum = [z.mem.csum EXCEPT ![b] = c]
      /\ p.mem.bmap = z.mem.bmap /\ p.mem.imap = z.mem.imap /\ p.mem.dirty = z.mem.dirty
  BY <1>6, <1>7, <1>8 DEF Runs, Memory, Same
<1>10. Still(h, s, p) /\ p.dev = d /\ p.ino = r.ino /\ p.ind = r.ind
  BY <1>6, <1>9, SameStill DEF Same
<1>11. PICK e : e = Summed(p.dev, p.mem, {Group(b)})
  OBVIOUS
<1>12. /\ e.node = NoNodes /\ e.imap = r.dev.imap /\ e.bmap = r.dev.bmap /\ e.block = d.block
       /\ e.csum = p.mem.csum
  <2>1. /\ e.node = NoNodes /\ e.imap = r.dev.imap /\ e.bmap = r.dev.bmap /\ e.block = d.block
        /\ e.csum = [a \in Block |-> IF Group(a) \in {Group(b)} THEN p.mem.csum[a] ELSE d.csum[a]]
    BY <1>3, <1>10, <1>11, SummedIs
  <2>2. p.mem.csum \in [Block -> SUBSET Bit]
    BY <1>10, StillIs DEF Memory
  <2>3. \A a \in Block : a # b => p.mem.csum[a] = d.csum[a]
    BY <1>1, <1>3, <1>6, <1>9 DEF Memory, Bare, Alike
  <2>4. \A a \in Block : (IF Group(a) \in {Group(b)} THEN p.mem.csum[a] ELSE d.csum[a]) = p.mem.csum[a]
    BY <2>3
  <2> QED BY <2>1, <2>2, <2>4
<1>13. q = WriteSync(p, "csum", Group(b), CsumOf(p, Group(b)))
  BY <1>4, <1>7 DEF Store, PutCsum
<1>14. Wrote(h, s, q, p, e)
  <2>1. Safe(h, Summed(p.dev, p.mem, {Group(b)}), AtRisk(p))
    BY <1>11, <1>12, BareSafe
  <2> QED BY <1>10, <1>11, <1>13, <2>1, SummedWrote
<1>15. /\ Still(h, s, q) /\ q.dev = e /\ q.mem = p.mem /\ q.ino = r.ino /\ q.ind = r.ind
       /\ q.open = {} /\ q.unsaved = {}
  BY <1>6, <1>9, <1>10, <1>14, WroteStill DEF Wrote
<1>16. Alike(q.dev, q.mem)
  BY <1>6, <1>9, <1>12, <1>15 DEF Alike, Bare
<1>17. Bare(h, s, q, n)
  BY <1>12, <1>15, <1>16 DEF Bare
<1>18. q.mem.csum[b] = Csum(x)
  BY <1>1, <1>6, <1>7, <1>9, <1>15 DEF Memory
<1> QED BY <1>3, <1>6, <1>9, <1>12, <1>15, <1>17, <1>18

LEMMA BareGrow ==
  ASSUME NEW h, NEW s, NEW r, NEW n, Bare(h, s, r, n), n.type = "dir", NEW size \in Nat, n.size < size,
         NEW q, q = GrowTo(r, Root, size)
  PROVE  Bare(h, s, q, [n EXCEPT !.size = size]) /\ q.mem = r.mem /\ q.dev = r.dev
<1>1. Still(h, s, r) /\ r \in Runs /\ r.ino[Root] = n /\ n \in Dinodes
  BY BareIs
<1>2. PICK k : k = [n EXCEPT !.size = size]
  OBVIOUS
<1>3. k \in Dinodes
  BY <1>1, <1>2 DEF Dinodes
<1>4. q = [r EXCEPT !.ino[Root] = k]
  <2>1. q = [r EXCEPT !.ino[Root].size = size]
    BY <1>1 DEF GrowTo
  <2>2. [r EXCEPT !.ino[Root].size = size]
          = [r EXCEPT !.ino[Root] = [r.ino[Root] EXCEPT !.size = size]]
    BY <1>1, Numbers DEF Runs
  <2> QED BY <1>1, <1>2, <2>1, <2>2
<1>5. /\ q \in Runs /\ q.dev = r.dev /\ q.writes = r.writes /\ q.ind = r.ind /\ q.mem = r.mem
      /\ q.open = r.open /\ q.unsaved = r.unsaved /\ q.ino = [r.ino EXCEPT ![Root] = k]
  <2>1. PICK i : i = Root
    OBVIOUS
  <2>2. i \in Inode /\ q = [r EXCEPT !.ino[i] = k]
    BY <1>4, <2>1, Numbers
  <2>3. /\ q \in Runs /\ q.dev = r.dev /\ q.writes = r.writes /\ q.ind = r.ind /\ q.mem = r.mem
        /\ q.open = r.open /\ q.unsaved = r.unsaved /\ q.ino = [r.ino EXCEPT ![i] = k]
    <3>1. r \in Runs /\ k \in Dinodes
      BY <1>1, <1>3
    <3> QED BY ONLY <2>2, <3>1 DEF Runs
  <2> QED BY <2>1, <2>3
<1>6. Still(h, s, q)
  BY <1>1, <1>5, StillWith
<1>7. q.ino = [NoNodes EXCEPT ![Root] = k]
  BY <1>5 DEF Bare
<1>8. Bare(h, s, q, k)
  BY <1>3, <1>5, <1>6, <1>7 DEF Bare
<1> QED BY <1>2, <1>5, <1>8

\* The directory in block b has as many entries as the words in it.
Made(r, n, b, words, size) ==
  /\ n = Dinode("dir", size, b, 0) /\ b \in Block /\ words \in Seq(Word) /\ Len(words) = size
  /\ r.mem.bmap = {b} /\ r.mem.imap = {Root}
  /\ r.dev.block[b] = words /\ r.mem.csum[b] = Csum(words)
  /\ \A k \in 1 .. size : words[k] = Root

LEMMA RootIsNoEntry ==
  Root \in Word /\ Root # Removed /\ Root \notin File
<1>1. Removed \in Nat \ {0}
  BY VolumeAssumption, NumbersAreWords DEF Word, Removed
<1> QED BY <1>1 DEF Word, Root, File

\* The first entry.
LEMMA FirstDirent ==
  ASSUME NEW h, NEW s, NEW r, NEW n, n = Dinode("dir", 0, 0, 0), Bare(h, s, r, n),
         r.mem.bmap = {}, r.mem.imap = {Root}, NEW q, q = AddDirent(r, Root)
  PROVE  \E k, b, words : Bare(h, s, q, k) /\ Made(q, k, b, words, 1)
<1>1. Still(h, s, r) /\ r \in Runs /\ r.ino[Root] = n /\ n \in Dinodes /\ n.direct = 0 /\ n.size = 0
  BY BareIs DEF Dinode
<1>2. Mapped(r, Root, 0) = 0
  BY <1>1 DEF Mapped
<1>3. PICK words : words = <<Root>>
  OBVIOUS
<1>4. words \in Seq(Word) /\ Len(words) = 1 /\ words[1] = Root
  BY <1>3, RootIsNoEntry
<1>5. PICK a : a = AllocateBlock(r, Root, 0)
  OBVIOUS
<1>6. PICK b : b = FirstFreeBlock(r)
  OBVIOUS
<1>7. PICK m : m = [n EXCEPT !.direct = b]
  OBVIOUS
<1>8. b \in Block /\ Bare(h, s, a, m) /\ a.mem.imap = r.mem.imap /\ a.mem.bmap = {b}
  BY <1>5, <1>6, <1>7, BareAlloc
<1>9. PICK z : z = Store(a, b, words)
  OBVIOUS
<1>10. /\ Bare(h, s, z, m) /\ z.mem.imap = a.mem.imap /\ z.mem.bmap = a.mem.bmap
       /\ z.dev.block[b] = words /\ z.mem.csum[b] = Csum(words)
  BY <1>4, <1>8, <1>9, BareStore
<1>11. q = GrowTo(z, Root, 1)
  <2>1. q = WriteDirent(r, 1, Root)
    BY <1>1, <1>2 DEF AddDirent
  <2>2. q = GrowTo(WriteBlock(r, Root, 0, words), Root, 1)
    BY <1>2, <1>3, <2>1 DEF WriteDirent, Zero
  <2>3. Mapped(a, Root, 0) = b
    <3>1. a.ino[Root] = m
      BY <1>8, BareIs
    <3> QED BY <1>1, <1>7, <3>1 DEF Mapped, Dinodes
  <2>4. WriteBlock(r, Root, 0, words) = z
    BY <1>2, <1>5, <1>9, <2>3 DEF WriteBlock, Store
  <2> QED BY <2>2, <2>4
<1>12. m.type = "dir" /\ m.size = 0 /\ m = Dinode("dir", 0, b, 0)
  BY <1>7 DEF Dinode
<1>13. PICK k, one : k = [m EXCEPT !.size = one] /\ one = 1
  OBVIOUS
<1>14. Bare(h, s, q, k) /\ q.mem = z.mem /\ q.dev = z.dev
  BY <1>10, <1>11, <1>12, <1>13, BareGrow
<1>15. k = Dinode("dir", 1, b, 0)
  BY <1>12, <1>13 DEF Dinode
<1>16. Made(q, k, b, words, 1)
  BY <1>4, <1>8, <1>10, <1>14, <1>15 DEF Made
<1> QED BY <1>14, <1>16

\* The second.
LEMMA SecondDirent ==
  ASSUME NEW h, NEW s, NEW r, NEW n, Bare(h, s, r, n), NEW b, NEW old, Made(r, n, b, old, 1),
         NEW q, q = AddDirent(r, Root)
  PROVE  \E k, words : Bare(h, s, q, k) /\ Made(q, k, b, words, 2)
<1>1. /\ Still(h, s, r) /\ r \in Runs /\ r.ino[Root] = n /\ n \in Dinodes
      /\ n.direct = b /\ n.size = 1 /\ n.type = "dir"
  BY BareIs DEF Dinode, Made
<1>2. Mapped(r, Root, 0) = b /\ b # 0 /\ b \in Block
  BY <1>1, NumbersAreWords DEF Mapped, Made
<1>3. PICK words : words = Append(old, Root)
  OBVIOUS
<1>4. words \in Seq(Word) /\ Len(words) = 2 /\ words[1] = Root /\ words[2] = Root
  <2>1. old \in Seq(Word) /\ Len(old) = 1 /\ old[1] = Root
    BY DEF Made
  <2> QED BY <1>3, <2>1, RootIsNoEntry
<1>5. PICK z : z = Store(r, b, words)
  OBVIOUS
<1>6. /\ Bare(h, s, z, n) /\ z.mem.imap = r.mem.imap /\ z.mem.bmap = r.mem.bmap
      /\ z.dev.block[b] = words /\ z.mem.csum[b] = Csum(words)
  BY <1>2, <1>4, <1>5, BareStore
<1>7. q = GrowTo(z, Root, 2)
  <2>1. q = WriteDirent(r, 2, Root)
    <3>1. {k \in 1 .. r.ino[Root].size : r.dev.block[b][k] = Removed} = {}
      BY <1>1, RootIsNoEntry DEF Made
    <3> QED BY <1>1, <1>2, <3>1 DEF AddDirent
  <2>2. q = GrowTo(WriteBlock(r, Root, 0, words), Root, 2)
    <3>1. r.dev.block[b] = old /\ Len(old) = 1
      BY DEF Made
    <3>2. PICK k : k = 2
      OBVIOUS
    <3>3. PICK new : new = IF k > Len(old) THEN Append(old, Root) ELSE [old EXCEPT ![k] = Root]
      OBVIOUS
    <3>4. new = words
      BY <1>3, <3>1, <3>2, <3>3
    <3>5. WriteDirent(r, k, Root) = GrowTo(WriteBlock(r, Root, 0, new), Root, k)
      BY <1>2, <3>1, <3>3 DEF WriteDirent
    <3> QED BY <2>1, <3>2, <3>4, <3>5
  <2>3. WriteBlock(r, Root, 0, words) = z
    BY <1>2, <1>5 DEF WriteBlock, Store
  <2> QED BY <2>2, <2>3
<1>8. PICK k, two : k = [n EXCEPT !.size = two] /\ two = 2
  OBVIOUS
<1>9. Bare(h, s, q, k) /\ q.mem = z.mem /\ q.dev = z.dev
  BY <1>1, <1>6, <1>7, <1>8, BareGrow
<1>10. k = Dinode("dir", 2, b, 0)
  BY <1>8 DEF Made, Dinode
<1>11. Made(q, k, b, words, 2)
  BY <1>2, <1>4, <1>6, <1>9, <1>10 DEF Made
<1> QED BY <1>9, <1>11

\* The device d has the root alone, memory its block and its number.
OnlyRoot(d, m, b, words) ==
  /\ b \in Block /\ words \in Seq(Word) /\ Len(words) = 2 /\ \A k \in 1 .. 2 : words[k] = Root
  /\ d.node = [NoNodes EXCEPT ![Root] = Dinode("dir", 2, b, 0)] /\ d.block[b] = words
  /\ d.imap = {Root} /\ d.bmap = {b}
  /\ m.imap = {Root} /\ m.bmap = {b} /\ m.csum[b] = Csum(words)

LEMMA OnlyRootIs ==
  ASSUME NEW d \in Device, NEW m, NEW b, NEW words, OnlyRoot(d, m, b, words), NEW h
  PROVE  Consistent(d, m, {}, {}, {}, h) /\ Entries(d) = {}
<1>0. /\ b \in Block /\ words \in Seq(Word) /\ Len(words) = 2 /\ \A k \in 1 .. 2 : words[k] = Root
      /\ d.block[b] = words /\ d.imap = {Root} /\ d.bmap = {b}
      /\ m.imap = {Root} /\ m.bmap = {b} /\ m.csum[b] = Csum(words)
  BY DEF OnlyRoot
<1>1. /\ d.node[Root].type = "dir" /\ d.node[Root].direct = b /\ d.node[Root].indirect = 0
      /\ d.node[Root].size = 2 /\ b # 0
  BY <1>0, Numbers, NoNodesAre, NumbersAreWords DEF Dinode, OnlyRoot
<1>2. Entries(d) = {} /\ Reached(d) = {Root} /\ FsExists(d)
  BY <1>0, <1>1, RootIsNoEntry DEF Entries, Reached, FsExists
<1>3. DataBlocks(d, Root) = {b} /\ BlocksOf(d, Root) = {b}
  BY <1>1 DEF DataBlocks, BlocksOf, Indirected
<1>4. DirOK(d)
  <2>1. \A j \in 1 .. 2 : words[j] \notin File
    BY <1>0, RootIsNoEntry
  <2>2. d.node[Root].size = 2 /\ d.block[d.node[Root].direct] = words
    BY <1>0, <1>1
  <2>3. PICK root : root = d.node[Root]
    OBVIOUS
  <2>4. /\ root.type = "dir" /\ root.direct \in Block /\ root.indirect = 0
        /\ root.size = 2 /\ d.block[root.direct] = words /\ root.size <= Len(words)
    BY <1>0, <1>1, <2>2, <2>3
  <2>5. \A j, k \in 1 .. root.size : words[j] = words[k] /\ words[j] \in File => j = k
    BY <2>1, <2>4
  <2> QED BY <2>3, <2>4, <2>5 DEF DirOK
<1>5. \A i \in Inode \ {Root} : d.node[i] = NoDinode
  BY Numbers, NoNodesAre DEF OnlyRoot
<1>6. PICK Z : Z = {}
  OBVIOUS
<1>7. Sound(d, m.bmap, Z)
  BY <1>0, <1>2, <1>3, <1>4, <1>5, <1>6 DEF Sound
<1>8. Consistent(d, m, Z, Z, Z, h)
  BY <1>0, <1>2, <1>3, <1>6, <1>7 DEF Consistent
<1> QED BY <1>2, <1>6, <1>8

\* The run q has made a volume.
HasMade(h, s, q) ==
  /\ AtRest(h, s, q, {}) /\ Settled(h, s, q) /\ q.writes # <<>>
  /\ Alike(q.dev, q.mem) /\ Entries(q.dev) = {}
  /\ q.mem.imap = {Root} /\ \E b \in Block : q.mem.bmap = {b}

LEMMA RootSynced ==
  ASSUME NEW h, NEW s, NEW r, NEW n, NEW b, NEW words, Bare(h, s, r, n), Made(r, n, b, words, 2),
         NEW q, q = SyncInode(r, Root)
  PROVE  HasMade(h, s, q)
<1>1. /\ Still(h, s, r) /\ r \in Runs /\ r.dev \in Device /\ r.mem \in Memory /\ n \in Dinodes
  BY BareIs
<1>2. r.ino = [NoNodes EXCEPT ![Root] = n] /\ r.dev.node = NoNodes /\ Alike(r.dev, r.mem)
      /\ r.ind[Root] = Zero /\ r.open = {} /\ r.unsaved = {} /\ \A i \in Inode : r.ind[i] = Zero
  BY Numbers DEF Bare
<1>3. PICK d : d = Noded(r.dev, r.ino, {Root})
  OBVIOUS
<1>4. /\ d \in Device /\ d.imap = r.dev.imap /\ d.bmap = r.dev.bmap /\ d.csum = r.dev.csum
      /\ d.block = r.dev.block
      /\ d.node = [i \in Inode |-> IF i \in {Root} THEN r.ino[i] ELSE r.dev.node[i]]
  <2>1. r.ino \in [Inode -> Dinodes]
    BY <1>1 DEF Runs
  <2> QED BY <1>1, <1>3, <2>1, NodedDevice, NodedIs
<1>5. d.node = r.ino
  <2>1. r.ino \in [Inode -> Dinodes] /\ \A i \in Inode : i # Root => r.ino[i] = r.dev.node[i]
    BY <1>1, <1>2, NoNodesAre DEF Runs
  <2> QED BY <1>4, <2>1
<1>6. PICK Z : Z = {}
  OBVIOUS
<1>7. Consistent(d, r.mem, Z, Z, Z, h) /\ Entries(d) = {}
  <2>1. /\ d.node = [NoNodes EXCEPT ![Root] = Dinode("dir", 2, b, 0)] /\ d.block[b] = words
        /\ d.imap = {Root} /\ d.bmap = {b} /\ r.mem.imap = {Root} /\ r.mem.bmap = {b}
    BY <1>2, <1>4, <1>5 DEF Made, Alike
  <2>2. /\ b \in Block /\ words \in Seq(Word) /\ Len(words) = 2
        /\ r.mem.csum[b] = Csum(words) /\ \A k \in 1 .. 2 : words[k] = Root
    BY DEF Made
  <2>3. OnlyRoot(d, r.mem, b, words)
    BY <2>1, <2>2 DEF OnlyRoot
  <2> QED BY <1>4, <1>6, <2>3, OnlyRootIs
<1>8. Mirror(r.dev, r.mem)
  BY <1>2 DEF Mirror, Alike
<1>9. /\ Holds(h, s, q, Z, Z, Z) /\ Settled(h, s, q) /\ HasSynced(q, r, Root)
  <2>1. PICK i : i = Root
    OBVIOUS
  <2>2. Fits(Noded(r.dev, r.ino, {i}), Z, Z, (r.open \ {i}) \cup r.unsaved)
    BY <1>2, <1>6 DEF Fits
  <2>3. Consistent(Noded(r.dev, r.ino, {i}), r.mem, Z, Z, Z, h) /\ r.ind[i] = Zero /\ i \in Inode
    BY <1>2, <1>3, <1>7, <2>1, Numbers
  <2>4. /\ Holds(h, s, SyncInode(r, i), Z, Z, Z) /\ Settled(h, s, SyncInode(r, i))
        /\ HasSynced(SyncInode(r, i), r, i)
    BY <1>1, <1>8, <2>2, <2>3, SyncInodeHolds
  <2> QED BY <2>1, <2>4
<1>10. /\ q.dev = d /\ q.mem = r.mem /\ q.ino = r.ino /\ q.ind = r.ind /\ q.writes # <<>>
       /\ q.open = {} /\ q.unsaved = {}
  BY <1>2, <1>3, <1>9 DEF HasSynced
<1>11. AtRest(h, s, q, {})
  BY <1>2, <1>5, <1>6, <1>9, <1>10 DEF AtRest
<1>12. Alike(q.dev, q.mem)
  BY <1>2, <1>4, <1>10 DEF Alike
<1>13. q.mem.imap = {Root} /\ \E c \in Block : q.mem.bmap = {c}
  BY <1>10 DEF Made
<1> QED BY <1>7, <1>9, <1>10, <1>11, <1>12, <1>13 DEF HasMade

LEMMA MakeRootHolds ==
  ASSUME NEW h, NEW s, NEW r, Bare(h, s, r, NoDinode), r.mem.bmap = {}, r.mem.imap = {},
         NEW q, q = MakeRoot(r)
  PROVE  HasMade(h, s, q)
<1>1. PICK v, w, z : v = CreateInode(r, Root, "dir") /\ w = AddDirent(v, Root) /\ z = AddDirent(w, Root)
  OBVIOUS
<1>2. q = SyncInode(z, Root)
  BY <1>1 DEF MakeRoot
<1>3. PICK n : n = Dinode("dir", 0, 0, 0)
  OBVIOUS
<1>4. Bare(h, s, v, n) /\ v.mem.imap = {Root} /\ v.mem.bmap = {}
  BY <1>1, <1>3, BareCreate
<1>5. PICK k, b, old : Bare(h, s, w, k) /\ Made(w, k, b, old, 1)
  BY <1>1, <1>3, <1>4, FirstDirent
<1>6. PICK l, words : Bare(h, s, z, l) /\ Made(z, l, b, words, 2)
  BY <1>1, <1>5, SecondDirent
<1> QED BY <1>2, <1>6, RootSynced

\* What is loaded is what memory has.
LEMMA ReloadSame ==
  ASSUME NEW r \in Runs, Alike(r.dev, r.mem), r.ino = r.dev.node, NEW q, q = InitSuper(r)
  PROVE  q = r
<1>1. Load(r.dev) = r.mem
  <2>1. r.mem \in Memory
    BY DEF Runs
  <2> QED BY <2>1 DEF Load, Memory, Alike
<1>2. q = [r EXCEPT !.mem = r.mem, !.ino = r.ino]
  BY <1>1 DEF InitSuper
<1> QED BY <1>2 DEF Runs

\* testfs_flush_super_block leaves it made.
LEMMA MadeFlushed ==
  ASSUME NEW h, NEW s, NEW r, HasMade(h, s, r), NEW q, q = FlushSuper(r)
  PROVE  HasMade(h, s, q)
<1>1. PICK Z : Z = {}
  OBVIOUS
<1>2. AtRest(h, s, r, Z)
  BY <1>1 DEF HasMade
<1>3. FlushedRest(h, s, q, r)
  BY <1>2, FlushSuperHolds
<1>4. AtRest(h, s, q, {}) /\ Settled(h, s, q) /\ q.writes # <<>> /\ q.mem = r.mem
      /\ q.dev = FullMarked(r.dev, r.mem)
  BY <1>3 DEF FlushedRest
<1>5. r.dev \in Device /\ r.mem \in Memory
  BY <1>2, AtRestIs
<1>6. /\ q.dev.bmap = r.mem.bmap /\ q.dev.imap = r.dev.imap /\ q.dev.csum = r.dev.csum
      /\ q.dev.node = r.dev.node /\ q.dev.block = r.dev.block
  BY <1>4, <1>5, FullMarkedIs
<1>7. Entries(q.dev) = Entries(r.dev)
  BY <1>6 DEF Entries
<1>8. Alike(q.dev, q.mem)
  BY <1>4, <1>6 DEF HasMade, Alike
<1> QED BY <1>4, <1>7, <1>8 DEF HasMade

LEMMA MkfsHolds ==
  ASSUME NEW h, NEW s, NEW r, Still(h, s, r), r.open = {}, \A i \in Inode : r.ind[i] = Zero,
         NEW q, q = Mkfs(r)
  PROVE  HasMade(h, s, q)
<1>1. r \in Runs
  BY StillIs
<1>2. PICK o : o = [r EXCEPT !.unsaved = Inode]
  OBVIOUS
<1>3. /\ Same(o, r) /\ o.open = {} /\ o.unsaved = Inode /\ AtRisk(o) = Inode
  BY <1>1, <1>2 DEF Runs, Same, AtRisk
<1>4. Still(h, s, o) /\ o.dev = r.dev /\ o.ind = r.ind
  BY <1>1, <1>3, SameStill DEF Same
<1>5. PICK I, i : i = WriteSync(o, "imap", 0, I) /\ I = {}
  OBVIOUS
<1>6. Wrote(h, s, i, o, Numbered(o.dev, I))
  <2>1. Safe(h, Numbered(o.dev, I), AtRisk(o)) /\ I \in SUBSET Inode
    BY <1>3, <1>5 DEF Safe, Recoverable
  <2> QED BY <1>4, <1>5, <2>1, NumberedWrote
<1>7. /\ Settled(h, s, i) /\ AtRisk(i) = Inode /\ i.dev = Numbered(o.dev, I)
      /\ i.ind = r.ind /\ i.open = {} /\ i.unsaved = Inode
  BY ZenonT(40), <1>3, <1>4, <1>6, WroteSettled DEF Wrote
<1>8. PICK b : b = WriteEach(i, "sync", "bmap", [g \in Groups |-> {}])
  OBVIOUS
<1>9. WroteEach(h, s, b, i, FullMarked(i.dev, NoMem))
  BY <1>7, <1>8, ClearBmap
<1>10. /\ Settled(h, s, b) /\ AtRisk(b) = Inode /\ b.dev = FullMarked(i.dev, NoMem)
       /\ b.ind = r.ind /\ b.open = {} /\ b.unsaved = Inode
  BY <1>7, <1>9 DEF WroteEach, Settled, AtRisk
<1>11. PICK c : c = WriteEach(b, "sync", "csum", [g \in Groups |-> [a \in InGroup(g) |-> {}]])
  OBVIOUS
<1>12. WroteEach(h, s, c, b, Summed(b.dev, NoMem, Groups))
  BY <1>10, <1>11, ClearCsum
<1>13. /\ Settled(h, s, c) /\ c.dev = Summed(b.dev, NoMem, Groups)
       /\ c.ind = r.ind /\ c.open = {} /\ c \in Runs
  <2>1. Settled(h, s, c) /\ c.dev = Summed(b.dev, NoMem, Groups) /\ c.ind = r.ind /\ c.open = {}
    BY <1>10, <1>12 DEF WroteEach, Settled, AtRisk
  <2> QED BY <2>1, SettledStill, StillIs
<1>14. PICK v : v = Saved(c)
  OBVIOUS
<1>15. Same(v, c) /\ v.open = {} /\ v.unsaved = {} /\ AtRisk(v) = {}
  BY <1>13, <1>14, SavedIs DEF AtRisk
<1>16. PICK R : Led(h, s, v, On(v.dev, R))
  <2>1. Still(h, s, v)
    BY <1>13, <1>15, SettledStill, SameStill
  <2> QED BY <2>1 DEF Still
<1>17. PICK z : z = WriteEach(v, "sync", "inodes",
                              [g \in InodeBlocks |-> [j \in InBlock(g) |-> NoDinode]])
  OBVIOUS
<1>18. WroteEach(h, s, z, v, Noded(v.dev, NoNodes, Inode))
  BY <1>15, <1>16, <1>17, ClearNodes
<1>19. /\ Settled(h, s, z) /\ z.dev = Noded(v.dev, NoNodes, Inode)
       /\ z.open = {} /\ z.unsaved = {} /\ z.ind = r.ind
  BY <1>13, <1>15, <1>18 DEF WroteEach, Settled, AtRisk, Same
<1>20. z.dev.node = NoNodes /\ z.dev.imap = {} /\ z.dev.bmap = {}
  <2>1. o.dev \in Device /\ i.dev \in Device /\ b.dev \in Device /\ c.dev \in Device /\ v.dev = c.dev
    BY <1>4, <1>7, <1>10, <1>13, <1>15, SettledStill, StillIs DEF Same
  <2>2. i.dev.imap = {}
    BY <1>5, <1>7, <2>1, NumberedIs
  <2>3. NoMem \in Memory /\ NoMem.bmap = {}
    BY DEF NoMem, Memory
  <2>4. b.dev.imap = {} /\ b.dev.bmap = {}
    BY <1>10, <2>1, <2>2, <2>3, FullMarkedIs
  <2>5. c.dev.imap = {} /\ c.dev.bmap = {}
    <3>1. PICK n, d, e : n = NoMem /\ d = b.dev /\ e = Summed(d, n, Groups)
      OBVIOUS
    <3>2. d \in Device
      BY <2>1, <3>1
    <3>3. e.imap = d.imap /\ e.bmap = d.bmap
      BY ONLY <3>1, <3>2 DEF Summed, Device
    <3> QED BY <1>13, <2>4, <3>1, <3>2, <3>3
  <2>6. z.dev.imap = {} /\ z.dev.bmap = {}
    <3>1. PICK n, d, e : n = NoNodes /\ d = v.dev /\ e = Noded(d, n, Inode)
      OBVIOUS
    <3>2. d \in Device
      BY <2>1, <3>1
    <3>3. e.imap = d.imap /\ e.bmap = d.bmap
      BY ONLY <3>1, <3>2 DEF Noded, Device
    <3> QED BY <1>19, <2>1, <2>5, <3>1, <3>2, <3>3
  <2>7. z.dev.node = [j \in Inode |-> IF j \in Inode THEN NoNodes[j] ELSE v.dev.node[j]]
    BY <1>19, <2>1, NodedIs
  <2> QED BY <2>6, <2>7, NoNodesAre
<1>21. PICK a : a = InitSuper(z)
  OBVIOUS
<1>22. Bare(h, s, a, NoDinode) /\ a.dev = z.dev
  <2>1. Still(h, s, z) /\ \A j \in Inode : z.ind[j] = Zero
    BY <1>19, SettledStill
  <2> QED BY <1>19, <1>20, <1>21, <2>1, BareLoad
<1>23. a.mem.bmap = {} /\ a.mem.imap = {}
  BY <1>20, <1>22 DEF Bare, Alike
<1>24. PICK m, f : m = MakeRoot(a) /\ f = FlushSuper(m)
  OBVIOUS
<1>25. HasMade(h, s, m)
  BY <1>22, <1>23, <1>24, MakeRootHolds
<1>26. HasMade(h, s, f)
  BY <1>24, <1>25, MadeFlushed
<1>27. q = InitSuper(f)
  <2>1. i = WriteSync(o, "imap", 0, {})
    BY <1>5
  <2>2. v = [c EXCEPT !.unsaved = {}]
    BY <1>14 DEF Saved
  <2>3. PICK V : V = [g \in InodeBlocks |-> [j \in InBlock(g) |-> NoDinode]]
    OBVIOUS
  <2>4. PICK C : C = [g \in Groups |-> [x \in InGroup(g) |-> {}]]
    OBVIOUS
  <2>5. PICK B : B = [g \in Groups |-> {}]
    OBVIOUS
  <2>6. Mkfs(r) = InitSuper(FlushSuper(MakeRoot(InitSuper(
          WriteEach([WriteEach(WriteEach(WriteSync([r EXCEPT !.unsaved = Inode], "imap", 0, {}),
                                         "sync", "bmap", B), "sync", "csum", C) EXCEPT !.unsaved = {}],
                    "sync", "inodes", V)))))
    BY <2>3, <2>4, <2>5 DEF Mkfs
  <2> QED BY <1>2, <1>8, <1>11, <1>17, <1>21, <1>24, <2>1, <2>2, <2>3, <2>4, <2>5, <2>6
<1>28. q = f
  <2>1. f \in Runs /\ Alike(f.dev, f.mem) /\ f.ino = f.dev.node
    <3>1. AtRest(h, s, f, {})
      BY <1>26 DEF HasMade
    <3>2. f \in Runs /\ f.ino = f.dev.node
      BY <3>1, StillIs DEF AtRest, Holds
    <3> QED BY <1>26, <3>2 DEF HasMade
  <2> QED BY <1>27, <2>1, ReloadSame
<1> QED BY <1>26, <1>28

-----------------------------------------------------------------------------
(***************************************************************************)
(* A command that starts afresh, whatever happened before.                 *)
(***************************************************************************)
LEMMA GoesAfresh ==
  ASSUME NEW h, NEW w, NEW s, NEW t, Goes({}, w, s, t)
  PROVE  Goes(h, w, s, t)
BY DEF Goes, Secure

LEMMA LeadsAfresh ==
  ASSUME NEW h, NEW q, NEW s, NEW u, Leads({}, q, s, u)
  PROVE  Leads(h, q, s, u)
<1>1. PICK f : Plan({}, q, f) /\ f[0] = s /\ f[Len(q)] = u
  BY DEF Leads
<1>2. \A k \in 1 .. Len(q) : Goes(h, q[k], f[k - 1], f[k])
  BY <1>1, GoesAfresh DEF Plan
<1>3. Plan(h, q, f)
  BY <1>1, <1>2 DEF Plan
<1> QED BY <1>1, <1>3 DEF Leads

LEMMA NowAfresh ==
  ASSUME IInv, Ready
  PROVE  /\ Still({}, On(dev, risk), Now) /\ Now.open = {} /\ \A i \in Inode : Now.ind[i] = Zero
<1>1. PICK s, r : s = On(dev, risk) /\ r = Now
  OBVIOUS
<1>2. Led(history, s, r, On(r.dev, risk)) /\ r.dev = dev
  <2>1. Settled(history, s, r) /\ AtRisk(r) = risk /\ r.dev = dev
    BY <1>1, NowIs
  <2> QED BY <2>1 DEF Settled
<1>3. r.writes = <<>>
  BY <1>1 DEF Now, RunFrom
<1>4. s \in Points /\ s = On(r.dev, risk)
  BY <1>1, <1>2 DEF Led
<1>5. Leads({}, r.writes, s, s)
  BY <1>3, <1>4, LeadsNowhere
<1>6. Led({}, s, r, On(r.dev, risk))
  BY <1>2, <1>4, <1>5 DEF Led
<1> QED BY <1>1, <1>6, NowIs DEF Still

\* The history starts again with the volume that such a command leaves.
LEMMA AfreshInv ==
  ASSUME IInv, Ready, NEW name \in {"mkfs", "bench"}, NEW size \in Nat, NEW q,
         Execute(name, size, q), NEW R, AtRest({}, On(dev, risk), q, R),
         Settled({}, On(dev, risk), q), q.writes # <<>>,
         name = "bench" => Durable(q.dev, q.mem, size)
  PROVE  IInv'
<1>1. PICK h, s, u : h = {} /\ s = On(dev, risk) /\ u = On(q.dev, R)
  OBVIOUS
<1>2. AtRest(h, s, q, R) /\ Settled(h, s, q)
  BY <1>1
<1>3. /\ Consistent(q.dev, q.mem, R, {}, {}, h) /\ Mirror(q.dev, q.mem) /\ q \in Runs
      /\ q.dev \in Device /\ AtRisk(q) = R
  BY <1>2, AtRestIs
<1>4. u \in Points /\ Leads(h, q.writes, s, u) /\ u.l = q.dev /\ u.r = R /\ u.up /\ u.p = {}
  <2>1. Led(h, s, q, u)
    BY <1>1, <1>2, <1>3 DEF Settled
  <2> QED BY <1>1, <2>1 DEF Led, On
<1>5. Leads(history, q.writes, s, u)
  BY <1>1, <1>4, LeadsAfresh
<1>6. Rests(q.dev, q.mem, R, h)
  BY <1>3 DEF Rests, Consistent
<1>7. Achieves(name, size, q.mem, history, u)
  BY <1>1, <1>4, <1>6 DEF Achieves, HistoryAfter
<1>8. name \in Names
  BY DEF Names
<1> QED BY <1>1, <1>3, <1>4, <1>5, <1>7, <1>8, ExecuteInv

LEMMA StartMkfsInv == IInv /\ StartMkfs => IInv'
<1> SUFFICES ASSUME IInv, StartMkfs PROVE IInv'
  OBVIOUS
<1>1. Ready /\ Execute("mkfs", 0, Mkfs(Now))
  BY DEF StartMkfs
<1>2. PICK h, s, q : h = {} /\ s = On(dev, risk) /\ q = Mkfs(Now)
  OBVIOUS
<1>3. HasMade(h, s, q)
  BY <1>1, <1>2, NowAfresh, MkfsHolds
<1>4. PICK R, size, name : R = {} /\ size = 0 /\ name = "mkfs"
  OBVIOUS
<1>5. AtRest({}, On(dev, risk), q, R) /\ Settled({}, On(dev, risk), q) /\ q.writes # <<>>
  BY <1>2, <1>3, <1>4 DEF HasMade
<1>6. name \in {"mkfs", "bench"} /\ size \in Nat /\ Execute(name, size, q) /\ name # "bench"
  BY <1>1, <1>2, <1>4
<1> QED BY <1>1, <1>5, <1>6, AfreshInv

-----------------------------------------------------------------------------
(***************************************************************************)
(* benchmark_set_up: the files of a benchmark.                             *)
(***************************************************************************)
LEMMA NextInode ==
  ASSUME NEW r, NEW k \in Inode, r.mem.imap = 0 .. k - 1
  PROVE  FirstFreeInode(r) = k /\ Inode \ r.mem.imap # {}
<1>1. k \in Inode \ r.mem.imap /\ \A j \in Inode \ r.mem.imap : k <= j /\ j \in Nat
  BY VolumeAssumption DEF Inode
<1>2. PICK i : i = FirstFreeInode(r)
  OBVIOUS
<1>3. i \in Inode \ r.mem.imap /\ \A j \in Inode \ r.mem.imap : i <= j
  BY <1>1, <1>2 DEF FirstFreeInode
<1>4. i <= k /\ k <= i /\ i \in Nat /\ k \in Nat
  BY <1>1, <1>3
<1> QED BY <1>1, <1>2, <1>4

\* The run q has n empty files, and m free blocks.
HasSetUp(h, s, q, n, m) ==
  /\ AtRest(h, s, q, {}) /\ q.writes # <<>>
  /\ Entries(q.dev) = BenchFiles(n) /\ q.mem.imap = 0 .. n
  /\ \A i \in BenchFiles(n) : q.dev.node[i] = Dinode("file", 0, 0, 0)
  /\ Free(q, m)

LEMMA MadeSetsUp ==
  ASSUME NEW h, NEW s, NEW r, HasMade(h, s, r), NEW m \in Nat, 1 + m <= NBlocks
  PROVE  HasSetUp(h, s, r, 0, m)
<1>1. /\ AtRest(h, s, r, {}) /\ r.writes # <<>> /\ Entries(r.dev) = {} /\ r.mem.imap = {Root}
  BY DEF HasMade
<1>2. PICK b \in Block : r.mem.bmap = {b}
  BY DEF HasMade
<1>3. IsFiniteSet(Block) /\ Cardinality(Block) = NBlocks
  <2>1. NBlocks \in Int /\ 1 \in Int /\ NBlocks - 1 + 1 = NBlocks /\ NBlocks >= 1
    BY VolumeAssumption
  <2> QED BY <2>1, FS_Interval DEF Block
<1>4. Cardinality(Block \ {b}) = NBlocks - 1
  BY <1>2, <1>3, FS_RemoveElement
<1>5. Free(r, m)
  BY <1>2, <1>4, VolumeAssumption DEF Free
<1>6. BenchFiles(0) = {} /\ {Root} = 0 .. 0
  BY DEF BenchFiles, Root
<1> QED BY <1>1, <1>5, <1>6 DEF HasSetUp

LEMMA SetUpOne ==
  ASSUME NEW h, NEW s, NEW r, NEW n, NEW m, NEW k, k = n + 1, n \in Nat, k \in Inode,
         HasSetUp(h, s, r, n, m), NEW q, q = CreateFile(r)
  PROVE  HasSetUp(h, s, q, k, m)
<1>1. /\ AtRest(h, s, r, {}) /\ r.writes # <<>>
      /\ Entries(r.dev) = 1 .. n /\ r.mem.imap = 0 .. n
      /\ \A i \in 1 .. n : r.dev.node[i] = Dinode("file", 0, 0, 0)
      /\ Free(r, m)
  BY DEF HasSetUp, BenchFiles
<1>2. k \in Nat /\ k - 1 = n
  OBVIOUS
<1>3. FirstFreeInode(r) = k /\ Inode \ r.mem.imap # {}
  BY <1>1, <1>2, NextInode
<1>4. PICK R : R = {}
  OBVIOUS
<1>5. AtRest(h, s, r, R)
  BY <1>1, <1>4
<1>6. AtRest(h, s, q, R) /\ HasCreated(q, r, k)
  BY <1>3, <1>5, CreateFileHolds
<1>7. /\ q.writes # <<>> /\ Entries(q.dev) = Entries(r.dev) \cup {k}
      /\ q.dev.node[k] = Dinode("file", 0, 0, 0)
      /\ \A j \in Inode \ {Root, k} : q.dev.node[j] = r.dev.node[j]
      /\ q.mem.bmap = r.mem.bmap /\ q.mem.imap = r.mem.imap \cup {k}
  BY <1>6 DEF HasCreated
<1>8. Entries(q.dev) = 1 .. k /\ q.mem.imap = 0 .. k
  BY <1>1, <1>2, <1>7
<1>9. \A i \in 1 .. k : q.dev.node[i] = Dinode("file", 0, 0, 0)
  <2>1. ASSUME NEW i \in 1 .. k, i # k PROVE q.dev.node[i] = Dinode("file", 0, 0, 0)
    <3>1. i \in 1 .. n /\ i \in Inode \ {Root, k}
      BY <1>2, <2>1, VolumeAssumption DEF Inode, Root
    <3> QED BY <1>1, <1>7, <3>1
  <2> QED BY <1>7, <2>1
<1>10. Free(q, m)
  BY <1>1, <1>7, FreeSame
<1> QED BY <1>4, <1>6, <1>7, <1>8, <1>9, <1>10 DEF HasSetUp, BenchFiles

LEMMA SetUpHolds ==
  ASSUME NEW h, NEW s, NEW r, Still(h, s, r), r.open = {}, \A i \in Inode : r.ind[i] = Zero,
         NEW n \in 1 .. 2, n < NInodes, NEW m \in Nat, 1 + m <= NBlocks,
         NEW q, q = SetUp(r, n)
  PROVE  HasSetUp(h, s, q, n, m)
<1>1. PICK a, b, c : a = Mkfs(r) /\ b = CreateFile(a) /\ c = CreateFile(b)
  OBVIOUS
<1>2. q = IF n = 1 THEN b ELSE c
  BY <1>1 DEF SetUp, ForEach
<1>3. HasSetUp(h, s, a, 0, m)
  <2>1. HasMade(h, s, a)
    BY <1>1, MkfsHolds
  <2> QED BY <2>1, MadeSetsUp
<1>4. 1 \in Inode /\ (n = 2 => 2 \in Inode)
  BY VolumeAssumption DEF Inode
<1>5. PICK z, k, l : z = 0 /\ k = 1 /\ l = 2
  OBVIOUS
<1>6. k = z + 1 /\ z \in Nat /\ k \in Inode /\ HasSetUp(h, s, a, z, m)
  BY <1>3, <1>4, <1>5
<1>7. HasSetUp(h, s, b, k, m)
  BY <1>1, <1>6, SetUpOne
<1>8. CASE n = 1
  BY <1>2, <1>5, <1>7, <1>8
<1>9. CASE n = 2
  <2>1. l = k + 1 /\ k \in Nat /\ l \in Inode
    BY <1>4, <1>5, <1>9
  <2>2. HasSetUp(h, s, c, l, m)
    BY <1>1, <1>7, <2>1, SetUpOne
  <2> QED BY <1>2, <1>5, <1>9, <2>2
<1> QED BY <1>8, <1>9

-----------------------------------------------------------------------------
(***************************************************************************)
(* The writes of a benchmark.                                              *)
(***************************************************************************)
Empty(d, n) == \A i \in 1 .. n : i \in Inode /\ d.node[i] = Dinode("file", 0, 0, 0)

LEMMA EmptyIs ==
  ASSUME NEW d, NEW n, Empty(d, n), NEW i \in 1 .. n
  PROVE  /\ BlocksOf(d, i) = {} /\ DataBlocks(d, i) = {} /\ i \in Inode
         /\ d.node[i].type = "file" /\ d.node[i].size = 0
         /\ d.node[i].direct = 0 /\ d.node[i].indirect = 0
<1>1. /\ i \in Inode /\ d.node[i].type = "file" /\ d.node[i].size = 0
      /\ d.node[i].direct = 0 /\ d.node[i].indirect = 0
  BY DEF Empty, Dinode
<1> QED BY <1>1 DEF BlocksOf, DataBlocks, Indirected

\* The file i has its blocks, in memory.
Composes(h, r, i, R, size, D, B) ==
  /\ Shape(r.dev, r.ino[i], Words(r, i), size, D, B) /\ r.ino[i].size = size
  /\ r.ind[i] = Zero \/ size = 2
  /\ h = {} => \A b \in D : r.mem.csum[b] = Csum(Data)
  /\ i \in R

\* Composed in memory elsewhere, of blocks that are the same.
LEMMA ComposesOn ==
  ASSUME NEW h, NEW q, NEW r, NEW i, NEW R, NEW Q, NEW size, NEW D, NEW B, Composes(h, r, i, R, size, D, B),
         q.ino[i] = r.ino[i], q.ind[i] = r.ind[i], i \in Q,
         \A c \in B : q.dev.block[c] = r.dev.block[c] /\ q.mem.csum[c] = r.mem.csum[c]
  PROVE  Composes(h, q, i, Q, size, D, B)
<1>1. /\ Shape(r.dev, r.ino[i], Words(r, i), size, D, B) /\ r.ino[i].size = size
      /\ r.ind[i] = Zero \/ size = 2
      /\ h = {} => \A b \in D : r.mem.csum[b] = Csum(Data)
  BY DEF Composes
<1>2. D \subseteq B
  BY <1>1 DEF Shape
<1>3. size = 2 => Words(q, i) = Words(r, i)
  BY <1>1 DEF Shape, Words
<1>4. Shape(q.dev, q.ino[i], Words(q, i), size, D, B)
  BY <1>1, <1>2, <1>3 DEF Shape
<1> QED BY <1>1, <1>2, <1>4 DEF Composes

\* The files up to k have the blocks in hand.
InHand(h, r, k, R, size, hand, D, B) ==
  /\ \A i \in 1 .. k : Composes(h, r, i, R, size, D[i], B[i])
  /\ hand = UNION {B[i] : i \in 1 .. k}
  /\ \A i, j \in 1 .. k : i # j => B[i] \cap B[j] = {}

\* Of n files all empty on the device, k are written; m blocks are free.
Stage(h, s, r, how, n, k, size, R, hand) ==
  /\ Afloat(h, s, r, how, hand, Wet(r)) /\ Consistent(r.dev, r.mem, R, {}, hand, h)
  /\ Mirror(r.dev, r.mem) /\ r \in Runs
  /\ Entries(r.dev) = 1 .. n /\ Empty(r.dev, n) /\ r.open = {} /\ r.unsaved = R
  /\ \A j \in Inode \ (1 .. k) : r.ino[j] = r.dev.node[j] /\ r.ind[j] = Zero
  /\ \E D, B : InHand(h, r, k, R, size, hand, D, B)

\* Before the first.
LEMMA FirstStage ==
  ASSUME NEW h, NEW s, NEW r, NEW n \in 1 .. 2, NEW m, HasSetUp(h, s, r, n, m), NEW how, NEW size,
         n < NInodes
  PROVE  \E R, hand : Stage(h, s, r, how, n, 0, size, R, hand)
<1>1. PICK R, hand : R = {} /\ hand = {}
  OBVIOUS
<1>2. /\ AtRest(h, s, r, R) /\ r.writes # <<>> /\ Entries(r.dev) = 1 .. n
      /\ \A i \in 1 .. n : r.dev.node[i] = Dinode("file", 0, 0, 0)
  BY <1>1 DEF HasSetUp, BenchFiles
<1>3. /\ Still(h, s, r) /\ Consistent(r.dev, r.mem, R, {}, {}, h) /\ Mirror(r.dev, r.mem) /\ r \in Runs
  BY <1>2, AtRestIs
<1>4. /\ r.open = {} /\ r.unsaved = R /\ r.ino = r.dev.node /\ \A i \in Inode : r.ind[i] = Zero
  BY <1>2 DEF AtRest
<1>5. Afloat(h, s, r, how, hand, Wet(r))
  BY <1>3, StillAfloat
<1>6. Empty(r.dev, n)
  BY <1>2, VolumeAssumption DEF Empty, Inode
<1>7. InHand(h, r, 0, R, size, hand, <<>>, <<>>)
  BY <1>1 DEF InHand
<1> QED BY <1>1, <1>2, <1>3, <1>4, <1>5, <1>6, <1>7 DEF Stage

\* A file of the benchmark before its blocks are written.
LEMMA StageDrifts ==
  ASSUME NEW h, NEW s, NEW r, NEW how, NEW n \in Nat, NEW k \in Nat, NEW size, NEW R, NEW hand,
         Stage(h, s, r, how, n, k, size, R, hand), NEW i \in 1 .. n, i = k + 1
  PROVE  /\ Drifts(h, s, r, how, i, R, 0, {}, {}, hand) /\ r.ind[i] = Zero /\ r.ino[i].size = 0
         /\ i \in Inode
<1>1. /\ Afloat(h, s, r, how, hand, Wet(r)) /\ Consistent(r.dev, r.mem, R, {}, hand, h)
      /\ Mirror(r.dev, r.mem) /\ r \in Runs
      /\ Entries(r.dev) = 1 .. n /\ Empty(r.dev, n) /\ r.open = {} /\ r.unsaved = R
      /\ \A j \in Inode \ (1 .. k) : r.ino[j] = r.dev.node[j] /\ r.ind[j] = Zero
  BY DEF Stage
<1>2. PICK D, B : InHand(h, r, k, R, size, hand, D, B)
  BY DEF Stage
<1>3. /\ BlocksOf(r.dev, i) = {} /\ i \in Inode
      /\ r.dev.node[i].type = "file" /\ r.dev.node[i].size = 0
      /\ r.dev.node[i].direct = 0 /\ r.dev.node[i].indirect = 0
  BY <1>1, EmptyIs
<1>4. i \notin 1 .. k
  OBVIOUS
<1>5. r.ino[i] = r.dev.node[i] /\ r.ind[i] = Zero
  BY <1>1, <1>3, <1>4
<1>6. Lent(r, i, hand)
  <2>1. ASSUME NEW j \in Inode \ {i}, r.ind[j] # Zero PROVE r.ino[j].indirect \in hand
    <3>1. j \in 1 .. k
      BY <1>1, <2>1
    <3>2. Composes(h, r, j, R, size, D[j], B[j]) /\ B[j] \subseteq hand
      BY <1>2, <3>1 DEF InHand
    <3>3. Shape(r.dev, r.ino[j], Words(r, j), 2, D[j], B[j])
      BY <2>1, <3>2 DEF Composes
    <3>4. r.ino[j].indirect \in B[j]
      BY <3>3 DEF Shape
    <3> QED BY <3>2, <3>4
  <2> QED BY <2>1 DEF Lent
<1>7. PICK X : X = {}
  OBVIOUS
<1>8. (X \ BlocksOf(r.dev, i)) \cup hand = hand
  BY <1>7
<1>9. Shape(r.dev, r.ino[i], Words(r, i), 0, X, X)
  BY <1>3, <1>5, <1>7 DEF Shape, BlockPtr
<1>10. Draft(h, r, i, R, 0, X, X, hand)
  BY <1>1, <1>3, <1>5, <1>7, <1>8, <1>9 DEF Draft
<1>11. Drifts(h, s, r, how, i, R, 0, X, X, hand)
  BY <1>1, <1>6, <1>8, <1>10 DEF Drifts
<1> QED BY <1>3, <1>5, <1>7, <1>11

\* The run q has the files up to k, and the blocks in hand, as r has them.
KeepsHand(q, r, k, hand) ==
  /\ \A j \in 1 .. k : q.ino[j] = r.ino[j] /\ q.ind[j] = r.ind[j]
  /\ \A c \in hand : q.dev.block[c] = r.dev.block[c] /\ q.mem.csum[c] = r.mem.csum[c]

GivesHand(h, q, i, Q, size, more) == \E P, G : InHand(h, q, i, Q, size, more, P, G)

\* One file more is in hand.
LEMMA InHandMore ==
  ASSUME NEW h, NEW q, NEW r, NEW k \in Nat, NEW i, i = k + 1, NEW R, NEW Q, NEW size,
         NEW hand, NEW D, NEW B, InHand(h, r, k, R, size, hand, D, B), R \subseteq Q,
         KeepsHand(q, r, k, hand), NEW E, NEW F, Composes(h, q, i, Q, size, E, F), F \cap hand = {}
  PROVE  GivesHand(h, q, i, Q, size, hand \cup F)
<1>1. PICK P, G : /\ P = [j \in 1 .. i |-> IF j = i THEN E ELSE D[j]]
                  /\ G = [j \in 1 .. i |-> IF j = i THEN F ELSE B[j]]
  OBVIOUS
<1>2. i \in 1 .. i /\ i \notin 1 .. k /\ 1 .. i = (1 .. k) \cup {i}
  OBVIOUS
<1>3. /\ P[i] = E /\ G[i] = F
      /\ \A j \in 1 .. k : P[j] = D[j] /\ G[j] = B[j]
  BY <1>1, <1>2
<1>4. /\ \A j \in 1 .. k : Composes(h, r, j, R, size, D[j], B[j])
      /\ hand = UNION {B[j] : j \in 1 .. k}
      /\ \A j, l \in 1 .. k : j # l => B[j] \cap B[l] = {}
  BY DEF InHand
<1>5. \A j \in 1 .. k : Composes(h, q, j, Q, size, P[j], G[j])
  <2>1. ASSUME NEW j \in 1 .. k PROVE Composes(h, q, j, Q, size, P[j], G[j])
    <3>1. PICK d, b : d = D[j] /\ b = B[j]
      OBVIOUS
    <3>2. Composes(h, r, j, R, size, d, b)
      BY <1>4, <2>1, <3>1
    <3>3. j \in Q /\ b \subseteq hand
      BY <1>4, <2>1, <3>1, <3>2 DEF Composes
    <3>4. Composes(h, q, j, Q, size, d, b)
      BY <2>1, <3>2, <3>3, ComposesOn DEF KeepsHand
    <3> QED BY <1>3, <2>1, <3>1, <3>4
  <2> QED BY <2>1
<1>6. \A j \in 1 .. i : Composes(h, q, j, Q, size, P[j], G[j])
  BY <1>2, <1>3, <1>5
<1>7. hand \cup F = UNION {G[j] : j \in 1 .. i}
  <2>1. {G[j] : j \in 1 .. i} = {B[j] : j \in 1 .. k} \cup {F}
    BY <1>2, <1>3
  <2> QED BY <1>4, <2>1
<1>8. \A j, l \in 1 .. i : j # l => G[j] \cap G[l] = {}
  <2>1. \A j \in 1 .. k : G[j] \subseteq hand
    BY <1>3, <1>4
  <2> QED BY <1>2, <1>3, <1>4, <2>1
<1> QED BY <1>6, <1>7, <1>8 DEF InHand, GivesHand

\* Stage k is reached, with m blocks free.
Staged(h, s, q, how, n, k, size, m) ==
  (\E R, hand : Stage(h, s, q, how, n, k, size, R, hand)) /\ Free(q, m)

\* The writes of one file.
LEMMA NextStage ==
  ASSUME NEW h, NEW s, NEW r, NEW how \in {"sync", "async"}, NEW n \in Nat, NEW k \in Nat,
         NEW size \in 1 .. 2, NEW R, NEW hand, Stage(h, s, r, how, n, k, size, R, hand),
         NEW i \in 1 .. n, i = k + 1, NEW m \in Nat, Free(r, m + More(0, size)),
         NEW q, q = WriteAlternate(r, i, size, how)
  PROVE  Staged(h, s, q, how, n, i, size, m)
<1>1. /\ Drifts(h, s, r, how, i, R, 0, {}, {}, hand) /\ r.ind[i] = Zero /\ r.ino[i].size = 0
      /\ i \in Inode
  BY StageDrifts
<1>2. PICK z, X, l : z = 0 /\ X = {} /\ l = size
  OBVIOUS
<1>3. Alternated(h, s, q, r, how, i, R, l, hand, m, size)
  <2>1. z \in 0 .. 2 /\ l = IF z < size THEN size ELSE z
    BY <1>2
  <2>2. Drifts(h, s, r, how, i, R, z, X, X, hand) /\ r.ino[i].size = z /\ Free(r, m + More(z, size))
    BY <1>1, <1>2
  <2> QED BY <1>1, <2>1, <2>2, AlternateHolds
<1>4. Lengthened(h, s, q, r, how, i, R, size, hand, m) /\ i \in q.unsaved
  BY <1>1, <1>2, <1>3 DEF Alternated
<1>5. PICK v, Q, E, F :
        /\ R \subseteq Q /\ Q \subseteq R \cup {i}
        /\ Continues(v, r, i, hand) /\ Renoded(q, v, i, Sized(v.ino[i], size))
        /\ Drifts(h, s, q, how, i, Q, size, E, F, hand) /\ Free(q, m) /\ q.ino[i].size = size
  BY <1>4 DEF Lengthened
<1>6. Draft(h, q, i, Q, size, E, F, hand) /\ Afloat(h, s, q, how, (F \ BlocksOf(q.dev, i)) \cup hand, Wet(q))
  BY <1>5 DEF Drifts
<1>7. /\ Consistent(r.dev, r.mem, R, {}, hand, h)
      /\ Entries(r.dev) = 1 .. n /\ Empty(r.dev, n)
      /\ \A j \in Inode \ (1 .. k) : r.ino[j] = r.dev.node[j] /\ r.ind[j] = Zero
  BY DEF Stage
<1>8. PICK D, B : InHand(h, r, k, R, size, hand, D, B)
  BY DEF Stage
<1>9. /\ v.dev.node = r.dev.node /\ Entries(v.dev) = Entries(r.dev)
      /\ \A j \in Inode \ {i} : v.ino[j] = r.ino[j] /\ v.ind[j] = r.ind[j]
      /\ \A c \in r.mem.bmap : v.dev.block[c] = r.dev.block[c]
      /\ \A c \in hand : v.mem.csum[c] = r.mem.csum[c]
  BY <1>5 DEF Continues
<1>10. /\ q \in Runs /\ q.dev = v.dev /\ q.ind = v.ind /\ q.mem = v.mem
       /\ q.ino = [v.ino EXCEPT ![i] = Sized(v.ino[i], size)]
       /\ \A j \in Inode \ {i} : q.ino[j] = v.ino[j]
  BY <1>5 DEF Renoded, Runs
<1>11. Empty(q.dev, n) /\ BlocksOf(q.dev, i) = {}
  <2>1. Empty(q.dev, n)
    BY <1>7, <1>9, <1>10 DEF Empty
  <2> QED BY <2>1, EmptyIs
<1>12. PICK more : more = hand \cup F
  OBVIOUS
<1>13. (F \ BlocksOf(q.dev, i)) \cup hand = more
  BY <1>11, <1>12
<1>14. /\ Consistent(q.dev, q.mem, Q, {}, more, h) /\ Mirror(q.dev, q.mem) /\ F \cap hand = {}
       /\ Shape(q.dev, q.ino[i], Words(q, i), size, E, F)
       /\ q.ind[i] = Zero \/ size = 2
       /\ h = {} => \A b \in E : q.mem.csum[b] = Csum(Data)
       /\ q.open = {} /\ q.unsaved = Q
  BY <1>6, <1>13 DEF Draft
<1>15. Composes(h, q, i, Q, size, E, F)
  BY <1>4, <1>5, <1>14 DEF Composes
<1>16. \E P, G : InHand(h, q, i, Q, size, more, P, G)
  <2>1. \A j \in 1 .. k : j \in Inode \ {i}
    <3>1. ASSUME NEW j \in 1 .. k PROVE j \in Inode \ {i}
      <4>1. j \in 1 .. n /\ j # i
        OBVIOUS
      <4>2. j \in Inode
        BY <1>7, <4>1, EmptyIs
      <4> QED BY <4>1, <4>2
    <3> QED BY <3>1
  <2>2. \A j \in 1 .. k : q.ino[j] = r.ino[j] /\ q.ind[j] = r.ind[j]
    BY <1>9, <1>10, <2>1
  <2>3. hand \subseteq r.mem.bmap
    BY <1>7 DEF Consistent
  <2>4. \A c \in hand : q.dev.block[c] = r.dev.block[c] /\ q.mem.csum[c] = r.mem.csum[c]
    BY <1>9, <1>10, <2>3
  <2>5. R \subseteq Q /\ F \cap hand = {} /\ i = k + 1 /\ k \in Nat
    BY <1>5, <1>14
  <2>6. KeepsHand(q, r, k, hand)
    BY <2>2, <2>4 DEF KeepsHand
  <2>7. GivesHand(h, q, i, Q, size, hand \cup F)
    BY ONLY <1>8, <1>15, <2>5, <2>6, InHandMore
  <2> QED BY <1>12, <2>7 DEF GivesHand
<1>17. \A j \in Inode \ (1 .. i) : q.ino[j] = q.dev.node[j] /\ q.ind[j] = Zero
  <2>1. \A j \in Inode \ (1 .. i) : j \in Inode \ (1 .. k) /\ j # i
    OBVIOUS
  <2> QED BY <1>7, <1>9, <1>10, <2>1
<1>19. Afloat(h, s, q, how, more, Wet(q)) /\ Entries(q.dev) = 1 .. n
  BY <1>6, <1>7, <1>9, <1>10, <1>13
<1>20. Stage(h, s, q, how, n, i, size, Q, more)
  BY <1>10, <1>11, <1>14, <1>16, <1>17, <1>19 DEF Stage
<1> QED BY <1>5, <1>20 DEF Staged

BenchWrites(r, n, size, how) ==
  LET write(s, i) == WriteAlternate(s, i, size, how)
  IN  ForEach(n, SetUp(r, n), write)

LEMMA BenchWritesIs ==
  ASSUME NEW r, NEW n, NEW size, NEW how
  PROVE  BenchWrites(r, n, size, how) =
           IF n = 1 THEN WriteAlternate(SetUp(r, n), 1, size, how)
           ELSE WriteAlternate(WriteAlternate(SetUp(r, n), 1, size, how), 2, size, how)
BY DEF BenchWrites, ForEach

\* A benchmark starts on a volume that is large enough.
Room(n, size) == 1 + n * (IF size = 2 THEN 3 ELSE 1) <= NBlocks /\ n < NInodes

LEMMA BenchWritesHolds ==
  ASSUME NEW h, NEW s, NEW r, Still(h, s, r), r.open = {}, \A i \in Inode : r.ind[i] = Zero,
         NEW n \in 1 .. 2, NEW size \in 1 .. 2, Room(n, size), NEW how \in {"sync", "async"},
         NEW q, q = BenchWrites(r, n, size, how)
  PROVE  \E R, hand : Stage(h, s, q, how, n, n, size, R, hand)
<1>1. PICK a, b, c : /\ a = SetUp(r, n) /\ b = WriteAlternate(a, 1, size, how)
                     /\ c = WriteAlternate(b, 2, size, how)
  OBVIOUS
<1>2. q = IF n = 1 THEN b ELSE c
  BY <1>1, BenchWritesIs
<1>3. PICK z, k, l, o, t : z = 0 /\ k = 1 /\ l = 2 /\ o = More(z, size) /\ t = IF n = 1 THEN z ELSE o
  OBVIOUS
<1>4. o \in Nat /\ t \in Nat /\ o = (IF size = 2 THEN 3 ELSE 1) /\ t + o = n * (IF size = 2 THEN 3 ELSE 1)
  BY <1>3 DEF More
<1>5. PICK m \in Nat : m = t + o
  BY <1>4
<1>6. HasSetUp(h, s, a, n, m)
  <2>1. n < NInodes /\ 1 + m <= NBlocks
    BY <1>4, <1>5 DEF Room
  <2> QED BY <1>1, <2>1, SetUpHolds
<1>7. PICK R, hand : Stage(h, s, a, how, n, z, size, R, hand)
  <2>1. n < NInodes
    BY DEF Room
  <2> QED BY <1>3, <1>6, <2>1, FirstStage
<1>8. Staged(h, s, b, how, n, k, size, t)
  <2>1. Free(a, t + More(0, size))
    BY <1>3, <1>5, <1>6 DEF HasSetUp
  <2>2. b = WriteAlternate(a, k, size, how) /\ k \in 1 .. n /\ k = z + 1 /\ z \in Nat /\ n \in Nat
    BY <1>1, <1>3
  <2> QED BY ONLY <1>4, <1>7, <2>1, <2>2, NextStage, n \in 1 .. 2, size \in 1 .. 2,
                  how \in {"sync", "async"}
<1>9. CASE n = 1
  <2>1. q = b /\ k = n
    BY <1>2, <1>3, <1>9
  <2> QED BY <1>8, <2>1 DEF Staged
<1>10. CASE n = 2
  <2>1. PICK Q, more : Stage(h, s, b, how, n, k, size, Q, more)
    BY <1>8 DEF Staged
  <2>2. /\ c = WriteAlternate(b, l, size, how) /\ l \in 1 .. n /\ l = k + 1 /\ k \in Nat /\ n \in Nat
        /\ z \in Nat /\ Free(b, z + More(0, size))
    <3>1. z + More(0, size) = t
      BY <1>3, <1>4, <1>10
    <3> QED BY <1>1, <1>3, <1>8, <1>10, <3>1 DEF Staged
  <2>3. Staged(h, s, c, how, n, l, size, z)
    BY ONLY <2>1, <2>2, NextStage, size \in 1 .. 2, how \in {"sync", "async"}
  <2>4. q = c /\ l = n
    BY <1>2, <1>3, <1>10
  <2> QED BY <2>3, <2>4 DEF Staged
<1> QED BY <1>9, <1>10

-----------------------------------------------------------------------------
(***************************************************************************)
(* What testfs_bulk_sync_inode and the flushes after it may leave on the   *)
(* device, in whatever order it lands.                                     *)
(***************************************************************************)

\* The device x is d but for the dinodes of X, blocks in hand, marks of what
\* memory has and checksums.
Loose(x, d, m, X, hand) ==
  /\ x.imap = d.imap /\ d.bmap \subseteq x.bmap /\ x.bmap \subseteq m.bmap
  /\ \A i \in Inode \ X : x.node[i] = d.node[i]
  /\ \A b \in Block \ hand : x.block[b] = d.block[b]

LEMMA LooseSafe ==
  ASSUME NEW d \in Device, NEW m \in Memory, NEW R, NEW X, NEW hand, NEW h,
         Consistent(d, m, R, X, hand, h), X \subseteq R, NEW x \in Device, Loose(x, d, m, X, hand)
  PROVE  /\ Consistent(x, m, R, X, hand, h) /\ Safe(h, x, R)
         /\ Entries(x) = Entries(d)
<1>1. /\ d.imap = m.imap /\ R \subseteq File /\ hand \subseteq m.bmap
  BY DEF Consistent
<1>2. m.bmap \subseteq Block
  BY DEF Memory
<1>3. Beside(x, m, d, m, X, hand, hand, h)
  BY <1>1, <1>2 DEF Beside, Loose
<1>4. Consistent(x, m, R, X, hand, h) /\ Entries(x) = Entries(d)
  BY <1>3, BesideIs
<1>5. Fits(x, R, X, R)
  BY <1>1 DEF Fits, File
<1> QED BY <1>4, <1>5, FitsSafe

LEMMA LooseBetween ==
  ASSUME NEW x \in Device, NEW a \in Device, NEW e \in Device, NEW d \in Device, NEW m \in Memory,
         NEW X, NEW hand, Loose(a, d, m, X, hand), Loose(e, d, m, X, hand), Between(x, a, e)
  PROVE  Loose(x, d, m, X, hand)
<1>1. x.bmap \subseteq Block /\ d.bmap \subseteq Block /\ m.bmap \subseteq Block
  BY DEF Device, Memory
<1> QED BY <1>1 DEF Loose, Between

\* On the way from t to what r has put on the device, all is loose.
Loosened(h, s, r, how, d, m, X, hand, A) ==
  \E t \in Points :
    /\ Led(h, s, r, t) /\ Loose(t.a, d, m, X, hand) /\ Loose(r.dev, d, m, X, hand)
    /\ \A v \in t.p : v.area \in A
    /\ how = "sync" => t.p = {}

-----------------------------------------------------------------------------
(***************************************************************************)
(* The indirect blocks, by testfs_bulk_sync_inode.                         *)
(***************************************************************************)

\* A written file is one of those of the benchmark.
LEMMA StageFile ==
  ASSUME NEW h, NEW s, NEW r, NEW how, NEW n, NEW size, NEW R, NEW hand,
         Stage(h, s, r, how, n, n, size, R, hand), NEW i \in Inode, r.ind[i] # Zero
  PROVE  i \in 1 .. n
BY DEF Stage

\* The run q has in the block c the words that r has of i in memory.
Drained(q, r, i, c, y) ==
  /\ q \in Runs /\ q.dev = Filled(r.dev, c, y)
  /\ q.mem = r.mem /\ q.ino = r.ino /\ q.ind = [r.ind EXCEPT ![i] = Zero]
  /\ q.open = r.open /\ q.unsaved = r.unsaved

Drains(q, r, i, c, y) ==
  /\ q.ind[i] = Zero /\ \A j \in Inode \ {i} : q.ind[j] = r.ind[j]
  /\ q.dev.node = r.dev.node /\ q.dev.csum = r.dev.csum
  /\ \A b \in Block : q.dev.block[b] = IF b = c THEN y ELSE r.dev.block[b]

LEMMA DrainedIs ==
  ASSUME NEW q, NEW r \in Runs, NEW i \in Inode, NEW c, NEW y, Drained(q, r, i, c, y)
  PROVE  Drains(q, r, i, c, y)
<1>1. r.ind \in [Inode -> Seq(Word)] /\ r.dev \in Device
  BY DEF Runs
<1>2. PICK d : d = r.dev
  OBVIOUS
<1>3. d \in Device /\ q.dev = Filled(d, c, y)
  BY <1>1, <1>2 DEF Drained
<1>4. /\ q.dev.node = d.node /\ q.dev.csum = d.csum
      /\ q.dev.block = [b \in Block |-> IF b = c THEN y ELSE d.block[b]]
  BY <1>3, FilledIs
<1>5. q.ind[i] = Zero /\ \A j \in Inode \ {i} : q.ind[j] = r.ind[j]
  BY <1>1 DEF Drained
<1> QED BY <1>2, <1>4, <1>5 DEF Drains

\* The indirect block of a file has its words on the device as in memory.
LEMMA ComposesDrained ==
  ASSUME NEW h, NEW q, NEW r \in Runs, NEW i \in Inode, NEW R, NEW D, NEW B,
         Composes(h, r, i, R, 2, D, B), r.ind[i] # Zero,
         NEW c, c = r.ino[i].indirect, NEW y, y = r.ind[i], Drained(q, r, i, c, y)
  PROVE  Composes(h, q, i, R, 2, D, B)
<1>1. /\ q.ind[i] = Zero
      /\ \A b \in Block : q.dev.block[b] = IF b = c THEN y ELSE r.dev.block[b]
      /\ q.ino = r.ino /\ q.mem = r.mem
  <2>0. Drains(q, r, i, c, y)
    BY DrainedIs
  <2>1. /\ q.ind[i] = Zero
        /\ \A b \in Block : q.dev.block[b] = IF b = c THEN y ELSE r.dev.block[b]
    BY <2>0 DEF Drains
  <2>2. q.ino = r.ino /\ q.mem = r.mem
    BY DEF Drained
  <2> QED BY <2>1, <2>2
<1>2. /\ Shape(r.dev, r.ino[i], y, 2, D, B) /\ r.ino[i].size = 2 /\ i \in R
      /\ h = {} => \A b \in D : r.mem.csum[b] = Csum(Data)
  BY DEF Composes, Words
<1>3. c \in Block /\ D \subseteq Block \ {c}
  <2>1. r.ino[i].direct \in Block /\ r.ino[i].direct # c
    BY <1>2 DEF Shape, BlockPtr
  <2> QED BY <1>2, <2>1 DEF Shape
<1>4. Words(q, i) = y
  <2>1. q.dev.block[c] = y
    BY <1>1, <1>3
  <2> QED BY <1>1, <2>1 DEF Words
<1>5. \A b \in D : q.dev.block[b] = r.dev.block[b]
  BY <1>1, <1>3
<1>6. Shape(q.dev, q.ino[i], Words(q, i), 2, D, B)
  BY <1>1, <1>2, <1>4, <1>5 DEF Shape
<1> QED BY <1>1, <1>2, <1>6 DEF Composes

\* The indirect block of one file is flushed.
Flushed(h, s, q, r, how, n, size, R, hand, i) ==
  /\ Stage(h, s, q, how, n, n, size, R, hand) /\ q.ind[i] = Zero
  /\ \A j \in Inode : r.ind[j] = Zero => q.ind[j] = Zero

\* The blocks in hand have the words of i in the block c of theirs.
LEMMA DrainedInHand ==
  ASSUME NEW h, NEW q, NEW r \in Runs, NEW n, NEW R, NEW size, NEW hand, NEW D, NEW B,
         InHand(h, r, n, R, size, hand, D, B), NEW i \in 1 .. n, 1 .. n \subseteq Inode,
         r.ind[i] # Zero,
         NEW c, c = r.ino[i].indirect, NEW y, y = r.ind[i], Drained(q, r, i, c, y)
  PROVE  InHand(h, q, n, R, size, hand, D, B)
<1>1. /\ \A j \in 1 .. n : Composes(h, r, j, R, size, D[j], B[j])
      /\ \A j, l \in 1 .. n : j # l => B[j] \cap B[l] = {}
      /\ hand = UNION {B[j] : j \in 1 .. n} /\ i \in Inode
  BY DEF InHand
<1>2. PICK d, b : d = D[i] /\ b = B[i]
  OBVIOUS
<1>3. Composes(h, r, i, R, size, d, b) /\ size = 2
  <2>1. Composes(h, r, i, R, size, d, b)
    BY <1>1, <1>2
  <2> QED BY <2>1 DEF Composes
<1>4. c \in b
  BY <1>3 DEF Composes, Shape
<1>5. Composes(h, q, i, R, size, d, b)
  <2>1. Composes(h, r, i, R, 2, d, b)
    BY <1>3
  <2>2. Composes(h, q, i, R, 2, d, b)
    BY <1>1, <2>1, ComposesDrained
  <2> QED BY <1>3, <2>2
<1>7. Drains(q, r, i, c, y)
  BY <1>1, DrainedIs
<1>6. ASSUME NEW j \in 1 .. n PROVE Composes(h, q, j, R, size, D[j], B[j])
  <2>1. CASE j = i
    BY <1>2, <1>5, <2>1
  <2>2. CASE j # i
    <3>1. PICK e, a : e = D[j] /\ a = B[j]
      OBVIOUS
    <3>2. Composes(h, r, j, R, size, e, a) /\ c \notin a /\ j \in Inode \ {i}
      BY <1>1, <1>2, <1>4, <2>2, <3>1
    <3>3. j \in R /\ a \subseteq Block
      BY <3>2 DEF Composes, Shape, BlockPtr
    <3>4. q.ino[j] = r.ino[j] /\ q.ind[j] = r.ind[j] /\ q.mem = r.mem
      <4>1. \A l \in Inode \ {i} : q.ind[l] = r.ind[l]
        BY <1>7 DEF Drains
      <4>2. q.ino = r.ino /\ q.mem = r.mem
        BY DEF Drained
      <4> QED BY <3>2, <4>1, <4>2
    <3>5. \A x \in a : q.dev.block[x] = r.dev.block[x]
      <4>1. \A x \in Block : q.dev.block[x] = IF x = c THEN y ELSE r.dev.block[x]
        BY <1>7 DEF Drains
      <4> QED BY <3>2, <3>3, <4>1
    <3>6. Composes(h, q, j, R, size, e, a)
      BY <3>2, <3>3, <3>4, <3>5, ComposesOn
    <3> QED BY <3>1, <3>6
  <2> QED BY <2>1, <2>2
<1> QED BY <1>1, <1>6 DEF InHand

\* One file has an indirect block in memory only.
LEMMA FlushOne ==
  ASSUME NEW h, NEW s, NEW r, NEW how \in {"sync", "async"}, NEW n, NEW size, NEW R, NEW hand,
         Stage(h, s, r, how, n, n, size, R, hand), NEW i \in 1 .. n, r.ind[i] # Zero,
         NEW q, q = FlushIndirect(r, i, how)
  PROVE  Flushed(h, s, q, r, how, n, size, R, hand, i)
<1>1. /\ Afloat(h, s, r, how, hand, Wet(r)) /\ Consistent(r.dev, r.mem, R, {}, hand, h)
      /\ Mirror(r.dev, r.mem) /\ Entries(r.dev) = 1 .. n /\ Empty(r.dev, n)
      /\ r.open = {} /\ r.unsaved = R
      /\ \A j \in Inode \ (1 .. n) : r.ino[j] = r.dev.node[j] /\ r.ind[j] = Zero
  BY DEF Stage
<1>2. /\ r \in Runs /\ r.dev \in Device /\ r.mem \in Memory /\ r.ino \in [Inode -> Dinodes]
      /\ r.ind \in [Inode -> Seq(Word)]
  BY <1>1, AfloatRuns
<1>3. PICK D, B : InHand(h, r, n, R, size, hand, D, B)
  BY DEF Stage
<1>4. /\ \A j \in 1 .. n : Composes(h, r, j, R, size, D[j], B[j])
      /\ \A j, l \in 1 .. n : j # l => B[j] \cap B[l] = {}
      /\ hand = UNION {B[j] : j \in 1 .. n}
  BY <1>3 DEF InHand
<1>5. 1 .. n \subseteq Inode /\ i \in Inode
  BY <1>1 DEF Empty
<1>6. PICK c, y : c = r.ino[i].indirect /\ y = r.ind[i]
  OBVIOUS
<1>7. \A j \in 1 .. n : r.ind[j] # Zero => r.ino[j].indirect \in B[j] \cap Block
  <2>1. ASSUME NEW j \in 1 .. n, r.ind[j] # Zero PROVE r.ino[j].indirect \in B[j] \cap Block
    <3>1. PICK d, b : d = D[j] /\ b = B[j]
      OBVIOUS
    <3>2. Composes(h, r, j, R, size, d, b)
      BY <1>4, <2>1, <3>1
    <3>3. Shape(r.dev, r.ino[j], Words(r, j), 2, d, b)
      BY <2>1, <3>2 DEF Composes
    <3>4. r.ino[j].indirect \in b \cap Block
      BY <3>3 DEF Shape
    <3> QED BY <3>1, <3>4
  <2> QED BY <2>1
<1>8. c \in Block /\ c \in hand /\ c \in r.mem.bmap
  BY <1>1, <1>4, <1>6, <1>7 DEF Consistent
<1>9. c \notin Wet(r)
  BY <1>5, <1>6 DEF Wet, Dry
<1>10. y \in Seq(Word)
  BY <1>2, <1>5, <1>6
<1>11. PICK e : e = Filled(r.dev, c, y)
  OBVIOUS
<1>12. e \in Device /\ Consistent(e, r.mem, R, {}, hand, h) /\ Entries(e) = Entries(r.dev)
  <2>1. PICK d, m, Z : d = r.dev /\ m = r.mem /\ Z = {}
    OBVIOUS
  <2>2. Consistent(d, m, R, Z, hand, h) /\ d \in Device /\ m \in Memory /\ Likewise(m, m, hand, h)
    BY <1>1, <1>2, <2>1 DEF Likewise
  <2>3. /\ Consistent(Filled(d, c, y), m, R, Z, hand, h) /\ Entries(Filled(d, c, y)) = Entries(d)
        /\ Filled(d, c, y) \in Device
    BY <1>8, <1>10, <2>2, FilledBeside
  <2> QED BY <1>11, <2>1, <2>3
<1>13. PICK v : v = Write(r, how, "block", c, y)
  OBVIOUS
<1>14. IsIssued(h, s, v, r, how, hand, Wet(r) \cup {c}, e)
  <2>1. PICK W : W = Wet(r)
    OBVIOUS
  <2>2. AtRisk(r) = R
    BY <1>1 DEF AtRisk
  <2>3. Afloat(h, s, r, how, hand, W) /\ c \in hand \ W
    BY <1>1, <1>8, <1>9, <2>1
  <2>4. IsIssued(h, s, v, r, how, hand, W \cup {c}, e)
    BY <1>8, <1>10, <1>11, <1>12, <1>13, <2>2, <2>3, IssueAfloat
  <2> QED BY <2>1, <2>4
<1>15. /\ Afloat(h, s, v, how, hand, Wet(r) \cup {c}) /\ v \in Runs /\ v.dev = e
       /\ v.mem = r.mem /\ v.ino = r.ino /\ v.ind = r.ind /\ v.open = r.open /\ v.unsaved = r.unsaved
  BY <1>14 DEF IsIssued
<1>16. q = [v EXCEPT !.ind[i] = Zero]
  BY <1>6, <1>13 DEF FlushIndirect
<1>17. q \in Runs /\ q.writes = v.writes /\ q.dev = v.dev /\ Drained(q, r, i, c, y)
  <2>1. Zero \in Seq(Word)
    BY DEF Zero
  <2> QED BY ZenonT(40), <1>11, <1>15, <1>16, <2>1 DEF Drained, Runs
<1>18. Drains(q, r, i, c, y)
  BY <1>2, <1>5, <1>17, DrainedIs
<1>19. q.mem = r.mem /\ q.ino = r.ino /\ q.open = r.open /\ q.unsaved = r.unsaved /\ q.dev = e
  BY <1>15, <1>17 DEF Drained
<1>20. Wet(r) \cup {c} \subseteq Wet(q)
  <2>1. ASSUME NEW j \in Inode, q.ind[j] # Zero
        PROVE  r.ind[j] # Zero /\ q.ino[j].indirect = r.ino[j].indirect /\ r.ino[j].indirect # c
    <3>1. j # i /\ r.ind[j] # Zero
      BY <1>18, <2>1 DEF Drains
    <3>2. j \in 1 .. n
      BY <1>1, <3>1
    <3>3. r.ino[j].indirect \in B[j] /\ c \in B[i]
      BY <1>6, <1>7, <3>1, <3>2
    <3> QED BY <1>4, <1>19, <3>1, <3>2, <3>3
  <2>2. Dry(q) \subseteq Dry(r) /\ c \notin Dry(q)
    BY <2>1 DEF Dry
  <2> QED BY <1>8, <1>19, <2>2 DEF Wet
<1>21. Afloat(h, s, q, how, hand, Wet(q))
  <2>1. PICK W, V : W = Wet(r) \cup {c} /\ V = Wet(q)
    OBVIOUS
  <2>2. Afloat(h, s, v, how, hand, W) /\ W \subseteq V
    BY <1>15, <1>20, <2>1
  <2>3. Afloat(h, s, q, how, hand, V)
    BY <1>17, <2>2, AfloatWith
  <2> QED BY <2>1, <2>3
<1>22. Mirror(q.dev, q.mem) /\ Empty(q.dev, n)
  BY <1>1, <1>18, <1>19 DEF Drains, Mirror, Empty
<1>23. InHand(h, q, n, R, size, hand, D, B)
  BY <1>2, <1>3, <1>5, <1>6, <1>17, DrainedInHand
<1>24. /\ \A j \in Inode : r.ind[j] = Zero => q.ind[j] = Zero
       /\ q.ind[i] = Zero
  BY <1>18 DEF Drains
<1>25. \A j \in Inode \ (1 .. n) : q.ino[j] = q.dev.node[j] /\ q.ind[j] = Zero
  BY <1>1, <1>18, <1>19, <1>24 DEF Drains
<1>26. Consistent(q.dev, q.mem, R, {}, hand, h) /\ Entries(q.dev) = 1 .. n
  BY <1>1, <1>12, <1>19
<1>27. Stage(h, s, q, how, n, n, size, R, hand)
  BY <1>1, <1>17, <1>19, <1>21, <1>22, <1>23, <1>25, <1>26 DEF Stage
<1> QED BY <1>24, <1>27 DEF Flushed

LEMMA FlushIndirectHolds ==
  ASSUME NEW h, NEW s, NEW r, NEW how \in {"sync", "async"}, NEW n, NEW size, NEW R, NEW hand,
         Stage(h, s, r, how, n, n, size, R, hand), NEW i \in 1 .. n,
         NEW q, q = FlushIndirect(r, i, how)
  PROVE  Flushed(h, s, q, r, how, n, size, R, hand, i)
<1>1. CASE r.ind[i] = Zero
  <2>1. q = r
    BY <1>1 DEF FlushIndirect
  <2> QED BY <1>1, <2>1 DEF Flushed
<1>2. CASE r.ind[i] # Zero
  BY <1>2, FlushOne
<1> QED BY <1>1, <1>2

\* All of them.
FlushIndirects(r, n, how) ==
  LET indirect(s, i) == FlushIndirect(s, i, how)
  IN  ForEach(n, r, indirect)

LEMMA FlushIndirectsIs ==
  ASSUME NEW r, NEW n, NEW how
  PROVE  FlushIndirects(r, n, how) =
           IF n = 1 THEN FlushIndirect(r, 1, how)
           ELSE FlushIndirect(FlushIndirect(r, 1, how), 2, how)
BY DEF FlushIndirects, ForEach

\* No indirect block is in memory only.
AllFlushed(h, s, q, how, n, size, R, hand) ==
  Stage(h, s, q, how, n, n, size, R, hand) /\ \A i \in Inode : q.ind[i] = Zero

LEMMA FlushIndirectsHolds ==
  ASSUME NEW h, NEW s, NEW r, NEW how \in {"sync", "async"}, NEW n \in 1 .. 2, NEW size, NEW R, NEW hand,
         Stage(h, s, r, how, n, n, size, R, hand), NEW q, q = FlushIndirects(r, n, how)
  PROVE  AllFlushed(h, s, q, how, n, size, R, hand)
<1>1. PICK k, l : k = 1 /\ l = 2
  OBVIOUS
<1>2. PICK a, b : a = FlushIndirect(r, k, how) /\ b = FlushIndirect(a, l, how)
  OBVIOUS
<1>3. q = IF n = 1 THEN a ELSE b
  BY <1>1, <1>2, FlushIndirectsIs
<1>4. Flushed(h, s, a, r, how, n, size, R, hand, k)
  BY <1>1, <1>2, FlushIndirectHolds
<1>5. Stage(h, s, a, how, n, n, size, R, hand) /\ a.ind[k] = Zero
  BY <1>4 DEF Flushed
<1>6. CASE n = 1
  <2>1. \A i \in Inode : a.ind[i] = Zero
    BY <1>1, <1>5, <1>6, StageFile
  <2> QED BY <1>3, <1>5, <1>6, <2>1 DEF AllFlushed
<1>7. CASE n = 2
  <2>1. Flushed(h, s, b, a, how, n, size, R, hand, l)
    BY <1>1, <1>2, <1>5, <1>7, FlushIndirectHolds
  <2>2. /\ Stage(h, s, b, how, n, n, size, R, hand) /\ b.ind[l] = Zero
        /\ k \in Inode => b.ind[k] = Zero
    BY <1>5, <2>1 DEF Flushed
  <2>3. \A i \in Inode : b.ind[i] = Zero
    BY <1>1, <1>7, <2>2, StageFile
  <2> QED BY <1>3, <1>7, <2>2, <2>3 DEF AllFlushed
<1> QED BY <1>6, <1>7

-----------------------------------------------------------------------------
(***************************************************************************)
(* The dinodes, by testfs_bulk_sync_inode.                                 *)
(***************************************************************************)

\* The files of a benchmark, empty as yet on the device, are worked on.
LEMMA FilesOut ==
  ASSUME NEW h, NEW s, NEW r, NEW how, NEW n \in 1 .. 2, NEW size, NEW R, NEW hand,
         Stage(h, s, r, how, n, n, size, R, hand), NEW F, F = 1 .. n
  PROVE  Consistent(r.dev, r.mem, R, F, hand, h) /\ F \subseteq R
<1>1. PICK d, m, Z, k, l : d = r.dev /\ m = r.mem /\ Z = {} /\ k = 1 /\ l = 2
  OBVIOUS
<1>2. Consistent(d, m, R, Z, hand, h) /\ Entries(d) = 1 .. n /\ Empty(d, n)
  BY <1>1 DEF Stage
<1>3. F \subseteq R
  <2>1. PICK D, B : InHand(h, r, n, R, size, hand, D, B)
    BY DEF Stage
  <2> QED BY <2>1 DEF InHand, Composes
<1>4. Consistent(d, m, R, Z \cup {k}, hand, h)
  <2>1. k \in Entries(d) \ Z /\ BlocksOf(d, k) = {}
    BY <1>1, <1>2, EmptyIs
  <2>2. Consistent(d, m, R, Z \cup {k}, hand \cup BlocksOf(d, k), h)
    BY <1>2, <2>1, Checkout
  <2>3. hand \cup BlocksOf(d, k) = hand
    BY <2>1
  <2> QED BY <2>2, <2>3
<1>5. CASE n = 1
  <2>1. F = Z \cup {k}
    BY <1>1, <1>5
  <2> QED BY <1>1, <1>3, <1>4, <2>1
<1>6. CASE n = 2
  <2>1. PICK X : X = Z \cup {k}
    OBVIOUS
  <2>2. l \in Entries(d) \ X /\ BlocksOf(d, l) = {} /\ F = X \cup {l}
    BY <1>1, <1>2, <1>6, <2>1, EmptyIs
  <2>3. Consistent(d, m, R, X \cup {l}, hand \cup BlocksOf(d, l), h)
    BY <1>4, <2>1, <2>2, Checkout
  <2>4. hand \cup BlocksOf(d, l) = hand
    BY <2>2
  <2> QED BY <1>1, <1>3, <2>2, <2>3, <2>4
<1> QED BY <1>5, <1>6

\* The request of testfs_bulk_sync_inode.
DinodeBlocks(n)  == {InodeBlock(i) : i \in BenchFiles(n)}
DinodesOf(r, n) == [g \in DinodeBlocks(n) |-> WithDinodes(r, g, BenchFiles(n))]

LEMMA DinodeBlocksAre ==
  ASSUME NEW n \in 1 .. 2, BenchFiles(n) \subseteq Inode
  PROVE  /\ DinodeBlocks(n) \in SUBSET Nat /\ IsFiniteSet(DinodeBlocks(n))
         /\ DinodeBlocks(n) # {}
<1>1. DinodeBlocks(n) \subseteq InodeBlocks
  BY DEF DinodeBlocks, InodeBlocks
<1>2. IsFiniteSet(DinodeBlocks(n))
  BY <1>1, InodeBlocksAre, FS_Subset
<1>3. 1 \in BenchFiles(n)
  BY DEF BenchFiles
<1>4. DinodeBlocks(n) # {}
  BY <1>3 DEF DinodeBlocks
<1> QED BY <1>1, <1>2, <1>4, InodeBlocksAre

LEMMA DinodesRequest ==
  ASSUME NEW r \in Runs, NEW n \in 1 .. 2, BenchFiles(n) \subseteq Inode, NEW how,
         NEW val, val = DinodesOf(r, n), NEW w, w = Request(r, how, "inodes", val)
  PROVE  /\ val \in [DinodeBlocks(n) -> Contents]
         /\ Put(r.dev, w) = Noded(r.dev, r.ino, BenchFiles(n))
<1>1. r.dev \in Device /\ r.ino \in [Inode -> Dinodes] /\ r.dev.node \in [Inode -> Dinodes]
  BY DEF Runs, Device
<1>2. \A g \in DinodeBlocks(n) : val[g] = WithDinodes(r, g, BenchFiles(n)) /\ val[g] \in Contents
  <2>1. ASSUME NEW g \in DinodeBlocks(n)
        PROVE  val[g] = WithDinodes(r, g, BenchFiles(n)) /\ val[g] \in Contents
    <3>1. PICK S : S = InBlock(g)
      OBVIOUS
    <3>2. S \in SUBSET Inode
      BY <3>1 DEF InBlock
    <3>3. val[g] = [j \in S |-> IF j \in BenchFiles(n) THEN r.ino[j] ELSE r.dev.node[j]]
      BY <2>1, <3>1 DEF DinodesOf, WithDinodes
    <3>4. val[g] \in [S -> Dinodes]
      BY <1>1, <3>2, <3>3
    <3> QED BY <2>1, <3>2, <3>4, ContentsAre DEF DinodesOf
  <2> QED BY <2>1
<1>3. val \in [DinodeBlocks(n) -> Contents]
  BY <1>2 DEF DinodesOf
<1>4. w.area = "inodes" /\ w.val = val
  BY DEF Request
<1>5. Put(r.dev, w) = Noded(r.dev, r.ino, BenchFiles(n))
  <2>1. PICK d, ino, S : d = r.dev /\ ino = r.ino /\ S = BenchFiles(n)
    OBVIOUS
  <2>2. /\ d \in Device /\ S \in SUBSET Inode /\ DOMAIN w.val = DinodeBlocks(n)
    BY <1>1, <1>3, <1>4, <2>1
  <2>3. \A i \in S : InodeBlock(i) \in DOMAIN w.val
    BY <2>1, <2>2 DEF DinodeBlocks
  <2>4. \A g \in DOMAIN w.val : w.val[g] = [i \in InBlock(g) |-> IF i \in S THEN ino[i] ELSE d.node[i]]
    BY <1>2, <1>4, <2>1, <2>2 DEF WithDinodes
  <2>5. Put(d, w) = Noded(d, ino, S)
    BY <1>4, <2>2, <2>3, <2>4, PutNoded
  <2> QED BY <2>1, <2>5
<1> QED BY <1>3, <1>5

LEMMA BulkSyncIs ==
  ASSUME NEW r, NEW n, NEW how, NEW a, a = FlushIndirects(r, n, how)
  PROVE  BulkSync(r, n, how) = WriteEach(a, how, "inodes", DinodesOf(a, n))
BY DEF BulkSync, FlushIndirects, DinodesOf, DinodeBlocks

LEMMA LooseTo ==
  ASSUME NEW d \in Device, NEW m \in Memory, NEW R, NEW X, NEW hand, NEW h,
         Consistent(d, m, R, X, hand, h), X \subseteq R,
         NEW a \in Device, NEW e \in Device, Loose(a, d, m, X, hand), Loose(e, d, m, X, hand)
  PROVE  SafeTo(h, a, e, R)
<1>1. ASSUME NEW x \in Device, Between(x, a, e) PROVE Safe(h, x, R)
  <2>1. Loose(x, d, m, X, hand)
    BY <1>1, LooseBetween
  <2> QED BY <2>1, LooseSafe
<1> QED BY <1>1 DEF SafeTo

LEMMA NodedLoose ==
  ASSUME NEW d \in Device, NEW m, d.bmap \subseteq m.bmap, NEW ino, NEW X, NEW hand,
         NEW l, l = Noded(d, ino, X)
  PROVE  Loose(l, d, m, X, hand)
<1>1. /\ l.imap = d.imap /\ l.bmap = d.bmap /\ l.block = d.block
      /\ l.node = [i \in Inode |-> IF i \in X THEN ino[i] ELSE d.node[i]]
  BY NodedIs
<1> QED BY <1>1 DEF Loose

\* The run q is r with l on the device, once all has landed.
HasLoosened(h, s, q, r, how, d, m, X, hand, A, l) ==
  /\ Loosened(h, s, q, how, d, m, X, hand, A) /\ q.dev = l
  /\ q.mem = r.mem /\ q.ino = r.ino /\ q.ind = r.ind /\ q.open = r.open /\ q.unsaved = r.unsaved

\* Synchronously.
LEMMA DinodesSync ==
  ASSUME NEW h, NEW s, NEW r, Still(h, s, r), NEW n \in 1 .. 2, BenchFiles(n) \subseteq Inode,
         NEW l, l = Noded(r.dev, r.ino, BenchFiles(n)), SafeTo(h, r.dev, l, AtRisk(r)),
         NEW q, q = WriteEach(r, "sync", "inodes", DinodesOf(r, n))
  PROVE  WroteEach(h, s, q, r, l)
<1>1. PICK val, S, area : val = DinodesOf(r, n) /\ S = DinodeBlocks(n) /\ area = "inodes"
  OBVIOUS
<1>2. PICK w : w = Request(r, "sync", area, val)
  OBVIOUS
<1>3. r \in Runs /\ r.dev \in Device /\ r.ino \in [Inode -> Dinodes]
  BY StillIs
<1>4. S \in SUBSET Nat /\ IsFiniteSet(S) /\ S # {}
  BY <1>1, DinodeBlocksAre
<1>5. val \in [S -> Contents] /\ Put(r.dev, w) = l
  BY <1>1, <1>2, <1>3, DinodesRequest
<1>6. l \in Device
  BY <1>3, NodedDevice
<1>7. SafeOnce(h, r.dev, l, w, AtRisk(r))
  BY DEF SafeOnce, SafeTo
<1>8. PICK R : Led(h, s, r, On(r.dev, R))
  BY DEF Still
<1>9. area \in Written /\ q = WriteEach(r, "sync", area, val) /\ l = Put(r.dev, w)
  BY <1>1, <1>5 DEF Written
<1> QED BY <1>2, <1>4, <1>5, <1>6, <1>7, <1>8, <1>9, EachSync

\* Asynchronously.
LedFurther(h, s, q, t, area, R) ==
  \E z \in Points :
    /\ Led(h, s, q, z) /\ z.a = t.a /\ z.r = R
    /\ \A v \in z.p : v \in t.p \/ v.area = area

LEMMA DinodesAsync ==
  ASSUME NEW h, NEW s, NEW r, NEW t, Led(h, s, r, t), \A v \in t.p : v.area # "inodes",
         NEW n \in 1 .. 2, BenchFiles(n) \subseteq Inode,
         NEW l, l = Noded(r.dev, r.ino, BenchFiles(n)), SafeTo(h, t.a, l, AtRisk(r)),
         NEW q, q = WriteEach(r, "async", "inodes", DinodesOf(r, n))
  PROVE  /\ LedFurther(h, s, q, t, "inodes", AtRisk(r))
         /\ q.dev = l /\ q.mem = r.mem /\ q.ino = r.ino /\ q.ind = r.ind
         /\ q.open = r.open /\ q.unsaved = r.unsaved
<1>1. PICK val, S, area : val = DinodesOf(r, n) /\ S = DinodeBlocks(n) /\ area = "inodes"
  OBVIOUS
<1>2. PICK w : w = Request(r, "async", area, val)
  OBVIOUS
<1>3. r \in Runs /\ r.dev \in Device /\ r.ino \in [Inode -> Dinodes]
  BY DEF Led, Runs
<1>4. S \in SUBSET Nat /\ IsFiniteSet(S) /\ S # {}
  BY <1>1, DinodeBlocksAre
<1>5. val \in [S -> Contents] /\ Put(r.dev, w) = l
  BY <1>1, <1>2, <1>3, DinodesRequest
<1>6. l \in Device
  BY <1>3, NodedDevice
<1>7. \A x \in Device : Between(x, t.a, Put(r.dev, w)) => Safe(h, x, AtRisk(r))
  BY <1>5 DEF SafeTo
<1>8. \A v \in t.p : v.area # area \/ DOMAIN v.val \cap S = {}
  BY <1>1
<1>9. /\ S \in SUBSET Nat /\ IsFiniteSet(S) /\ S # {} /\ val \in [S -> Contents] /\ area \in Written
      /\ w = Request(r, "async", area, val) /\ Put(r.dev, w) \in Device
      /\ \A v \in t.p : v.area # area \/ DOMAIN v.val \cap S = {}
      /\ \A x \in Device : Between(x, t.a, Put(r.dev, w)) => Safe(h, x, AtRisk(r))
      /\ q = WriteEach(r, "async", area, val)
  BY <1>1, <1>2, <1>4, <1>5, <1>6, <1>7, <1>8 DEF Written
<1>10. /\ \E z \in Points :
            /\ Led(h, s, q, z) /\ z.a = t.a /\ z.r = AtRisk(r)
            /\ \A v \in z.p : v \in t.p \/ (v.area = area /\ DOMAIN v.val \subseteq S)
       /\ q.dev = Put(r.dev, w)
       /\ q.mem = r.mem /\ q.ino = r.ino /\ q.ind = r.ind
       /\ q.open = r.open /\ q.unsaved = r.unsaved
  BY <1>9, EachAsync
<1> QED BY <1>1, <1>5, <1>10 DEF LedFurther

\* The dinodes of the files of a benchmark.
LEMMA DinodesHold ==
  ASSUME NEW h, NEW s, NEW r, NEW how \in {"sync", "async"}, NEW n \in 1 .. 2, NEW size, NEW R, NEW hand,
         AllFlushed(h, s, r, how, n, size, R, hand), NEW d, d = r.dev, NEW m, m = r.mem,
         NEW F, F = BenchFiles(n), NEW l, l = Noded(d, r.ino, F),
         NEW q, q = WriteEach(r, how, "inodes", DinodesOf(r, n))
  PROVE  HasLoosened(h, s, q, r, how, d, m, F, hand, {"block", "inodes"}, l)
<1>1. /\ Stage(h, s, r, how, n, n, size, R, hand)
      /\ Afloat(h, s, r, how, hand, Wet(r)) /\ Empty(d, n) /\ r.open = {} /\ r.unsaved = R
      /\ Consistent(d, m, R, {}, hand, h)
  BY DEF AllFlushed, Stage
<1>2. /\ r \in Runs /\ d \in Device /\ m \in Memory /\ r.ino \in [Inode -> Dinodes]
  BY <1>1, AfloatRuns
<1>3. Consistent(d, m, R, F, hand, h) /\ F \subseteq R
  BY <1>1, FilesOut DEF BenchFiles
<1>4. BenchFiles(n) \subseteq Inode /\ AtRisk(r) = R
  BY <1>1 DEF Empty, BenchFiles, AtRisk
<1>5. l \in Device /\ d.bmap \subseteq m.bmap
  BY <1>1, <1>2, NodedDevice DEF Consistent
<1>6. Loose(l, d, m, F, hand)
  BY <1>2, <1>5, NodedLoose
<1>7. PICK t \in Points :
        /\ Led(h, s, r, t) /\ Adrift(t.a, d, hand)
        /\ \A v \in t.p : v.area = "block"
        /\ how = "sync" => t.p = {}
  BY <1>1 DEF Afloat
<1>8. t.a \in Device /\ Loose(t.a, d, m, F, hand)
  BY <1>5, <1>7 DEF Points, Adrift, Loose
<1>9. CASE how = "sync"
  <2>1. Still(h, s, r)
    BY <1>1, <1>9, SyncStill
  <2>2. Loose(d, d, m, F, hand)
    BY <1>5 DEF Loose
  <2>3. SafeTo(h, d, l, R)
    BY <1>2, <1>3, <1>5, <1>6, <2>2, LooseTo
  <2>4. WroteEach(h, s, q, r, l)
    BY <1>4, <1>9, <2>1, <2>3, DinodesSync
  <2>5. PICK z : z = On(l, AtRisk(r))
    OBVIOUS
  <2>6. /\ Led(h, s, q, z) /\ q.dev = l /\ q.mem = r.mem /\ q.ino = r.ino /\ q.ind = r.ind
        /\ q.open = r.open /\ q.unsaved = r.unsaved
    BY <2>4, <2>5 DEF WroteEach
  <2>7. z \in Points /\ z.a = l /\ z.p = {}
    BY <2>5, <2>6 DEF Led, On
  <2>8. Loosened(h, s, q, how, d, m, F, hand, {"block", "inodes"})
    BY <1>6, <2>6, <2>7 DEF Loosened
  <2> QED BY <2>6, <2>8 DEF HasLoosened
<1>10. CASE how = "async"
  <2>1. SafeTo(h, t.a, l, R)
    BY <1>2, <1>3, <1>5, <1>6, <1>8, LooseTo
  <2>2. \A v \in t.p : v.area # "inodes"
    BY <1>7
  <2>3. /\ LedFurther(h, s, q, t, "inodes", AtRisk(r))
        /\ q.dev = l /\ q.mem = r.mem /\ q.ino = r.ino /\ q.ind = r.ind
        /\ q.open = r.open /\ q.unsaved = r.unsaved
    BY <1>4, <1>7, <1>10, <2>1, <2>2, DinodesAsync
  <2>4. PICK z \in Points : /\ Led(h, s, q, z) /\ z.a = t.a
                            /\ \A v \in z.p : v \in t.p \/ v.area = "inodes"
    BY <2>3 DEF LedFurther
  <2>5. \A v \in z.p : v.area \in {"block", "inodes"}
    BY <1>7, <2>4
  <2>6. Loosened(h, s, q, how, d, m, F, hand, {"block", "inodes"})
    BY <1>6, <1>8, <1>10, <2>3, <2>4, <2>5 DEF Loosened
  <2> QED BY <2>3, <2>6 DEF HasLoosened
<1> QED BY <1>9, <1>10

-----------------------------------------------------------------------------
(***************************************************************************)
(* The volume with the files of a benchmark.                               *)
(***************************************************************************)

\* The file i is whole on the device l, and has the blocks b.
Home(l, m, i, size, b, h) ==
  /\ FileOK(l, i) /\ l.node[i].size = size /\ BlocksOf(l, i) = b
  /\ h = {} => \A c \in DataBlocks(l, i) : m.csum[c] = Csum(l.block[c])

LEMMA ComposedHome ==
  ASSUME NEW h, NEW r \in Runs, NEW i \in Inode, NEW R, NEW size, NEW D, NEW B,
         Composes(h, r, i, R, size, D, B), r.ind[i] = Zero,
         NEW l, l.node[i] = r.ino[i], l.block = r.dev.block
  PROVE  Home(l, r.mem, i, size, B, h)
<1>1. PICK words : words = r.dev.block[r.ino[i].indirect]
  OBVIOUS
<1>2. /\ Shape(r.dev, r.ino[i], words, size, D, B) /\ r.ino[i].size = size
      /\ h = {} => \A b \in D : r.mem.csum[b] = Csum(Data)
  BY <1>1 DEF Composes, Words
<1>3. Shape(l, l.node[i], words, size, D, B) /\ \A b \in D : l.block[b] = Data
  BY <1>2 DEF Shape
<1>4. l.node[i].size = size /\ (l.node[i].indirect # 0 => l.block[l.node[i].indirect] = words)
  BY <1>1, <1>2
<1>5. FileOK(l, i) /\ DataBlocks(l, i) = D /\ BlocksOf(l, i) = B
  BY <1>3, <1>4, ShapeFile
<1> QED BY <1>2, <1>3, <1>4, <1>5 DEF Home

LEMMA HomeCheckin ==
  ASSUME NEW l, NEW m, NEW R, NEW X, NEW hand, NEW h, Consistent(l, m, R, X, hand, h),
         NEW i \in X, i \in Entries(l), i \in l.imap, i \in R, NEW size, NEW b, b \subseteq hand,
         Home(l, m, i, size, b, h)
  PROVE  Consistent(l, m, R, X \ {i}, hand \ b, h)
<1>1. /\ FileOK(l, i) /\ BlocksOf(l, i) = b
      /\ h = {} => \A c \in DataBlocks(l, i) : m.csum[c] = Csum(l.block[c])
  BY DEF Home
<1>2. i \in X \cap Entries(l) /\ BlocksOf(l, i) \subseteq hand
  BY <1>1
<1>3. Consistent(l, m, R, X \ {i}, hand \ BlocksOf(l, i), h)
  BY <1>1, <1>2, Checkin
<1> QED BY <1>1, <1>3

\* What is on the device once the dinodes have landed.
Housed(l, m, ino, n, size, R, h) ==
  /\ l \in Device /\ Consistent(l, m, R, {}, {}, h) /\ Mirror(l, m) /\ l.node = ino
  /\ Entries(l) = BenchFiles(n) /\ \A i \in BenchFiles(n) : l.node[i].size = size

LEMMA DinodesHouse ==
  ASSUME NEW h, NEW s, NEW r, NEW how, NEW n \in 1 .. 2, NEW size, NEW R, NEW hand,
         AllFlushed(h, s, r, how, n, size, R, hand), NEW l, l = Noded(r.dev, r.ino, BenchFiles(n))
  PROVE  Housed(l, r.mem, r.ino, n, size, R, h)
<1>1. /\ Stage(h, s, r, how, n, n, size, R, hand)
      /\ Afloat(h, s, r, how, hand, Wet(r)) /\ Empty(r.dev, n) /\ r.open = {} /\ r.unsaved = R
      /\ Consistent(r.dev, r.mem, R, {}, hand, h) /\ Mirror(r.dev, r.mem)
      /\ \A j \in Inode \ (1 .. n) : r.ino[j] = r.dev.node[j]
      /\ \A j \in Inode : r.ind[j] = Zero
      /\ Entries(r.dev) = 1 .. n
  BY DEF AllFlushed, Stage
<1>2. PICK d, m, F : d = r.dev /\ m = r.mem /\ F = 1 .. n
  OBVIOUS
<1>3. /\ r \in Runs /\ d \in Device /\ m \in Memory /\ r.ino \in [Inode -> Dinodes]
  BY <1>1, <1>2, AfloatRuns
<1>4. Consistent(d, m, R, F, hand, h) /\ F \subseteq R
  BY <1>1, <1>2, FilesOut
<1>5. F \subseteq Inode /\ l = Noded(d, r.ino, F) /\ d.bmap \subseteq m.bmap
  BY <1>1, <1>2 DEF Empty, BenchFiles, Consistent
<1>6. l \in Device /\ Loose(l, d, m, F, hand)
  BY <1>3, <1>5, NodedDevice, NodedLoose
<1>7. Consistent(l, m, R, F, hand, h) /\ Entries(l) = F
  <2>1. Consistent(l, m, R, F, hand, h) /\ Entries(l) = Entries(d)
    BY <1>3, <1>4, <1>6, LooseSafe
  <2> QED BY <1>1, <1>2, <2>1
<1>8. /\ l.imap = d.imap /\ l.csum = d.csum /\ l.block = d.block
      /\ l.node = [i \in Inode |-> IF i \in F THEN r.ino[i] ELSE d.node[i]]
  BY <1>3, <1>5, NodedIs
<1>9. l.node = r.ino
  <2>1. \A i \in Inode : l.node[i] = r.ino[i]
    BY <1>1, <1>2, <1>8
  <2>2. l.node \in [Inode -> Dinodes]
    BY <1>6 DEF Device
  <2> QED BY <1>3, <2>1, <2>2
<1>10. F \subseteq l.imap
  BY <1>1, <1>2, <1>4, <1>8 DEF Consistent, Sound, Reached
<1>11. PICK D, B : InHand(h, r, n, R, size, hand, D, B)
  BY <1>1 DEF Stage
<1>12. \A i \in F : Home(l, m, i, size, B[i], h)
  <2>1. ASSUME NEW i \in F PROVE Home(l, m, i, size, B[i], h)
    <3>1. PICK e, b : e = D[i] /\ b = B[i]
      OBVIOUS
    <3>2. Composes(h, r, i, R, size, e, b)
      BY <1>2, <1>11, <2>1, <3>1 DEF InHand
    <3>3. r.ind[i] = Zero /\ l.node[i] = r.ino[i] /\ l.block = r.dev.block /\ i \in Inode
      BY <1>1, <1>2, <1>5, <1>8, <1>9, <2>1
    <3>4. Home(l, r.mem, i, size, b, h)
      BY <1>3, <3>2, <3>3, ComposedHome
    <3> QED BY <1>2, <3>1, <3>4
  <2> QED BY <2>1
<1>13. /\ hand = UNION {B[i] : i \in 1 .. n}
       /\ \A i, j \in 1 .. n : i # j => B[i] \cap B[j] = {}
  BY <1>11 DEF InHand
<1>14. PICK k, j, b, c : k = 1 /\ j = 2 /\ b = B[k] /\ c = B[j]
  OBVIOUS
<1>15. Consistent(l, m, R, F \ {k}, hand \ b, h)
  <2>1. k \in F /\ b \subseteq hand
    BY <1>2, <1>13, <1>14
  <2>2. Home(l, m, k, size, b, h) /\ k \in Entries(l) /\ k \in l.imap /\ k \in R
    BY <1>4, <1>7, <1>10, <1>12, <1>14, <2>1
  <2> QED BY ONLY <1>7, <2>1, <2>2, HomeCheckin
<1>16. Consistent(l, m, R, {}, {}, h)
  <2>1. CASE n = 1
    <3>1. F \ {k} = {} /\ hand \ b = {}
      BY <1>2, <1>13, <1>14, <2>1
    <3> QED BY <1>15, <3>1
  <2>2. CASE n = 2
    <3>1. PICK X, o : X = F \ {k} /\ o = hand \ b
      OBVIOUS
    <3>2. X = {j} /\ o = c
      <4>1. 1 .. n = {k, j}
        BY <1>14, <2>2
      <4>2. hand = b \cup c /\ b \cap c = {}
        BY <1>13, <1>14, <4>1
      <4> QED BY <1>2, <1>14, <3>1, <4>1, <4>2
    <3>3. j \in X /\ c \subseteq o /\ j \in F
      BY <1>2, <1>14, <2>2, <3>2
    <3>4. Home(l, m, j, size, c, h) /\ j \in Entries(l) /\ j \in l.imap /\ j \in R
      BY <1>4, <1>7, <1>10, <1>12, <1>14, <3>3
    <3>5. Consistent(l, m, R, X, o, h)
      BY <1>15, <3>1
    <3>6. Consistent(l, m, R, X \ {j}, o \ c, h)
      BY ONLY <3>3, <3>4, <3>5, HomeCheckin
    <3>7. X \ {j} = {} /\ o \ c = {}
      BY <3>2
    <3> QED BY <3>6, <3>7
  <2> QED BY <2>1, <2>2
<1>17. Mirror(l, m)
  BY <1>1, <1>2, <1>8 DEF Mirror
<1>18. \A i \in F : l.node[i].size = size
  BY <1>12 DEF Home
<1> QED BY <1>2, <1>6, <1>7, <1>9, <1>16, <1>17, <1>18 DEF Housed, BenchFiles

-----------------------------------------------------------------------------
(***************************************************************************)
(* testfs_flush_csum.                                                      *)
(***************************************************************************)
SumsOf(r) == [g \in r.mem.dirty |-> CsumOf(r, g)]

LEMMA SumsRequest ==
  ASSUME NEW r \in Runs, NEW how, NEW val, val = SumsOf(r),
         NEW G, G = r.mem.dirty, NEW w, w = Request(r, how, "csum", val)
  PROVE  /\ G \in SUBSET Nat /\ IsFiniteSet(G) /\ val \in [G -> Contents]
         /\ w \in Requests /\ w.val = val /\ Put(r.dev, w) = Summed(r.dev, r.mem, G)
<1>1. r.dev \in Device /\ r.mem \in Memory /\ r.mem.csum \in [Block -> SUBSET Bit] /\ G \subseteq Groups
  BY DEF Runs, Memory
<1>2. G \in SUBSET Nat /\ IsFiniteSet(G)
  BY <1>1, GroupsAre, FS_Subset
<1>3. \A g \in G : val[g] = CsumOf(r, g) /\ val[g] \in Contents
  <2>1. ASSUME NEW g \in G PROVE val[g] = CsumOf(r, g) /\ val[g] \in Contents
    <3>1. PICK S : S = InGroup(g)
      OBVIOUS
    <3>2. S \in SUBSET Block /\ val[g] = CsumOf(r, g)
      BY <2>1, <3>1 DEF InGroup, SumsOf
    <3>3. val[g] \in [S -> SUBSET Bit]
      BY <1>1, <3>1, <3>2 DEF CsumOf
    <3> QED BY <3>2, <3>3, ContentsAre
  <2> QED BY <2>1
<1>4. val \in [G -> Contents]
  BY <1>3 DEF SumsOf
<1>5. PICK area : area = "csum"
  OBVIOUS
<1>6. w \in Requests /\ w.area = area /\ w.val = val
  <2>1. val \in Vals /\ area \in Written
    BY <1>2, <1>4, <1>5, ValsAre DEF Written
  <2>2. w = Request(r, how, area, val)
    BY <1>5
  <2>3. Request(r, how, area, val) \in Requests
    BY <2>1, RequestIs
  <2>4. w \in Requests
    BY <2>2, <2>3
  <2>5. w.area = area /\ w.val = val
    BY <2>2 DEF Request
  <2> QED BY <2>4, <2>5
<1>7. Put(r.dev, w) = Summed(r.dev, r.mem, G)
  <2>1. PICK d, m : d = r.dev /\ m = r.mem
    OBVIOUS
  <2>2. \A g \in G : \A b \in InGroup(g) : w.val[g][b] = m.csum[b]
    <3>1. ASSUME NEW g \in G, NEW b \in InGroup(g) PROVE w.val[g][b] = m.csum[b]
      <4>1. w.val[g] = CsumOf(r, g)
        BY <1>3, <1>6, <3>1
      <4>2. CsumOf(r, g)[b] = r.mem.csum[b]
        BY <3>1 DEF CsumOf
      <4> QED BY <2>1, <4>1, <4>2
    <3> QED BY <3>1
  <2>3. d \in Device /\ w.area = "csum" /\ DOMAIN w.val = G
    BY <1>1, <1>4, <1>5, <1>6, <2>1
  <2>4. Put(d, w) = Summed(d, m, G)
    BY <2>2, <2>3, PutSummed
  <2> QED BY <2>1, <2>4
<1> QED BY <1>2, <1>4, <1>6, <1>7

\* The checksums of memory are on the device.
HasSummed(q, r) ==
  /\ q.dev = Summed(r.dev, r.mem, r.mem.dirty) /\ q.mem = [r.mem EXCEPT !.dirty = {}]
  /\ q.ino = r.ino /\ q.ind = r.ind /\ q.open = r.open /\ q.unsaved = r.unsaved

Cleaned(r) == [r EXCEPT !.mem.dirty = {}]

LEMMA FlushCsumIs ==
  ASSUME NEW r, NEW how
  PROVE  FlushCsum(r, how) = Cleaned(WriteEach(r, how, "csum", SumsOf(r)))
BY DEF FlushCsum, Cleaned, SumsOf

LEMMA CleanedIs ==
  ASSUME NEW r \in Runs, NEW q, q = Cleaned(r)
  PROVE  /\ Same(q, r) /\ q.mem = [r.mem EXCEPT !.dirty = {}]
         /\ q.open = r.open /\ q.unsaved = r.unsaved
<1>1. q = [r EXCEPT !.mem.dirty = {}]
  BY DEF Cleaned
<1>2. {} \in SUBSET Groups
  OBVIOUS
<1> QED BY ZenonT(40), <1>1, <1>2 DEF Same, Runs, Memory

\* Synchronously,
LEMMA FlushCsumSync ==
  ASSUME NEW h, NEW s, NEW r, Settled(h, s, r),
         SafeTo(h, r.dev, Summed(r.dev, r.mem, r.mem.dirty), AtRisk(r)),
         r.writes # <<>>, NEW q, q = FlushCsum(r, "sync")
  PROVE  HasSummed(q, r) /\ Settled(h, s, q) /\ q.writes # <<>>
<1>1. PICK val, G, area, l :
        /\ val = SumsOf(r) /\ G = r.mem.dirty /\ area = "csum" /\ l = Summed(r.dev, r.mem, G)
  OBVIOUS
<1>2. PICK w : w = Request(r, "sync", area, val)
  OBVIOUS
<1>3. r \in Runs /\ r.dev \in Device /\ r.mem \in Memory
  BY SettledStill, StillIs
<1>4. /\ G \in SUBSET Nat /\ IsFiniteSet(G) /\ val \in [G -> Contents]
      /\ Put(r.dev, w) = l
  BY <1>1, <1>2, <1>3, SumsRequest
<1>5. l \in Device
  BY <1>1, <1>3, SummedDevice
<1>6. PICK v : v = WriteEach(r, "sync", area, val)
  OBVIOUS
<1>7. WroteEach(h, s, v, r, l)
  <2>1. PICK R : R = AtRisk(r)
    OBVIOUS
  <2>2. SafeOnce(h, r.dev, l, w, AtRisk(r))
    BY <1>1 DEF SafeOnce, SafeTo
  <2>3. Led(h, s, r, On(r.dev, R)) /\ (G # {} \/ R = AtRisk(r))
    BY <2>1 DEF Settled
  <2>4. area \in Written /\ l = Put(r.dev, w)
    BY <1>1, <1>4 DEF Written
  <2> QED BY <1>2, <1>4, <1>5, <1>6, <2>2, <2>3, <2>4, EachSync
<1>8. /\ Led(h, s, v, On(l, AtRisk(r))) /\ v.dev = l
      /\ v.mem = r.mem /\ v.ino = r.ino /\ v.ind = r.ind
      /\ v.open = r.open /\ v.unsaved = r.unsaved
      /\ v.writes # <<>>
  BY <1>7 DEF WroteEach
<1>9. v \in Runs
  BY <1>8 DEF Led
<1>10. q = Cleaned(v)
  BY <1>1, <1>6, FlushCsumIs
<1>11. /\ Same(q, v) /\ q.mem = [v.mem EXCEPT !.dirty = {}]
       /\ q.open = v.open /\ q.unsaved = v.unsaved
  BY <1>9, <1>10, CleanedIs
<1>12. q.writes # <<>> /\ HasSummed(q, r) /\ q.dev = l
  BY <1>1, <1>8, <1>11 DEF Same, HasSummed
<1>13. Settled(h, s, q)
  <2>1. PICK t : t = On(l, AtRisk(r))
    OBVIOUS
  <2>2. Led(h, s, q, t)
    BY <1>8, <1>11, <2>1, LedSame
  <2>3. AtRisk(q) = AtRisk(r)
    BY <1>8, <1>11 DEF AtRisk
  <2> QED BY <1>12, <2>1, <2>2, <2>3 DEF Settled
<1> QED BY <1>12, <1>13

\* ... and asynchronously.
Untouched(q, r) ==
  Same(q, r) /\ q.mem = r.mem /\ q.open = r.open /\ q.unsaved = r.unsaved

LEMMA NothingEach ==
  ASSUME NEW r \in Runs, NEW how, NEW area \in Written, NEW G, G = {}, NEW val \in [G -> Contents],
         NEW q, q = WriteEach(r, how, area, val)
  PROVE  Untouched(q, r)
<1>1. PICK w : w = Request(r, how, area, val)
  OBVIOUS
<1>2. G \in SUBSET Nat /\ IsFiniteSet(G) /\ Cardinality(G) = 0 /\ val \in Vals
  BY FS_EmptySet, ValsAre
<1>3. w \in Requests /\ DOMAIN w.val = {} /\ r.dev \in Device
  <2>1. w \in Requests /\ w.val = val
    <3>1. Request(r, how, area, val) \in Requests
      BY <1>2, RequestIs
    <3> QED BY <1>1, <3>1 DEF Request
  <2> QED BY <2>1 DEF Runs
<1>4. Put(r.dev, w) = r.dev
  <2>1. PICK d : d = r.dev
    OBVIOUS
  <2>2. Put(d, w) = d
    BY <1>3, <2>1, PartNothing
  <2> QED BY <2>1, <2>2
<1>5. PICK u \in Seq(Requests) : Became(q, r, u, Put(r.dev, w)) /\ Apart(u, how, w, G)
  BY <1>1, <1>2, <1>3, <1>4, EachIs
<1>6. u = <<>> /\ r.writes \in Seq(Requests)
  BY <1>2, <1>5 DEF Apart, Runs
<1>7. q.writes = r.writes
  BY <1>5, <1>6 DEF Became
<1> QED BY <1>4, <1>5, <1>7 DEF Became, Same, Untouched

LEMMA FlushCsumAsync ==
  ASSUME NEW h, NEW s, NEW r, NEW t, Led(h, s, r, t), \A v \in t.p : v.area # "csum",
         SafeTo(h, t.a, Summed(r.dev, r.mem, r.mem.dirty), AtRisk(r)),
         NEW q, q = FlushCsum(r, "async")
  PROVE  HasSummed(q, r) /\ \E z : Led(h, s, q, z)
<1>1. PICK val, G, area, l :
        /\ val = SumsOf(r) /\ G = r.mem.dirty /\ area = "csum" /\ l = Summed(r.dev, r.mem, G)
  OBVIOUS
<1>2. PICK w : w = Request(r, "async", area, val)
  OBVIOUS
<1>3. r \in Runs /\ r.dev \in Device /\ r.mem \in Memory
  BY DEF Led, Runs
<1>4. /\ G \in SUBSET Nat /\ IsFiniteSet(G) /\ val \in [G -> Contents]
      /\ Put(r.dev, w) = l /\ w \in Requests /\ w.val = val
  BY <1>1, <1>2, <1>3, SumsRequest
<1>5. l \in Device
  BY <1>1, <1>3, SummedDevice
<1>6. PICK v : v = WriteEach(r, "async", area, val)
  OBVIOUS
<1>7. /\ \E z : Led(h, s, v, z)
      /\ v.dev = l /\ v.mem = r.mem /\ v.ino = r.ino /\ v.ind = r.ind
      /\ v.open = r.open /\ v.unsaved = r.unsaved
  <2>1. CASE G = {}
    <3>1. area \in Written
      BY <1>1 DEF Written
    <3>2. /\ Same(v, r) /\ v.mem = r.mem /\ v.open = r.open /\ v.unsaved = r.unsaved
      <4>1. /\ r \in Runs /\ area \in Written /\ G = {} /\ val \in [G -> Contents]
            /\ v = WriteEach(r, "async", area, val)
        BY <1>3, <1>4, <1>6, <2>1, <3>1
      <4>2. Untouched(v, r)
        BY ONLY <4>1, NothingEach
      <4> QED BY <4>2 DEF Untouched
    <3>3. Led(h, s, v, t)
      BY <3>2, LedSame
    <3>4. l = r.dev
      <4>1. PICK d : d = r.dev
        OBVIOUS
      <4>2. Put(d, w) = d
        BY <1>3, <1>4, <2>1, <4>1, PartNothing
      <4> QED BY <1>4, <4>1, <4>2
    <3> QED BY <3>2, <3>3, <3>4 DEF Same
  <2>2. CASE G # {}
    <3>1. \A x \in Device : Between(x, t.a, Put(r.dev, w)) => Safe(h, x, AtRisk(r))
      BY <1>1, <1>4 DEF SafeTo
    <3>2. /\ G \in SUBSET Nat /\ IsFiniteSet(G) /\ G # {} /\ val \in [G -> Contents] /\ area \in Written
          /\ w = Request(r, "async", area, val) /\ Put(r.dev, w) \in Device
          /\ \A y \in t.p : y.area # area \/ DOMAIN y.val \cap G = {}
          /\ \A x \in Device : Between(x, t.a, Put(r.dev, w)) => Safe(h, x, AtRisk(r))
          /\ v = WriteEach(r, "async", area, val)
      BY <1>1, <1>2, <1>4, <1>5, <1>6, <2>2, <3>1 DEF Written
    <3>3. /\ \E z \in Points :
               /\ Led(h, s, v, z) /\ z.a = t.a /\ z.r = AtRisk(r)
               /\ \A y \in z.p : y \in t.p \/ (y.area = area /\ DOMAIN y.val \subseteq G)
          /\ v.dev = Put(r.dev, w)
          /\ v.mem = r.mem /\ v.ino = r.ino /\ v.ind = r.ind
          /\ v.open = r.open /\ v.unsaved = r.unsaved
      BY <3>2, EachAsync
    <3> QED BY <1>4, <3>3
  <2> QED BY <2>1, <2>2
<1>8. PICK z : Led(h, s, v, z)
  BY <1>7
<1>9. v \in Runs
  BY <1>8 DEF Led
<1>10. q = Cleaned(v)
  BY <1>1, <1>6, FlushCsumIs
<1>11. /\ Same(q, v) /\ q.mem = [v.mem EXCEPT !.dirty = {}]
       /\ q.open = v.open /\ q.unsaved = v.unsaved
  BY <1>9, <1>10, CleanedIs
<1>12. HasSummed(q, r)
  BY <1>1, <1>7, <1>11 DEF Same, HasSummed
<1>13. Led(h, s, q, z)
  BY <1>8, <1>11, LedSame
<1> QED BY <1>12, <1>13

-----------------------------------------------------------------------------
(***************************************************************************)
(* The end of a benchmark.                                                 *)
(***************************************************************************)
LEMMA SoundIntact ==
  ASSUME NEW d, NEW R, FsExists(d), Sound(d, d.bmap, R), NEW i \in Reached(d) \ R
  PROVE  Intact(d, i, Reached(d) \ R)
<1>1. i \in d.imap /\ BlocksOf(d, i) \subseteq d.bmap
  BY DEF Sound
<1>2. \A j \in (Reached(d) \ R) \ {i} : BlocksOf(d, i) \cap BlocksOf(d, j) = {}
  BY DEF Sound
<1>3. i = Root => d.node[i].type = "dir"
  BY DEF Sound, DirOK
<1>4. ASSUME i # Root
      PROVE  /\ d.node[i].type = "file"
             /\ Cardinality(DataBlocks(d, i)) = d.node[i].size
             /\ \A b \in DataBlocks(d, i) : d.block[b] = Data
  <2>1. i \in Entries(d)
    BY <1>4 DEF Reached
  <2>2. FileOK(d, i)
    BY <2>1 DEF Sound
  <2>3. d.node[i].type = "file"
    BY <2>2 DEF FileOK
  <2> QED BY <2>2, <2>3, FileBlocks
<1> QED BY <1>1, <1>2, <1>3, <1>4 DEF Intact, File

\* Checksums on the device are nobody's concern, and what memory has dirty.
LEMMA SumsBeside ==
  ASSUME NEW d \in Device, NEW x \in Device, NEW m \in Memory, NEW n, NEW R, NEW h,
         Consistent(d, m, R, {}, {}, h),
         x.imap = d.imap, x.bmap = d.bmap, x.node = d.node, x.block = d.block,
         n.bmap = m.bmap, n.imap = m.imap, n.csum = m.csum
  PROVE  Consistent(x, n, R, {}, {}, h) /\ Entries(x) = Entries(d)
<1>1. PICK Z : Z = {}
  OBVIOUS
<1>2. Consistent(d, m, R, Z, Z, h) /\ d.bmap \subseteq m.bmap /\ d.imap = m.imap
  BY <1>1 DEF Consistent
<1>3. Beside(x, n, d, m, Z, Z, Z, h)
  BY <1>1, <1>2 DEF Beside
<1>4. Consistent(x, n, R, Z, Z, h) /\ Entries(x) = Entries(d)
  BY <1>2, <1>3, BesideIs
<1> QED BY <1>1, <1>4

\* On the way the program may stop.
LEMMA SumsSafe ==
  ASSUME NEW d \in Device, NEW m \in Memory, NEW R, NEW h, Consistent(d, m, R, {}, {}, h),
         NEW G, NEW e, e = Summed(d, m, G)
  PROVE  e \in Device /\ SafeTo(h, d, e, R) /\ Safe(h, e, R)
<1>1. e \in Device
  BY SummedDevice
<1>2. /\ e.imap = d.imap /\ e.bmap = d.bmap /\ e.node = d.node /\ e.block = d.block
  BY DEF Summed, Device
<1>3. ASSUME NEW x \in Device, Between(x, d, e) PROVE Safe(h, x, R)
  <2>1. /\ x.imap = d.imap /\ x.bmap = d.bmap /\ x.node = d.node /\ x.block = d.block
    <3>1. x.imap = d.imap /\ x.bmap \subseteq Block /\ d.bmap \subseteq Block
      BY <1>2, <1>3 DEF Between, Device
    <3>2. \A b \in Block : (b \in x.bmap <=> b \in d.bmap) /\ x.block[b] = d.block[b]
      BY <1>2, <1>3 DEF Between
    <3>3. \A i \in Inode : x.node[i] = d.node[i]
      BY <1>2, <1>3 DEF Between
    <3>4. /\ x.block \in [Block -> Seq(Word)] /\ d.block \in [Block -> Seq(Word)]
          /\ x.node \in [Inode -> Dinodes] /\ d.node \in [Inode -> Dinodes]
      BY DEF Device
    <3>5. x.bmap = d.bmap
      BY <3>1, <3>2
    <3> QED BY <3>1, <3>2, <3>3, <3>4, <3>5
  <2>2. PICK Z : Z = {}
    OBVIOUS
  <2>3. Consistent(x, m, R, Z, Z, h)
    BY <2>1, <2>2, SumsBeside
  <2>4. Fits(x, R, Z, R)
    BY <2>2 DEF Fits, Consistent, File
  <2> QED BY <2>3, <2>4, FitsSafe
<1>4. Between(e, d, e)
  BY BetweenEnds
<1> QED BY <1>1, <1>3, <1>4 DEF SafeTo

\* The volume once all of it is on the device.
Ended(e, n, ino, size, h) ==
  /\ e \in Device /\ Consistent(e, n, {}, {}, {}, h) /\ Mirror(e, n) /\ e.node = ino
  /\ Durable(e, n, size)

LEMMA HousedEnds ==
  ASSUME NEW l, NEW m \in Memory, NEW ino, NEW n, NEW size, NEW R, NEW h, Housed(l, m, ino, n, size, R, h),
         NEW d, d = FullMarked(l, m), NEW e, e = Summed(d, m, m.dirty),
         NEW k, k = [m EXCEPT !.dirty = {}]
  PROVE  Ended(e, k, ino, size, h)
<1>1. /\ l \in Device /\ Consistent(l, m, R, {}, {}, h) /\ Mirror(l, m) /\ l.node = ino
      /\ Entries(l) = BenchFiles(n) /\ \A i \in BenchFiles(n) : l.node[i].size = size
  BY DEF Housed
<1>2. /\ d \in Device /\ d.bmap = m.bmap /\ d.imap = l.imap /\ d.csum = l.csum
      /\ d.node = l.node /\ d.block = l.block
  BY <1>1, FullMarkedIs
<1>3. Consistent(d, m, {}, {}, {}, h)
  <2>1. /\ \A x \in Device : Between(x, l, d) => Consistent(x, m, R, {}, {}, h)
        /\ Consistent(d, m, {}, {}, {}, h)
    BY <1>1, FlushedConsistent
  <2> QED BY <2>1
<1>4. /\ e \in Device /\ e.imap = d.imap /\ e.bmap = d.bmap /\ e.node = d.node /\ e.block = d.block
      /\ e.csum = [b \in Block |-> IF Group(b) \in m.dirty THEN m.csum[b] ELSE d.csum[b]]
  <2>1. PICK G : G = m.dirty
    OBVIOUS
  <2>2. e = Summed(d, m, G)
    BY <2>1
  <2>3. e \in Device
    BY <1>2, <2>2, SummedDevice
  <2> QED BY <1>2, <2>1, <2>2, <2>3 DEF Summed, Device
<1>5. k.bmap = m.bmap /\ k.imap = m.imap /\ k.csum = m.csum /\ k.dirty = {}
  BY DEF Memory
<1>6. Consistent(e, k, {}, {}, {}, h) /\ Entries(e) = Entries(d)
  <2>1. PICK Q : Q = {}
    OBVIOUS
  <2>2. Consistent(d, m, Q, {}, {}, h)
    BY <1>3, <2>1
  <2>3. Consistent(e, k, Q, {}, {}, h) /\ Entries(e) = Entries(d)
    BY ZenonT(40), <1>2, <1>4, <1>5, <2>2, SumsBeside
  <2> QED BY <2>1, <2>3
<1>7. Entries(e) = BenchFiles(n)
  <2>1. Entries(d) = Entries(l)
    BY <1>2, SameEntries
  <2> QED BY <1>1, <1>6, <2>1
<1>8. e.csum = k.csum
  <2>1. \A b \in Block : e.csum[b] = m.csum[b]
    BY <1>1, <1>2, <1>4 DEF Mirror
  <2>2. e.csum \in [Block -> SUBSET Bit] /\ m.csum \in [Block -> SUBSET Bit]
    BY <1>4 DEF Device, Memory
  <2> QED BY <1>5, <2>1, <2>2
<1>9. \A i \in Entries(e) : e.node[i].size = size /\ Intact(e, i, Reached(e))
  <2>1. PICK Z : Z = {}
    OBVIOUS
  <2>2. FsExists(e) /\ Sound(e, e.bmap, Z) /\ Reached(e) \ Z = Reached(e)
    BY <1>2, <1>4, <1>5, <1>6, <2>1 DEF Consistent
  <2>3. ASSUME NEW i \in Entries(e) PROVE Intact(e, i, Reached(e))
    <3>1. i \in Reached(e) \ Z
      BY <2>1, <2>2, <2>3 DEF Reached
    <3>2. Intact(e, i, Reached(e) \ Z)
      BY <2>2, <3>1, SoundIntact
    <3> QED BY <2>2, <3>2
  <2> QED BY <1>1, <1>2, <1>4, <1>7, <2>3
<1>10. Durable(e, k, size)
  BY <1>2, <1>4, <1>5, <1>6, <1>8, <1>9 DEF Durable, Consistent
<1>11. Mirror(e, k)
  BY <1>8 DEF Mirror
<1> QED BY <1>1, <1>2, <1>4, <1>6, <1>10, <1>11 DEF Ended

LEMMA NothingUnderWay ==
  ASSUME NEW h, NEW s, NEW r, NEW t, Led(h, s, r, t), t.p = {}
  PROVE  Still(h, s, r)
<1>1. r \in Runs /\ t \in Points /\ t.up /\ t.l = r.dev /\ Covered(t.a, t.l, t.p)
  BY DEF Led
<1>2. t.a \in Device /\ t.l \in Device
  BY <1>1 DEF Points
<1>3. t.a = t.l
  BY <1>1, <1>2, SameDevice DEF Covered
<1>4. t = On(r.dev, t.r)
  BY <1>1, <1>3 DEF Points, On
<1>5. Led(h, s, r, On(r.dev, t.r))
  BY <1>4
<1> QED BY <1>5 DEF Still

\* The files of a benchmark are on the device, its freemap and checksums not.
HasBulk(h, s, q, how, n, size, R, hand) ==
  \E d, m, F, l :
    /\ HasLoosened(h, s, q, q, how, d, m, F, hand, {"block", "inodes"}, l)
    /\ Housed(l, m, q.ino, n, size, R, h)
    /\ d \in Device /\ m \in Memory /\ Consistent(d, m, R, F, hand, h) /\ F \subseteq R
    /\ q.mem = m /\ \A i \in Inode : q.ind[i] = Zero
    /\ q.open = {} /\ q.unsaved = R

LEMMA BulkHolds ==
  ASSUME NEW h, NEW s, NEW r, NEW how \in {"sync", "async"}, NEW n \in 1 .. 2, NEW size, NEW R, NEW hand,
         Stage(h, s, r, how, n, n, size, R, hand), NEW q, q = BulkSync(r, n, how)
  PROVE  HasBulk(h, s, q, how, n, size, R, hand)
<1>1. PICK a : a = FlushIndirects(r, n, how)
  OBVIOUS
<1>2. AllFlushed(h, s, a, how, n, size, R, hand)
  BY <1>1, FlushIndirectsHolds
<1>3. PICK d, m, F : d = a.dev /\ m = a.mem /\ F = BenchFiles(n)
  OBVIOUS
<1>4. PICK l : l = Noded(d, a.ino, F)
  OBVIOUS
<1>5. q = WriteEach(a, how, "inodes", DinodesOf(a, n))
  BY <1>1, BulkSyncIs
<1>6. HasLoosened(h, s, q, a, how, d, m, F, hand, {"block", "inodes"}, l)
  BY <1>2, <1>3, <1>4, <1>5, DinodesHold
<1>7. Housed(l, m, a.ino, n, size, R, h)
  <2>1. l = Noded(a.dev, a.ino, BenchFiles(n))
    BY <1>3, <1>4
  <2>2. Housed(l, a.mem, a.ino, n, size, R, h)
    BY <1>2, <2>1, DinodesHouse
  <2> QED BY <1>3, <2>2
<1>8. /\ q.mem = m /\ q.ino = a.ino /\ q.ind = a.ind /\ q.open = a.open /\ q.unsaved = a.unsaved
  BY <1>3, <1>6 DEF HasLoosened
<1>9. /\ Stage(h, s, a, how, n, n, size, R, hand) /\ \A i \in Inode : a.ind[i] = Zero
  BY <1>2 DEF AllFlushed
<1>10. a.open = {} /\ a.unsaved = R /\ a \in Runs
  BY <1>9 DEF Stage
<1>11. Consistent(d, m, R, F, hand, h) /\ F \subseteq R
  BY <1>3, <1>9, FilesOut DEF BenchFiles
<1>12. d \in Device /\ m \in Memory
  BY <1>3, <1>10 DEF Runs
<1>13. HasLoosened(h, s, q, q, how, d, m, F, hand, {"block", "inodes"}, l)
  BY <1>6 DEF HasLoosened
<1> QED BY <1>7, <1>8, <1>9, <1>10, <1>11, <1>12, <1>13 DEF HasBulk

\* What a benchmark leaves.
BenchDone(h, s, q, size) ==
  /\ AtRest(h, s, q, {}) /\ Settled(h, s, q) /\ q.writes # <<>>
  /\ Durable(q.dev, q.mem, size)

LEMMA EndedDone ==
  ASSUME NEW h, NEW s, NEW q, Settled(h, s, q), q.writes # <<>>,
         NEW ino, NEW size, Ended(q.dev, q.mem, ino, size, h), q.ino = ino,
         \A i \in Inode : q.ind[i] = Zero, q.open = {}, q.unsaved = {}
  PROVE  BenchDone(h, s, q, size)
<1>1. Still(h, s, q)
  BY SettledStill
<1> QED BY <1>1 DEF BenchDone, AtRest, Holds, Ended

\* The freemap and the checksums, by benchmark_sync_writes.
LEMMA SyncEnds ==
  ASSUME NEW h, NEW s, NEW b, Still(h, s, b), NEW l, l = b.dev, NEW m, m = b.mem,
         NEW ino, ino = b.ino, NEW n, NEW size, NEW R, Housed(l, m, ino, n, size, R, h),
         \A i \in Inode : b.ind[i] = Zero, b.open = {}, b.unsaved = R,
         NEW q, q = FlushCsum(FlushBlockFreemap(b), "sync")
  PROVE  BenchDone(h, s, q, size)
<1>1. PICK c : c = FlushBlockFreemap(b)
  OBVIOUS
<1>2. l \in Device /\ m \in Memory /\ Consistent(l, m, R, {}, {}, h) /\ AtRisk(b) = R
  BY StillIs DEF Housed, AtRisk
<1>3. PICK d, e, k : d = FullMarked(l, m) /\ e = Summed(d, m, m.dirty) /\ k = [m EXCEPT !.dirty = {}]
  OBVIOUS
<1>4. Ended(e, k, ino, size, h)
  BY <1>2, <1>3, HousedEnds
<1>5. /\ \A x \in Device : Between(x, l, d) => Consistent(x, m, R, {}, {}, h)
      /\ Consistent(d, m, {}, {}, {}, h)
  BY <1>2, <1>3, FlushedConsistent
<1>6. d \in Device
  BY <1>2, <1>3, FullMarkedIs
<1>7. PICK Z : Z = {}
  OBVIOUS
<1>8. SafeTo(h, l, d, R)
  <2>1. ASSUME NEW x \in Device, Between(x, l, d) PROVE Safe(h, x, R)
    <3>1. Consistent(x, m, R, Z, Z, h)
      BY <1>5, <1>7, <2>1
    <3>2. Fits(x, R, Z, R)
      BY <1>2, <1>7 DEF Fits, File, Consistent
    <3> QED BY <3>1, <3>2, FitsSafe
  <2> QED BY <2>1 DEF SafeTo
<1>9. Safe(h, d, Z) /\ SafeTo(h, d, e, Z)
  <2>1. Consistent(d, m, Z, Z, Z, h) /\ Consistent(d, m, Z, {}, {}, h)
    BY <1>5, <1>7
  <2>2. Fits(d, Z, Z, Z)
    BY <1>7 DEF Fits
  <2>3. Safe(h, d, Z)
    BY <2>1, <2>2, FitsSafe
  <2>4. PICK G : G = m.dirty
    OBVIOUS
  <2>5. e = Summed(d, m, G)
    BY <1>3, <2>4
  <2>6. SafeTo(h, d, e, Z)
    BY <1>2, <1>6, <2>1, <2>5, SumsSafe
  <2> QED BY <2>3, <2>6
<1>10. HasFlushedBmap(h, s, c, b)
  <2>1. d = FullMarked(b.dev, b.mem) /\ SafeTo(h, b.dev, d, AtRisk(b)) /\ Safe(h, d, b.open)
    BY <1>2, <1>3, <1>7, <1>8, <1>9
  <2> QED BY <1>1, <2>1, FlushBmapHolds
<1>11. /\ Settled(h, s, c) /\ c.dev = d /\ c.writes # <<>>
       /\ c.mem = m /\ c.ino = ino /\ c.ind = b.ind /\ c.open = {} /\ c.unsaved = {}
  BY <1>3, <1>10 DEF HasFlushedBmap
<1>12. HasSummed(q, c) /\ Settled(h, s, q) /\ q.writes # <<>>
  <2>1. AtRisk(c) = Z
    BY <1>7, <1>11 DEF AtRisk
  <2>2. SafeTo(h, c.dev, Summed(c.dev, c.mem, c.mem.dirty), AtRisk(c))
    BY <1>3, <1>9, <1>11, <2>1
  <2> QED BY <1>1, <1>11, <2>2, FlushCsumSync
<1>13. /\ q.dev = e /\ q.mem = k /\ q.ino = ino /\ q.ind = b.ind /\ q.open = {} /\ q.unsaved = {}
  BY <1>3, <1>11, <1>12 DEF HasSummed
<1>14. Ended(q.dev, q.mem, ino, size, h) /\ \A i \in Inode : q.ind[i] = Zero
  BY <1>4, <1>13
<1> QED BY <1>12, <1>13, <1>14, EndedDone

\* The freemap of memory is as loose as the dinodes, and so are checksums.
LEMMA MarkedLoose ==
  ASSUME NEW d \in Device, NEW m \in Memory, d.bmap \subseteq m.bmap, NEW X, NEW hand,
         NEW l \in Device, Loose(l, d, m, X, hand), NEW e, e = FullMarked(l, m)
  PROVE  e \in Device /\ Loose(e, d, m, X, hand)
<1>1. /\ e \in Device /\ e.bmap = m.bmap /\ e.imap = l.imap /\ e.csum = l.csum
      /\ e.node = l.node /\ e.block = l.block
  BY FullMarkedIs
<1> QED BY <1>1 DEF Loose

LEMMA SummedLoose ==
  ASSUME NEW d, NEW m \in Memory, NEW X, NEW hand,
         NEW l \in Device, Loose(l, d, m, X, hand), NEW G, NEW e, e = Summed(l, m, G)
  PROVE  e \in Device /\ Loose(e, d, m, X, hand)
<1>1. e \in Device
  BY SummedDevice
<1>2. e.bmap = l.bmap /\ e.imap = l.imap /\ e.node = l.node /\ e.block = l.block
  BY DEF Summed, Device
<1> QED BY <1>1, <1>2 DEF Loose

\* ... by benchmark_async_writes.
LEMMA AsyncEnds ==
  ASSUME NEW h, NEW s, NEW b, NEW how, NEW d \in Device, NEW m \in Memory, NEW F, NEW R, NEW hand, NEW l,
         HasLoosened(h, s, b, b, how, d, m, F, hand, {"block", "inodes"}, l),
         NEW n, NEW size, NEW ino, ino = b.ino, Housed(l, m, ino, n, size, R, h),
         Consistent(d, m, R, F, hand, h), F \subseteq R,
         b.mem = m, \A i \in Inode : b.ind[i] = Zero, b.open = {}, b.unsaved = R,
         NEW q, q = SpinWait(Saved(FlushCsum(WriteBmap(b), "async")))
  PROVE  BenchDone(h, s, q, size)
<1>1. PICK c, f, g : c = WriteBmap(b) /\ f = FlushCsum(c, "async") /\ g = Saved(f)
  OBVIOUS
<1>2. PICK e, o, k : e = FullMarked(l, m) /\ o = Summed(e, m, m.dirty) /\ k = [m EXCEPT !.dirty = {}]
  OBVIOUS
<1>3. Ended(o, k, ino, size, h)
  BY <1>2, HousedEnds
<1>4. b.dev = l /\ l \in Device /\ AtRisk(b) = R /\ d.bmap \subseteq m.bmap
  BY DEF HasLoosened, Housed, AtRisk, Consistent
<1>5. PICK t \in Points :
        /\ Led(h, s, b, t) /\ Loose(t.a, d, m, F, hand) /\ Loose(l, d, m, F, hand)
        /\ \A v \in t.p : v.area \in {"block", "inodes"}
  BY <1>4 DEF HasLoosened, Loosened
<1>6. t.a \in Device
  BY <1>5 DEF Points
<1>7. e \in Device /\ Loose(e, d, m, F, hand)
  BY <1>2, <1>4, <1>5, MarkedLoose
<1>8. o \in Device /\ Loose(o, d, m, F, hand)
  <2>1. PICK G : G = m.dirty
    OBVIOUS
  <2>2. o = Summed(e, m, G)
    BY <1>2, <2>1
  <2> QED BY <1>7, <2>2, SummedLoose
<1>9. SafeTo(h, t.a, e, R) /\ SafeTo(h, t.a, o, R)
  <2>1. SafeTo(h, t.a, e, R)
    BY <1>5, <1>6, <1>7, LooseTo
  <2>2. SafeTo(h, t.a, o, R)
    BY <1>5, <1>6, <1>8, LooseTo
  <2> QED BY <2>1, <2>2
<1>10. Spread(h, s, c, t, R) /\ HasMarked(c, b)
  <2>1. SafeTo(h, t.a, FullMarked(b.dev, b.mem), AtRisk(b)) /\ \A v \in t.p : v.area # "bmap"
    BY <1>2, <1>4, <1>5, <1>9
  <2>2. Spread(h, s, c, t, AtRisk(b)) /\ HasMarked(c, b)
    BY <1>1, <1>5, <2>1, WriteBmapHolds
  <2> QED BY <1>4, <2>2
<1>11. c.dev = e /\ c.mem = m /\ c.ino = ino /\ c.ind = b.ind /\ c.open = {} /\ c.unsaved = R
  BY <1>2, <1>4, <1>10 DEF HasMarked
<1>12. PICK z \in Points : /\ Led(h, s, c, z) /\ z.a = t.a
                           /\ \A v \in z.p : v \in t.p \/ v.area = "bmap"
  BY <1>10 DEF Spread
<1>13. HasSummed(f, c) /\ \E y : Led(h, s, f, y)
  <2>1. \A v \in z.p : v.area # "csum"
    BY <1>5, <1>12
  <2>2. AtRisk(c) = R
    BY <1>11 DEF AtRisk
  <2>3. SafeTo(h, z.a, Summed(c.dev, c.mem, c.mem.dirty), AtRisk(c))
    BY <1>2, <1>9, <1>11, <1>12, <2>2
  <2> QED BY <1>1, <1>12, <2>1, <2>3, FlushCsumAsync
<1>14. PICK y : Led(h, s, f, y)
  BY <1>13
<1>15. f.dev = o /\ f.mem = k /\ f.ino = ino /\ f.ind = b.ind /\ f.open = {}
  BY <1>2, <1>11, <1>13 DEF HasSummed
<1>16. Same(g, f) /\ g.mem = f.mem /\ g.open = f.open /\ g.unsaved = {}
  <2>1. f \in Runs
    BY <1>14 DEF Led
  <2> QED BY <1>1, <2>1, SavedIs
<1>17. Led(h, s, g, y)
  BY <1>14, <1>16, LedSame
<1>18. /\ g.dev = o /\ g.mem = k /\ g.ino = ino /\ g.ind = b.ind /\ g.open = {} /\ g.unsaved = {}
  BY <1>15, <1>16 DEF Same
<1>19. Safe(h, g.dev, AtRisk(g))
  <2>1. PICK Z : Z = {}
    OBVIOUS
  <2>2. Consistent(o, k, Z, Z, Z, h) /\ Fits(o, Z, Z, Z)
    BY <1>3, <2>1 DEF Ended, Fits
  <2>3. Safe(h, o, Z)
    BY <2>2, FitsSafe
  <2> QED BY <1>18, <2>1, <2>3 DEF AtRisk
<1>20. Wrote(h, s, q, g, g.dev)
  <2>1. q = SpinWait(g)
    BY <1>1
  <2> QED BY <1>17, <1>19, <2>1, WaitWrote
<1>21. Settled(h, s, q)
  BY <1>20, WroteSettled
<1>22. /\ q.writes # <<>> /\ q.dev = o /\ q.mem = k /\ q.ino = ino /\ q.ind = b.ind
       /\ q.open = {} /\ q.unsaved = {}
  BY <1>18, <1>20 DEF Wrote
<1>23. Ended(q.dev, q.mem, ino, size, h) /\ \A i \in Inode : q.ind[i] = Zero
  BY <1>3, <1>22
<1> QED BY <1>21, <1>22, <1>23, EndedDone

\* Both halves of a trial.
LEMMA BenchIs ==
  ASSUME NEW r, NEW n, NEW size
  PROVE  /\ BenchSync(r, n, size) =
              FlushCsum(FlushBlockFreemap(BulkSync(BenchWrites(r, n, size, "sync"), n, "sync")), "sync")
         /\ BenchAsync(r, n, size) =
              SpinWait(Saved(FlushCsum(WriteBmap(BulkSync(BenchWrites(r, n, size, "async"), n, "async")),
                                       "async")))
BY DEF BenchSync, BenchAsync, BenchWrites, Saved

LEMMA BenchHolds ==
  ASSUME NEW h, NEW s, NEW r, Still(h, s, r), r.open = {}, \A i \in Inode : r.ind[i] = Zero,
         NEW n \in 1 .. 2, NEW size \in 1 .. 2, Room(n, size),
         NEW q, q \in {BenchSync(r, n, size), BenchAsync(r, n, size)}
  PROVE  BenchDone(h, s, q, size)
<1>1. PICK how \in {"sync", "async"} :
        q = IF how = "sync" THEN BenchSync(r, n, size) ELSE BenchAsync(r, n, size)
  OBVIOUS
<1>2. PICK w, b : w = BenchWrites(r, n, size, how) /\ b = BulkSync(w, n, how)
  OBVIOUS
<1>3. PICK R, hand : Stage(h, s, w, how, n, n, size, R, hand)
  BY <1>2, BenchWritesHolds
<1>4. PICK d, m, F, l :
        /\ HasLoosened(h, s, b, b, how, d, m, F, hand, {"block", "inodes"}, l)
        /\ Housed(l, m, b.ino, n, size, R, h)
        /\ d \in Device /\ m \in Memory /\ Consistent(d, m, R, F, hand, h) /\ F \subseteq R
        /\ b.mem = m /\ \A i \in Inode : b.ind[i] = Zero
        /\ b.open = {} /\ b.unsaved = R
  <2>1. HasBulk(h, s, b, how, n, size, R, hand)
    BY <1>2, <1>3, BulkHolds
  <2> QED BY <2>1 DEF HasBulk
<1>5. CASE how = "sync"
  <2>1. q = FlushCsum(FlushBlockFreemap(b), "sync")
    BY <1>1, <1>2, <1>5, BenchIs
  <2>2. Still(h, s, b) /\ b.dev = l
    <3>1. PICK t : Led(h, s, b, t) /\ t.p = {}
      BY <1>4, <1>5 DEF HasLoosened, Loosened
    <3>2. b.dev = l
      BY <1>4 DEF HasLoosened
    <3> QED BY <3>1, <3>2, NothingUnderWay
  <2> QED BY <1>4, <2>1, <2>2, SyncEnds
<1>6. CASE how = "async"
  <2>1. q = SpinWait(Saved(FlushCsum(WriteBmap(b), "async")))
    BY <1>1, <1>2, <1>6, BenchIs
  <2> QED BY <1>4, <2>1, AsyncEnds
<1> QED BY <1>5, <1>6

LEMMA StartBenchInv ==
  IInv /\ (\E n, size \in 1 .. 2 : StartBench(n, size)) => IInv'
<1> SUFFICES ASSUME IInv, NEW n \in 1 .. 2, NEW size \in 1 .. 2, StartBench(n, size) PROVE IInv'
  OBVIOUS
<1>1. Ready /\ Room(n, size)
  BY DEF StartBench, Usable, Room
<1>2. PICK q : /\ q \in {BenchSync(Now, n, size), BenchAsync(Now, n, size)}
               /\ Execute("bench", size, q)
  BY DEF StartBench
<1>3. PICK h, s, r, Z, name : h = {} /\ s = On(dev, risk) /\ r = Now /\ Z = {} /\ name = "bench"
  OBVIOUS
<1>4. Still(h, s, r) /\ r.open = {} /\ \A i \in Inode : r.ind[i] = Zero
  BY <1>1, <1>3, NowAfresh
<1>5. BenchDone(h, s, q, size)
  BY <1>1, <1>2, <1>3, <1>4, BenchHolds
<1>6. /\ AtRest({}, On(dev, risk), q, Z) /\ Settled({}, On(dev, risk), q) /\ q.writes # <<>>
      /\ name = "bench" => Durable(q.dev, q.mem, size)
      /\ Execute(name, size, q) /\ name \in {"mkfs", "bench"} /\ size \in Nat
  BY <1>2, <1>3, <1>5 DEF BenchDone
<1> QED BY <1>1, <1>6, AfreshInv

-----------------------------------------------------------------------------
(***************************************************************************)
(* The theorems.                                                           *)
(***************************************************************************)

\* A command starts when none is being executed.
LEMMA StartIdle == Start => cmd = Idle
<1> SUFFICES ASSUME Start PROVE cmd = Idle
  OBVIOUS
<1> QED BY DEF Start, StartMkfs, StartCreate, StartQuit, StartRemove, StartOwrite, StartWrite,
               StartBench, Usable, Ready

LEMMA StartInv == IInv /\ Start => IInv'
<1> SUFFICES ASSUME IInv, Start PROVE IInv'
  OBVIOUS
<1>1. \/ StartMkfs \/ StartCreate \/ StartQuit
      \/ \E i \in Entries(dev) : StartRemove(i)
      \/ \E i \in Entries(dev) : \E size \in 1 .. 2 : StartOwrite(i, size)
      \/ \E i \in Entries(dev) : \E size \in 1 .. 2 : StartWrite(i, size)
      \/ \E n, size \in 1 .. 2 : StartBench(n, size)
  BY DEF Start
<1> QED BY <1>1, StartMkfsInv, StartCreateInv, StartQuitInv, StartRemoveInv, StartOwriteInv,
           StartWriteInv, StartBenchInv

LEMMA StutterInv == IInv /\ UNCHANGED vars => IInv'
<1> SUFFICES ASSUME IInv, UNCHANGED vars PROVE IInv'
  OBVIOUS
<1>1. /\ dev' = dev /\ mem' = mem /\ up' = up /\ cmd' = cmd /\ inflight' = inflight
      /\ risk' = risk /\ history' = history /\ crashes' = crashes
  BY DEF vars
<1> QED BY <1>1 DEF IInv, TypeOK, IsCommand, Working

LEMMA NextInv == IInv /\ [Next]_vars => IInv'
<1> SUFFICES ASSUME IInv, [Next]_vars PROVE IInv'
  OBVIOUS
<1>1. CASE UNCHANGED vars
  BY <1>1, StutterInv
<1>2. CASE Boot
  BY <1>2, BootInv
<1>3. CASE Start
  BY <1>3, StartInv
<1>4. CASE DoWriteSync
  BY <1>4, DoWriteSyncInv
<1>5. CASE DoWriteAsync
  BY <1>5, DoWriteAsyncInv
<1>6. CASE DoSpinWait
  BY <1>6, DoSpinWaitInv
<1>7. CASE Land
  BY <1>7, LandInv
<1>8. CASE DoStop
  BY <1>8, DoStopInv
<1>9. CASE Crash
  BY <1>9, CrashInv
<1> QED BY <1>1, <1>2, <1>3, <1>4, <1>5, <1>6, <1>7, <1>8, <1>9 DEF Next

\* The inductive invariant: every command being executed has a plan, at each
\* point of which the program may stop, and every command at an end leaves
\* the volume at rest, for every size of the volume, any number of crashes
\* and every order in which asynchronous writes land.
THEOREM Invariance == Spec => []IInv
<1> QED BY InitInv, NextInv, PTL DEF Spec

\* The variables have their types; the program that does not run has no
\* command, no memory and nothing under way.
THEOREM TypeCorrect == Spec => []TypeOK
<1>1. IInv => TypeOK
  BY DEF IInv
<1> QED BY <1>1, Invariance, PTL

\* A crash now leaves what is not at risk as it should be.
LEMMA NowRecoverable ==
  ASSUME IInv, "damaged" \notin history, FsExists(dev)
  PROVE  Recoverable(dev, risk)
<1>1. CASE cmd # Idle
  <2>1. Working
    BY <1>1 DEF IInv
  <2>2. PICK s \in Points : Stands(dev, inflight, s) /\ s.r = risk /\ Secure(history, s)
    BY <2>1 DEF Working
  <2>3. dev \in Device /\ Between(dev, s.a, s.l)
    BY <2>2 DEF IInv, TypeOK, Stands
  <2> QED BY <2>2, <2>3 DEF Secure
<1>2. CASE cmd = Idle
  <2>1. PICK m : Rests(dev, m, risk, history)
    BY <1>2 DEF IInv
  <2>2. PICK Z : Z = {}
    OBVIOUS
  <2>3. Consistent(dev, m, risk, Z, Z, history)
    BY <2>1, <2>2 DEF Rests
  <2>4. risk \cup Z \subseteq risk /\ Root \notin risk
    BY <2>2, <2>3 DEF Consistent, File
  <2> QED BY <2>3, <2>4, ConsistentRecovers
<1> QED BY <1>1, <1>2

\* Wherever a program stops, in whatever order its writes have landed, only
\* the file the command is about can be harmed, and only between the writes
\* at which the model sets `risk' (see Volume).
THEOREM CrashSafety == Spec => []CrashSafe
<1>1. ASSUME IInv, "damaged" \notin history, FsExists(dev)
      PROVE  /\ \A i \in Reached(dev) \ risk : Intact(dev, i, Reached(dev) \ risk)
             /\ \A i \in Inode \ (dev.imap \cup risk) : dev.node[i] = NoDinode
  <2>1. Recoverable(dev, risk)
    BY <1>1, NowRecoverable
  <2>2. CASE risk = Inode
    <3>1. Reached(dev) \subseteq Inode
      BY VolumeAssumption DEF Reached, Entries, File, Inode, Root
    <3> QED BY <2>2, <3>1
  <2>3. CASE risk # Inode
    <3>1. Sound(dev, dev.bmap, risk)
      BY <1>1, <2>1, <2>3 DEF Recoverable
    <3>2. \A i \in Reached(dev) \ risk : Intact(dev, i, Reached(dev) \ risk)
      BY <1>1, <3>1, SoundIntact
    <3>3. \A i \in Inode \ (dev.imap \cup risk) : dev.node[i] = NoDinode
      BY <3>1 DEF Sound
    <3> QED BY <3>2, <3>3
  <2> QED BY <2>2, <2>3
<1>2. IInv => CrashSafe
  BY <1>1 DEF CrashSafe
<1> QED BY <1>2, Invariance, PTL

\* What Rests says of a volume that exists and is not damaged.
LEMMA VolumeAtRest ==
  ASSUME NEW d, NEW m, NEW R, NEW h, Rests(d, m, R, h), FsExists(d), "damaged" \notin h
  PROVE  /\ Sound(d, m.bmap, {})
         /\ h \subseteq {"csumLost"} =>
              /\ m.imap \subseteq Reached(d)
              /\ \A b \in m.bmap : \E i \in Reached(d) : b \in BlocksOf(d, i)
         /\ h = {} => \A i \in Reached(d) : \A b \in DataBlocks(d, i) :
                        m.csum[b] = Csum(d.block[b])
<1>1. Consistent(d, m, R, {}, {}, h)
  BY DEF Rests
<1> QED BY <1>1 DEF Consistent

\* When the program does not run, and has always stopped by quit or at the
\* end of its input, the freemaps mark what can be reached and nothing else
\* (super.c:117-141, testfs.c:313-325).
THEOREM CleanQuit == Spec => []CleanAfterQuit
<1>1. ASSUME IInv, ~up, history \subseteq {"csumLost"}, FsExists(dev)
      PROVE  /\ dev.imap = Reached(dev)
             /\ dev.bmap = UNION {BlocksOf(dev, i) : i \in Reached(dev)}
  <2>1. Rests(dev, Load(dev), {}, history) /\ dev \in Device
    BY <1>1 DEF IInv, TypeOK
  <2>2. Load(dev).bmap = dev.bmap /\ Load(dev).imap = dev.imap
    BY DEF Load
  <2>3. "damaged" \notin history
    BY <1>1
  <2>4. /\ Sound(dev, dev.bmap, {}) /\ dev.imap \subseteq Reached(dev)
        /\ \A b \in dev.bmap : \E i \in Reached(dev) : b \in BlocksOf(dev, i)
    BY <1>1, <2>1, <2>2, <2>3, VolumeAtRest
  <2>5. \A i \in Reached(dev) : i \in dev.imap /\ BlocksOf(dev, i) \subseteq dev.bmap
    BY <2>4 DEF Sound
  <2> QED BY <2>4, <2>5
<1>2. IInv => CleanAfterQuit
  BY <1>1 DEF CleanAfterQuit
<1> QED BY <1>2, Invariance, PTL

\* Between two commands, checkfs finds no checksum error, also in blocks
\* freed and allocated again (csum.c:53-102).
THEOREM ChecksumsValid == Spec => []MemCsumValid
<1>1. ASSUME IInv, Ready, history = {}
      PROVE  \A i \in Reached(dev) : \A b \in DataBlocks(dev, i) :
               mem.csum[b] = Csum(dev.block[b])
  <2>1. Rests(dev, mem, risk, history)
    BY <1>1 DEF IInv, Ready
  <2>2. CASE FsExists(dev)
    BY <1>1, <2>1, <2>2, VolumeAtRest
  <2>3. CASE ~FsExists(dev)
    BY <2>3 DEF Reached
  <2> QED BY <2>2, <2>3
<1>2. IInv => MemCsumValid
  BY <1>1 DEF MemCsumValid
<1> QED BY <1>2, Invariance, PTL

LEMMA IdleNoBench == Idle.name # "bench"
  BY DEF Idle

LEMMA NextBenchEnds == IInv /\ [Next]_vars => BenchEnds
<1> SUFFICES ASSUME IInv, [Next]_vars PROVE BenchEnds
  OBVIOUS
<1>1. CASE UNCHANGED vars
  BY <1>1, IdleNoBench DEF vars, BenchEnds
<1>2. CASE Boot
  BY <1>2, IdleNoBench DEF Boot, BenchEnds
<1>3. CASE Start
  BY <1>3, StartIdle, IdleNoBench DEF BenchEnds
<1>4. CASE DoWriteSync
  BY <1>4, DoWriteSyncInv
<1>5. CASE DoWriteAsync
  BY <1>5, DoWriteAsyncInv
<1>6. CASE DoSpinWait
  BY <1>6, DoSpinWaitInv
<1>7. CASE Land
  BY <1>7, IdleNoBench DEF Land, BenchEnds
<1>8. CASE DoStop
  BY <1>8 DEF DoStop, BenchEnds
<1>9. CASE Crash
  BY <1>9 DEF Crash, BenchEnds
<1> QED BY <1>1, <1>2, <1>3, <1>4, <1>5, <1>6, <1>7, <1>8, <1>9 DEF Next

\* Once the last wait of a benchmark is over, whatever it has written is on
\* the device: freemaps, checksums, dinodes, indirect blocks and data
\* (bench_e2e.c:55-61, 84-93).
THEOREM BenchIsDurable == Spec => BenchDurable
<1>1. IInv /\ [Next]_vars =>
        [cmd.name = "bench" /\ cmd' = Idle /\ up' =>
           /\ dev'.bmap = mem'.bmap /\ dev'.imap = mem'.imap
           /\ dev'.csum = mem'.csum /\ mem'.dirty = {}
           /\ \A i \in Entries(dev') :
                dev'.node[i].size = cmd.size /\ Intact(dev', i, Reached(dev'))]_vars
  BY NextBenchEnds DEF BenchEnds, Durable
<1> QED BY <1>1, Invariance, PTL DEF Spec, BenchDurable
=============================================================================
