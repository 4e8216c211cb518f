---------------------- MODULE TransitionFrontierProofs ----------------------
(***************************************************************************)
(* Proofs about the transition frontier and its files, for every universe  *)
(* of blocks, max_length, flush capacity and any number of crashes.        *)
(***************************************************************************)
EXTENDS TransitionFrontier, FrontierTreeProofs, TLAPS

-----------------------------------------------------------------------------
(* Sequences. *)

\* A pair and one more element make a triple.
LEMMA ThirdElement ==
  ASSUME NEW a, NEW b, NEW c
  PROVE  << a, b >> \o << c >> = << a, b, c >>
<1> DEFINE s == << a, b >> \o << c >>
<1>1. << a, b >> \in Seq({a, b, c}) /\ << c >> \in Seq({a, b, c})
  OBVIOUS
<1>2. s \in Seq({a, b, c}) /\ Len(s) = 3
  BY <1>1
<1>3. s[1] = a /\ s[2] = b /\ s[3] = c
  BY <1>1
<1> HIDE DEF s
<1>4. s = << a, b, c >>
  BY <1>2, <1>3
<1> QED
  BY <1>4 DEF s

-----------------------------------------------------------------------------
(* Writes. *)

Files == {"db", "snarked_ledger", "potential_snarked_ledgers", "root_identifier"}

Values == Block \cup {None, Torn, Dirty} \cup Database \cup Checkpoints

Writes == Seq([file : Files, value : Values])

IsDisk(d) == d = [file \in Files |-> d[file]]

\* A disk stays one.
LEMMA SettleIsDisk ==
  ASSUME NEW d, IsDisk(d), NEW ws
  PROVE  IsDisk(Settle(d, ws)) /\ DOMAIN Settle(d, ws) = Files
BY DEF IsDisk, Settle

\* No write changes nothing.
LEMMA SettleNone ==
  ASSUME NEW d, IsDisk(d)
  PROVE  Settle(d, << >>) = d
BY DEF IsDisk, Settle

\* One write is made.
LEMMA SettleOne ==
  ASSUME NEW d, IsDisk(d), NEW w \in [file : Files, value : Values]
  PROVE  Settle(d, << w >>) = Put(d, w) /\ IsDisk(Put(d, w))
<1>1. ASSUME NEW file \in Files
      PROVE  Settle(d, << w >>)[file] = IF file = w.file THEN w.value ELSE d[file]
  <2> DEFINE last == { i \in DOMAIN << w >> : /\ << w >>[i].file = file
                           /\ \A j \in DOMAIN << w >> : << w >>[j].file = file => j <= i }
  <2>1. DOMAIN << w >> = {1} /\ << w >>[1] = w
    OBVIOUS
  <2>2. last = IF file = w.file THEN {1} ELSE {}
    BY <2>1
  <2>3. Settle(d, << w >>)[file] =
          IF last = {} THEN d[file] ELSE << w >>[CHOOSE i \in last : TRUE].value
    BY DEF Settle, IsDisk
  <2> HIDE DEF last
  <2> QED
    BY <2>1, <2>2, <2>3
<1>2. IsDisk(Settle(d, << w >>))
  BY SettleIsDisk
<1>3. IsDisk(Put(d, w))
  BY DEF Put, IsDisk
<1>4. ASSUME NEW file \in Files
      PROVE  Put(d, w)[file] = IF file = w.file THEN w.value ELSE d[file]
  BY DEF Put, IsDisk
<1> QED
  BY <1>1, <1>2, <1>3, <1>4 DEF IsDisk

NoWrite(ws, file) == \A j \in 1 .. Len(ws) : ws[j].file # file

LastWrite(ws, file, i) ==
  /\ i \in 1 .. Len(ws) /\ ws[i].file = file
  /\ \A j \in 1 .. Len(ws) : ws[j].file = file => j <= i

\* The last write to a file counts.
LEMMA SettleLast ==
  ASSUME NEW d, IsDisk(d), NEW ws \in Writes, NEW file \in Files
  PROVE  \/ NoWrite(ws, file) /\ Settle(d, ws)[file] = d[file]
         \/ \E i : LastWrite(ws, file, i) /\ Settle(d, ws)[file] = ws[i].value
<1> DEFINE W == { i \in 1 .. Len(ws) : ws[i].file = file }
           last == { i \in DOMAIN ws : /\ ws[i].file = file
                           /\ \A j \in DOMAIN ws : ws[j].file = file => j <= i }
<1>1. DOMAIN ws = 1 .. Len(ws) /\ Len(ws) \in Nat
  BY DEF Writes
<1>2. Settle(d, ws)[file] =
        IF last = {} THEN d[file] ELSE ws[CHOOSE i \in last : TRUE].value
  BY DEF Settle, IsDisk
<1>3. CASE W = {}
  <2>1. last = {}
    BY <1>1, <1>3
  <2> QED
    BY <1>2, <1>3, <2>1 DEF NoWrite
<1>4. CASE W # {}
  <2>0. W \in SUBSET (0 .. Len(ws))
    BY <1>1
  <2>1. PICK x \in W : \A y \in W : y <= x
    <3> HIDE DEF W
    <3> QED
      BY <1>1, <1>4, <2>0, NatGreatest
  <2>2. x \in last
    BY <1>1, <2>1
  <2>3. PICK y : y \in last /\ y = CHOOSE i \in last : TRUE
    BY <2>2
  <2>4. LastWrite(ws, file, y)
    BY <1>1, <2>3 DEF LastWrite
  <2> HIDE DEF last
  <2> QED
    BY <1>2, <2>3, <2>4
<1> QED
  BY <1>3, <1>4

\* There is one last write to a file.
LEMMA LastWriteIsUnique ==
  ASSUME NEW ws \in Writes, NEW file, NEW i, NEW k,
         LastWrite(ws, file, i), LastWrite(ws, file, k)
  PROVE  i = k
<1>1. Len(ws) \in Nat /\ i \in 1 .. Len(ws) /\ k \in 1 .. Len(ws)
  BY DEF LastWrite, Writes
<1>2. i <= k /\ k <= i
  BY <1>1 DEF LastWrite
<1> QED
  BY <1>1, <1>2

\* What is written later is written to the disk of what was written before.
LEMMA SettleConcat ==
  ASSUME NEW d, IsDisk(d), NEW ws \in Writes, NEW vs \in Writes
  PROVE  Settle(d, ws \o vs) = Settle(Settle(d, ws), vs)
<1> DEFINE n == Len(ws)
<1>0. PICK us : us = ws \o vs
  OBVIOUS
<1>1. PICK e : e = Settle(d, ws)
  OBVIOUS
<1>2. /\ us \in Writes /\ Len(us) = n + Len(vs) /\ n \in Nat /\ Len(vs) \in Nat
      /\ \A i \in 1 .. n : us[i] = ws[i]
      /\ \A i \in 1 .. Len(vs) : us[n + i] = vs[i]
  BY <1>0 DEF Writes
<1>3. \A j \in 1 .. Len(us) : j > n => j - n \in 1 .. Len(vs) /\ us[j] = vs[j - n]
  <2> SUFFICES ASSUME NEW j \in 1 .. Len(us), j > n
               PROVE  j - n \in 1 .. Len(vs) /\ us[j] = vs[j - n]
    OBVIOUS
  <2>1. j - n \in 1 .. Len(vs) /\ n + (j - n) = j
    BY <1>2
  <2>2. us[n + (j - n)] = vs[j - n]
    BY <1>2, <2>1
  <2> QED
    BY <2>1, <2>2
<1>4. IsDisk(e) /\ IsDisk(Settle(e, vs)) /\ IsDisk(Settle(d, us))
  BY <1>1, SettleIsDisk
<1>5. ASSUME NEW file \in Files
      PROVE  Settle(d, us)[file] = Settle(e, vs)[file]
  <2>1. \/ NoWrite(us, file) /\ Settle(d, us)[file] = d[file]
        \/ \E k : LastWrite(us, file, k) /\ Settle(d, us)[file] = us[k].value
    BY <1>2, SettleLast
  <2>2. \/ NoWrite(ws, file) /\ e[file] = d[file]
        \/ \E k : LastWrite(ws, file, k) /\ e[file] = ws[k].value
    BY <1>1, SettleLast
  <2>3. \/ NoWrite(vs, file) /\ Settle(e, vs)[file] = e[file]
        \/ \E k : LastWrite(vs, file, k) /\ Settle(e, vs)[file] = vs[k].value
    BY <1>4, SettleLast
  <2>4. CASE NoWrite(us, file)
    <3>1. NoWrite(vs, file)
      <4> SUFFICES ASSUME NEW j \in 1 .. Len(vs) PROVE vs[j].file # file
        BY DEF NoWrite
      <4>1. n + j \in 1 .. Len(us) /\ us[n + j] = vs[j]
        BY <1>2
      <4> QED
        BY <2>4, <4>1 DEF NoWrite
    <3>2. NoWrite(ws, file)
      BY <1>2, <2>4 DEF NoWrite
    <3> QED
      BY <2>1, <2>2, <2>3, <2>4, <3>1, <3>2 DEF NoWrite, LastWrite
  <2>5. ASSUME NEW k, LastWrite(us, file, k), Settle(d, us)[file] = us[k].value
        PROVE  Settle(d, us)[file] = Settle(e, vs)[file]
    <3>0. k \in 1 .. Len(us)
      BY <2>5 DEF LastWrite
    <3>1. CASE k > n
      <4>1. LastWrite(vs, file, k - n) /\ us[k] = vs[k - n]
        <5>1. k - n \in 1 .. Len(vs) /\ us[k] = vs[k - n]
          BY <1>3, <3>0, <3>1
        <5>2. ASSUME NEW j \in 1 .. Len(vs), vs[j].file = file PROVE j <= k - n
          <6>1. n + j \in 1 .. Len(us) /\ us[n + j].file = file
            BY <1>2, <5>2
          <6>2. n + j <= k
            BY <2>5, <6>1 DEF LastWrite
          <6> QED
            BY <1>2, <3>0, <6>2
        <5> QED
          BY <2>5, <5>1, <5>2 DEF LastWrite
      <4>2. ASSUME NEW i, LastWrite(vs, file, i) PROVE i = k - n
        BY <4>1, <4>2, LastWriteIsUnique
      <4>3. ~NoWrite(vs, file)
        BY <4>1 DEF NoWrite, LastWrite
      <4> QED
        BY <2>3, <2>5, <4>1, <4>2, <4>3
    <3>2. CASE k <= n
      <4>1. LastWrite(ws, file, k) /\ us[k] = ws[k]
        <5>1. k \in 1 .. n /\ us[k] = ws[k]
          BY <1>2, <3>0, <3>2
        <5>2. ASSUME NEW j \in 1 .. n, ws[j].file = file PROVE j <= k
          <6>1. j \in 1 .. Len(us) /\ us[j].file = file
            BY <1>2, <5>2
          <6> QED
            BY <2>5, <6>1 DEF LastWrite
        <5> QED
          BY <2>5, <5>1, <5>2 DEF LastWrite
      <4>2. NoWrite(vs, file)
        <5> SUFFICES ASSUME NEW j \in 1 .. Len(vs), vs[j].file = file PROVE FALSE
          BY DEF NoWrite
        <5>1. n + j \in 1 .. Len(us) /\ us[n + j].file = file
          BY <1>2
        <5>2. n + j <= k
          BY <2>5, <5>1 DEF LastWrite
        <5> QED
          BY <1>2, <3>0, <3>2, <5>2
      <4>3. ASSUME NEW i, LastWrite(ws, file, i) PROVE i = k
        BY <4>1, <4>3, LastWriteIsUnique
      <4>4. ~NoWrite(ws, file) /\ \A i : ~LastWrite(vs, file, i)
        BY <4>1, <4>2 DEF NoWrite, LastWrite
      <4> QED
        BY <2>2, <2>3, <2>5, <4>1, <4>3, <4>4
    <3> QED
      BY <1>2, <3>0, <3>1, <3>2
  <2> QED
    BY <2>1, <2>4, <2>5
<1> QED
  BY <1>0, <1>1, <1>4, <1>5 DEF IsDisk

-----------------------------------------------------------------------------
(* Disks a daemon can start from, and jobs that leave only such disks       *)
(* behind, wherever they are cut short.                                     *)

Deep(db) == ~Within(db, MaxLength)

\* A database that holds a tree, at most one block too deep.
DbOK(db) ==
  /\ db \in Database
  /\ IsTree(db)
  /\ Within(db, MaxLength + 1)
  /\ db.protocol_states = Required[db.root]

\* A database that is too deep is never taken for up to date.
DiskOK(d) ==
  /\ IsDisk(d)
  /\ d.db = None \/ DbOK(d.db)
  /\ d.snarked_ledger \in Block \cup {Dirty}
  /\ d.potential_snarked_ledgers \in Checkpoints \cup {None, Torn}
  /\ d.root_identifier \in Block \cup {None, Torn}
  /\ d.db # None /\ Deep(d.db) => d.root_identifier # d.db.root

\* The writes ws turn the disk d into e, by way of disks that are all fit to
\* be started from.
CrashSafe(d, ws, e) ==
  /\ ws \in Writes
  /\ Settle(d, ws) = e
  /\ \E E : /\ E[0] = d /\ E[Len(ws)] = e
            /\ \A i \in 0 .. Len(ws) : DiskOK(E[i])
            /\ \A i \in 1 .. Len(ws) : E[i] = Put(E[i - 1], ws[i])

\* A job without writes is safe.
LEMMA SafeNone ==
  ASSUME NEW d, DiskOK(d)
  PROVE  CrashSafe(d, << >>, d)
<1>1. Settle(d, << >>) = d
  BY SettleNone DEF DiskOK
<1>2. PICK E : E = [i \in {0} |-> d]
  OBVIOUS
<1>3. E[0] = d /\ \A i \in 0 .. 0 : E[i] = d
  BY <1>2
<1> QED
  BY <1>1, <1>3 DEF CrashSafe, Writes

\* One write is safe if what it leaves is.
LEMMA SafeOne ==
  ASSUME NEW d, DiskOK(d), NEW w \in [file : Files, value : Values],
         DiskOK(Put(d, w))
  PROVE  CrashSafe(d, << w >>, Put(d, w))
<1>1. Settle(d, << w >>) = Put(d, w)
  BY SettleOne DEF DiskOK
<1>2. PICK E : E = [i \in {0, 1} |-> IF i = 0 THEN d ELSE Put(d, w)]
  OBVIOUS
<1>3. E[0] = d /\ E[1] = Put(d, w)
  BY <1>2
<1>4. << w >> \in Writes /\ Len(<< w >>) = 1 /\ << w >>[1] = w
  BY DEF Writes
<1>5. \A i \in 0 .. 1 : DiskOK(E[i])
  BY <1>3
<1>6. \A i \in 1 .. 1 : E[i] = Put(E[i - 1], << w >>[i])
  BY <1>3, <1>4
<1> QED
  BY <1>1, <1>3, <1>4, <1>5, <1>6 DEF CrashSafe

\* Safe jobs may follow each other.
LEMMA SafeConcat ==
  ASSUME NEW d, NEW ws, NEW e, NEW vs, NEW f,
         CrashSafe(d, ws, e), CrashSafe(e, vs, f)
  PROVE  CrashSafe(d, ws \o vs, f)
<1> DEFINE m == Len(ws)
           n == Len(vs)
<1>0. ws \in Writes /\ vs \in Writes /\ m \in Nat /\ n \in Nat
  BY DEF CrashSafe, Writes
<1>1. PICK us : us = ws \o vs
  OBVIOUS
<1>2. /\ us \in Writes /\ Len(us) = m + n
      /\ \A i \in 1 .. m : us[i] = ws[i]
      /\ \A i \in 1 .. n : us[m + i] = vs[i]
  BY <1>0, <1>1 DEF Writes
<1>3. PICK E : /\ E[0] = d /\ E[m] = e
               /\ \A i \in 0 .. m : DiskOK(E[i])
               /\ \A i \in 1 .. m : E[i] = Put(E[i - 1], ws[i])
  BY DEF CrashSafe
<1>4. PICK F : /\ F[0] = e /\ F[n] = f
               /\ \A i \in 0 .. n : DiskOK(F[i])
               /\ \A i \in 1 .. n : F[i] = Put(F[i - 1], vs[i])
  BY DEF CrashSafe
<1>5. PICK H : H = [i \in 0 .. m + n |-> IF i <= m THEN E[i] ELSE F[i - m]]
  OBVIOUS
<1>6. /\ \A i \in 0 .. m : H[i] = E[i]
      /\ \A i \in 0 .. n : H[m + i] = F[i]
  <2>1. \A i \in 0 .. m : H[i] = E[i]
    BY <1>0, <1>5
  <2>2. ASSUME NEW i \in 0 .. n PROVE H[m + i] = F[i]
    <3>1. CASE i = 0
      BY <1>0, <1>3, <1>4, <2>1, <3>1
    <3>2. CASE i # 0
      <4>1. m + i \in 0 .. m + n /\ ~(m + i <= m) /\ (m + i) - m = i
        BY <1>0, <3>2
      <4> QED
        BY <1>5, <4>1
    <3> QED
      BY <3>1, <3>2
  <2> QED
    BY <2>1, <2>2
<1>7. ASSUME NEW i \in 0 .. m + n
      PROVE  DiskOK(H[i]) /\ (i # 0 => H[i] = Put(H[i - 1], us[i]))
  <2>1. CASE i <= m
    <3>1. i \in 0 .. m /\ H[i] = E[i] /\ (i # 0 => i - 1 \in 0 .. m /\ i \in 1 .. m)
      BY <1>0, <1>6, <2>1
    <3> QED
      BY <1>2, <1>3, <1>6, <3>1
  <2>2. CASE i > m
    <3>1. PICK k \in 1 .. n : i = m + k
      <4>1. i - m \in 1 .. n /\ i = m + (i - m)
        BY <1>0, <2>2
      <4> QED
        BY <4>1
    <3>2. k - 1 \in 0 .. n /\ i - 1 = m + (k - 1) /\ k \in 0 .. n
      BY <1>0, <3>1
    <3>3. H[i] = F[k] /\ H[i - 1] = F[k - 1] /\ us[i] = vs[k]
      BY <1>2, <1>6, <3>1, <3>2
    <3> QED
      BY <1>4, <3>2, <3>3
  <2> QED
    BY <1>0, <2>1, <2>2
<1>8. H[0] = d /\ H[m + n] = f
  BY <1>0, <1>3, <1>4, <1>6
<1>9. Settle(d, us) = f
  <2>1. IsDisk(d)
    BY <1>0, <1>3 DEF DiskOK
  <2> QED
    BY <1>0, <1>1, <2>1, SettleConcat DEF CrashSafe
<1>10. \A i \in 1 .. Len(us) : H[i] = Put(H[i - 1], us[i])
  BY <1>0, <1>2, <1>7
<1>11. \A i \in 0 .. Len(us) : DiskOK(H[i])
  BY <1>2, <1>7
<1> QED
  BY <1>1, <1>2, <1>8, <1>9, <1>10, <1>11 DEF CrashSafe

\* A safe job stays safe when its first write is made.
LEMMA SafeTail ==
  ASSUME NEW d, NEW ws, NEW e, CrashSafe(d, ws, e), ws # << >>
  PROVE  CrashSafe(Put(d, Head(ws)), Tail(ws), e)
<1> DEFINE n == Len(ws)
           w == Head(ws)
           c == Put(d, w)
<1>1. PICK vs : vs = Tail(ws)
  OBVIOUS
<1>2. /\ ws \in Writes /\ n \in Nat /\ n # 0
      /\ w = ws[1] /\ w \in [file : Files, value : Values]
      /\ vs \in Writes /\ Len(vs) = n - 1
      /\ \A i \in 1 .. n - 1 : vs[i] = ws[i + 1]
  <2> DEFINE W == [file : Files, value : Values]
  <2>1. ws \in Seq(W)
    BY DEF CrashSafe, Writes
  <2> HIDE DEF W
  <2>2. n \in Nat /\ n # 0 /\ w = ws[1] /\ w \in W
    BY <2>1
  <2>3. vs \in Seq(W) /\ Len(vs) = n - 1
    BY <1>1, <2>1
  <2>4. \A i \in 1 .. n - 1 : vs[i] = ws[i + 1]
    BY <1>1, <2>1, <2>2
  <2> QED
    BY <2>1, <2>2, <2>3, <2>4 DEF Writes, W
<1>3. PICK E : /\ E[0] = d /\ E[n] = e
               /\ \A i \in 0 .. n : DiskOK(E[i])
               /\ \A i \in 1 .. n : E[i] = Put(E[i - 1], ws[i])
  BY DEF CrashSafe
<1>4. PICK F : F = [i \in 0 .. n - 1 |-> E[i + 1]]
  OBVIOUS
<1>5. F[0] = c /\ F[n - 1] = e
  <2>1. F[0] = E[1] /\ F[n - 1] = E[n] /\ E[1] = Put(E[0], ws[1])
    BY <1>2, <1>3, <1>4
  <2> QED
    BY <1>2, <1>3, <2>1
<1>6. ASSUME NEW i \in 0 .. n - 1
      PROVE  DiskOK(F[i]) /\ (i # 0 => F[i] = Put(F[i - 1], vs[i]))
  <2>1. i + 1 \in 1 .. n /\ i + 1 \in 0 .. n /\ F[i] = E[i + 1] /\ (i + 1) - 1 = i
    BY <1>2, <1>4
  <2>2. ASSUME i # 0 PROVE F[i - 1] = E[i] /\ vs[i] = ws[i + 1]
    BY <1>2, <1>4, <2>2
  <2> QED
    BY <1>3, <2>1, <2>2
<1>7. Settle(c, vs) = e
  <2>1. ws = << w >> \o vs /\ << w >> \in Writes
    BY <1>1, <1>2 DEF Writes
  <2>2. IsDisk(d)
    BY <1>2, <1>3 DEF DiskOK
  <2>3. Settle(d, << w >>) = c
    BY <1>2, <2>2, SettleOne
  <2>4. Settle(d, << w >> \o vs) = Settle(Settle(d, << w >>), vs)
    BY <1>2, <2>1, <2>2, SettleConcat
  <2>5. Settle(d, ws) = e
    BY DEF CrashSafe
  <2> QED
    BY <2>1, <2>3, <2>4, <2>5
<1>8. \A i \in 1 .. Len(vs) : F[i] = Put(F[i - 1], vs[i])
  BY <1>2, <1>6
<1>9. \A i \in 0 .. Len(vs) : DiskOK(F[i])
  BY <1>2, <1>6
<1> QED
  BY <1>1, <1>2, <1>5, <1>7, <1>8, <1>9 DEF CrashSafe

\* The disk is fit to be started from before a safe job and after it.
LEMMA SafeEnds ==
  ASSUME NEW d, NEW ws, NEW e, CrashSafe(d, ws, e)
  PROVE  DiskOK(d) /\ DiskOK(e) /\ e = Settle(d, ws) /\ ws \in Writes
<1>1. Len(ws) \in Nat
  BY DEF CrashSafe, Writes
<1> QED
  BY <1>1 DEF CrashSafe

-----------------------------------------------------------------------------
(* The jobs that write. *)

\* A write that leaves a disk fit to be started from.
WriteOK(d, w) ==
  \/ /\ w.file = "db"
     /\ \/ w.value = None
        \/ DbOK(w.value) /\ (Deep(w.value) => d.root_identifier # w.value.root)
  \/ w.file = "snarked_ledger" /\ w.value \in Block \cup {Dirty}
  \/ w.file = "potential_snarked_ledgers" /\ w.value \in Checkpoints \cup {None, Torn}
  \/ /\ w.file = "root_identifier" /\ w.value \in Block \cup {None, Torn}
     /\ d.db # None /\ Deep(d.db) => w.value # d.db.root

\* A write changes one file.
LEMMA PutFields ==
  ASSUME NEW d, IsDisk(d), NEW v
  PROVE  /\ Put(d, Write("db", v)) = [d EXCEPT !.db = v]
         /\ Put(d, Write("snarked_ledger", v)) = [d EXCEPT !.snarked_ledger = v]
         /\ Put(d, Write("potential_snarked_ledgers", v)) =
              [d EXCEPT !.potential_snarked_ledgers = v]
         /\ Put(d, Write("root_identifier", v)) = [d EXCEPT !.root_identifier = v]
BY DEF Put, Write, IsDisk, Files

\* Such a write is safe.
LEMMA SafeWrite ==
  ASSUME NEW d, DiskOK(d), NEW file, NEW v, WriteOK(d, Write(file, v))
  PROVE  /\ DiskOK(Put(d, Write(file, v)))
         /\ CrashSafe(d, << Write(file, v) >>, Put(d, Write(file, v)))
<1> DEFINE w == Write(file, v)
           e == Put(d, w)
<1>1. w.file = file /\ w.value = v
  BY DEF Write
<1>2. file \in Files /\ v \in Values
  BY <1>1 DEF WriteOK, Files, Values, DbOK
<1>3. w \in [file : Files, value : Values]
  BY <1>2 DEF Write
<1>4. IsDisk(d) /\ IsDisk(e) /\ \A g \in Files : e[g] = IF g = file THEN v ELSE d[g]
  BY <1>1, <1>2 DEF DiskOK, Put, IsDisk
<1>5. /\ e.db = IF file = "db" THEN v ELSE d.db
      /\ e.snarked_ledger = IF file = "snarked_ledger" THEN v ELSE d.snarked_ledger
      /\ e.potential_snarked_ledgers =
           IF file = "potential_snarked_ledgers" THEN v
           ELSE d.potential_snarked_ledgers
      /\ e.root_identifier =
           IF file = "root_identifier" THEN v ELSE d.root_identifier
  BY <1>4 DEF Files
<1> HIDE DEF w, e
<1>6. DiskOK(e)
  BY <1>1, <1>4, <1>5 DEF DiskOK, WriteOK, w
<1> QED
  BY <1>3, <1>6, SafeOne DEF w, e

\* Two such writes in a row are safe.
LEMMA SafeTwo ==
  ASSUME NEW d, DiskOK(d), NEW f1, NEW v1, NEW f2, NEW v2,
         WriteOK(d, Write(f1, v1)),
         WriteOK(Put(d, Write(f1, v1)), Write(f2, v2))
  PROVE  CrashSafe(d, << Write(f1, v1), Write(f2, v2) >>,
                   Put(Put(d, Write(f1, v1)), Write(f2, v2)))
<1> DEFINE w1 == Write(f1, v1)
           w2 == Write(f2, v2)
<1>1. CrashSafe(d, << w1 >>, Put(d, w1)) /\ DiskOK(Put(d, w1))
  BY SafeWrite
<1>2. CrashSafe(Put(d, w1), << w2 >>, Put(Put(d, w1), w2))
  BY <1>1, SafeWrite
<1>3. << w1, w2 >> = << w1 >> \o << w2 >>
  OBVIOUS
<1> HIDE DEF w1, w2
<1>4. CrashSafe(d, << w1 >> \o << w2 >>, Put(Put(d, w1), w2))
  BY <1>1, <1>2, SafeConcat
<1> QED
  BY <1>3, <1>4 DEF w1, w2

\* Writing a ledger over the snarked ledger is safe.
LEMMA SafeTransfer ==
  ASSUME NEW d, DiskOK(d), NEW ledger \in Block \cup {Dirty}
  PROVE  CrashSafe(d, transfer_accounts(ledger), [d EXCEPT !.snarked_ledger = ledger])
<1> DEFINE c == Put(d, Write("snarked_ledger", Dirty))
<1>1. WriteOK(d, Write("snarked_ledger", Dirty))
  BY DEF WriteOK, Write
<1>2. WriteOK(c, Write("snarked_ledger", ledger))
  BY DEF WriteOK, Write
<1>3. Put(c, Write("snarked_ledger", ledger)) = [d EXCEPT !.snarked_ledger = ledger]
  BY DEF Put, Write, DiskOK, IsDisk, Files
<1> QED
  BY <1>1, <1>2, <1>3, SafeTwo DEF transfer_accounts

\* Setting the root identifier is safe, unless it names the root of a
\* database that is too deep.
LEMMA SafeIdentifier ==
  ASSUME NEW d, DiskOK(d), NEW r \in Block,
         d.db # None /\ Deep(d.db) => r # d.db.root
  PROVE  CrashSafe(d, set_root_identifier(r), [d EXCEPT !.root_identifier = r])
<1> DEFINE c == Put(d, Write("root_identifier", Torn))
<1>1. WriteOK(d, Write("root_identifier", Torn))
  BY MarkAssumption DEF WriteOK, Write, DiskOK, DbOK, Database
<1>2. c = [d EXCEPT !.root_identifier = Torn] /\ c.db = d.db
  BY DEF Put, Write, DiskOK, IsDisk, Files
<1>3. WriteOK(c, Write("root_identifier", r))
  BY <1>2 DEF WriteOK, Write
<1>4. Put(c, Write("root_identifier", r)) = [d EXCEPT !.root_identifier = r]
  BY DEF Put, Write, DiskOK, IsDisk, Files
<1> QED
  BY <1>1, <1>3, <1>4, SafeTwo DEF set_root_identifier

\* Writing the list of checkpoints is safe.
LEMMA SafeList ==
  ASSUME NEW d, DiskOK(d), NEW q \in Checkpoints
  PROVE  CrashSafe(d, write_potential_snarked_ledgers(q),
                   [d EXCEPT !.potential_snarked_ledgers = q])
<1> DEFINE c == Put(d, Write("potential_snarked_ledgers", Torn))
<1>1. WriteOK(d, Write("potential_snarked_ledgers", Torn))
  BY DEF WriteOK, Write
<1>2. WriteOK(c, Write("potential_snarked_ledgers", q))
  BY DEF WriteOK, Write
<1>3. Put(c, Write("potential_snarked_ledgers", q)) =
        [d EXCEPT !.potential_snarked_ledgers = q]
  BY DEF Put, Write, DiskOK, IsDisk, Files
<1> QED
  BY <1>1, <1>2, <1>3, SafeTwo DEF write_potential_snarked_ledgers

\* Removing the checkpoints is safe.
LEMMA SafeRemove ==
  ASSUME NEW d, DiskOK(d), NEW q \in Checkpoints \cup {None},
         d.potential_snarked_ledgers = q
  PROVE  CrashSafe(d, RemoveCheckpoints(q), [d EXCEPT !.potential_snarked_ledgers = None])
<1>1. CASE q = None
  <2>1. [d EXCEPT !.potential_snarked_ledgers = None] = d
    BY <1>1 DEF DiskOK, IsDisk, Files
  <2> QED
    BY <1>1, <2>1, SafeNone DEF RemoveCheckpoints
<1>2. CASE q # None
  <2> DEFINE p == [i \in DOMAIN q |-> Dirty]
             c == Put(d, Write("potential_snarked_ledgers", p))
  <2>1. p \in Checkpoints
    BY <1>2 DEF Checkpoints
  <2>2. WriteOK(d, Write("potential_snarked_ledgers", p))
    BY <2>1 DEF WriteOK, Write
  <2>3. WriteOK(c, Write("potential_snarked_ledgers", None))
    BY DEF WriteOK, Write
  <2>4. Put(c, Write("potential_snarked_ledgers", None)) =
          [d EXCEPT !.potential_snarked_ledgers = None]
    BY DEF Put, Write, DiskOK, IsDisk, Files
  <2> QED
    BY <1>2, <2>2, <2>3, <2>4, SafeTwo DEF RemoveCheckpoints
<1> QED
  BY <1>1, <1>2

\* A database that was just initialized is a tree.
LEMMA InitializedIsTree ==
  ASSUME NEW r \in Block
  PROVE  LET db == initialize(r) IN
         /\ DbOK(db) /\ ~Deep(db) /\ db # None
         /\ db.root = r /\ db.best_tip = r /\ Stored(db) = {r}
<1> DEFINE db == initialize(r)
<1>1. /\ db = [ root |-> r, best_tip |-> r, successor_hashes |-> [h \in {r} |-> {}]
              , protocol_states |-> Required[r] ]
      /\ db.root = r /\ db.best_tip = r /\ db.protocol_states = Required[r]
      /\ db.successor_hashes = [h \in {r} |-> {}]
      /\ Table(db) = {r} /\ Stored(db) = {r}
  BY DEF initialize, Table, Stored
<1>2. db \in Database
  <2>1. [h \in {r} |-> {}] \in [{r} -> SUBSET Block] /\ {r} \in SUBSET Block
    OBVIOUS
  <2>2. [h \in {r} |-> {}] \in UNION { [T -> SUBSET Block] : T \in SUBSET Block }
    BY <2>1
  <2>3. Required[r] \in SUBSET Block
    BY ScanStateAssumption
  <2> QED
    BY <1>1, <2>2, <2>3 DEF Database
<1> HIDE DEF db
<1>3. IsTree(db)
  BY <1>1, AncOf DEF IsTree
<1>4. \A h \in {r} : /\ Height[h] - Height[r] \in 0 .. MaxLength
                      /\ Height[h] - Height[r] \in 0 .. (MaxLength + 1)
  <2>1. Height[r] - Height[r] = 0
    BY BlockAssumption
  <2> QED
    BY <2>1, MaxLengthAssumption
<1>5. Within(db, MaxLength) /\ Within(db, MaxLength + 1)
  BY <1>1, <1>4 DEF Within
<1>6. db # None
  BY <1>2, MarkAssumption
<1>7. DbOK(db) /\ ~Deep(db)
  BY <1>1, <1>2, <1>3, <1>5 DEF DbOK, Deep
<1> QED
  BY <1>1, <1>6, <1>7 DEF db

\* Resetting the database is safe.
LEMMA SafeReset ==
  ASSUME NEW d, DiskOK(d), NEW r \in Block
  PROVE  CrashSafe(d, reset_database_exn(r), [d EXCEPT !.db = initialize(r)])
<1> DEFINE c == Put(d, Write("db", None))
<1>1. WriteOK(d, Write("db", None))
  BY DEF WriteOK, Write
<1>2. WriteOK(c, Write("db", initialize(r)))
  BY InitializedIsTree DEF WriteOK, Write
<1>3. Put(c, Write("db", initialize(r))) = [d EXCEPT !.db = initialize(r)]
  BY DEF Put, Write, DiskOK, IsDisk, Files
<1> QED
  BY <1>1, <1>2, <1>3, SafeTwo DEF reset_database_exn

\* Resetting the persistent root is safe below a database of the genesis block.
LEMMA SafeGenesis ==
  ASSUME NEW d, DiskOK(d), d.db = initialize(Genesis)
  PROVE  CrashSafe(d, reset_to_genesis_exn,
                   [d EXCEPT !.snarked_ledger = Genesis,
                             !.potential_snarked_ledgers = None,
                             !.root_identifier = Genesis])
<1> DEFINE w1 == Write("snarked_ledger", Dirty)
           w2 == Write("potential_snarked_ledgers", None)
           w3 == Write("root_identifier", None)
           c == Put(Put(d, w1), w2)
           e == Put(c, w3)
           f == [e EXCEPT !.snarked_ledger = Genesis]
           g == [f EXCEPT !.root_identifier = Genesis]
<1>0. Genesis \in Block /\ ~Deep(d.db) /\ IsDisk(d)
  BY BlockAssumption, InitializedIsTree DEF DiskOK
<1>1. /\ WriteOK(d, w1) /\ WriteOK(Put(d, w1), w2)
  BY DEF WriteOK, Write
<1>2. CrashSafe(d, << w1, w2 >>, c)
  BY <1>1, SafeTwo
<1>3. c = [d EXCEPT !.snarked_ledger = Dirty, !.potential_snarked_ledgers = None]
      /\ e = [c EXCEPT !.root_identifier = None]
      /\ g = [d EXCEPT !.snarked_ledger = Genesis, !.potential_snarked_ledgers = None,
                       !.root_identifier = Genesis]
      /\ c.db = d.db /\ f.db = d.db
  BY <1>0 DEF Put, Write, IsDisk, Files
<1> HIDE DEF c, e, f, g
<1>4. WriteOK(c, w3)
  BY <1>0, <1>3 DEF WriteOK, Write
<1>5. CrashSafe(c, << w3 >>, e)
  BY <1>2, <1>4, SafeEnds, SafeWrite DEF e
<1>6. << w1, w2 >> \o << w3 >> = << w1, w2, w3 >>
  BY ThirdElement
<1> HIDE DEF w1, w2, w3
<1>7. CrashSafe(d, << w1, w2 >> \o << w3 >>, e)
  BY <1>2, <1>5, SafeConcat
<1>8. CrashSafe(d, << w1, w2, w3 >>, e)
  BY <1>6, <1>7
<1>9. CrashSafe(e, transfer_accounts(Genesis), f)
  BY <1>0, <1>8, SafeEnds, SafeTransfer DEF f
<1>10. CrashSafe(f, set_root_identifier(Genesis), g)
  BY <1>0, <1>3, <1>9, SafeEnds, SafeIdentifier DEF g
<1>11. CrashSafe(d, (<< w1, w2, w3 >> \o transfer_accounts(Genesis))
                      \o set_root_identifier(Genesis), g)
  BY <1>8, <1>9, <1>10, SafeConcat
<1> QED
  BY <1>3, <1>11 DEF reset_to_genesis_exn, w1, w2, w3

\* A bootstrap is safe.
LEMMA SafeBootstrap ==
  ASSUME NEW d, DiskOK(d), NEW r \in Block
  PROVE  CrashSafe(d, BootstrapWrites(r),
                   [d EXCEPT !.snarked_ledger = LedgerOf[r], !.db = initialize(r),
                             !.root_identifier = r])
<1> DEFINE c == [d EXCEPT !.snarked_ledger = LedgerOf[r]]
           e == [c EXCEPT !.db = initialize(r)]
           f == [e EXCEPT !.root_identifier = r]
<1>0. LedgerOf[r] \in Block
  BY LedgerAssumption
<1>1. CrashSafe(d, transfer_accounts(LedgerOf[r]), c)
  BY <1>0, SafeTransfer
<1>2. /\ f = [d EXCEPT !.snarked_ledger = LedgerOf[r], !.db = initialize(r),
                       !.root_identifier = r]
      /\ e.db = initialize(r)
  BY DEF DiskOK, IsDisk, Files
<1> HIDE DEF c, e, f
<1>3. CrashSafe(c, reset_database_exn(r), e)
  BY <1>1, SafeEnds, SafeReset DEF e
<1>4. CrashSafe(e, set_root_identifier(r), f)
  BY <1>2, <1>3, SafeEnds, SafeIdentifier, InitializedIsTree DEF f
<1>5. CrashSafe(d, (transfer_accounts(LedgerOf[r]) \o reset_database_exn(r))
                     \o set_root_identifier(r), f)
  BY <1>1, <1>3, <1>4, SafeConcat
<1> QED
  BY <1>2, <1>5 DEF BootstrapWrites

\* Dropping the oldest checkpoint is safe.
LEMMA SafeDequeue ==
  ASSUME NEW d, DiskOK(d), queue \in Checkpoints, queue # << >>
  PROVE  CrashSafe(d, dequeue_snarked_ledger,
                   [d EXCEPT !.potential_snarked_ledgers = Tail(queue)])
<1> DEFINE p == [queue EXCEPT ![1] = Dirty]
           w == Write("potential_snarked_ledgers", p)
           c == Put(d, w)
           f == [c EXCEPT !.potential_snarked_ledgers = Tail(queue)]
<1>1. p \in Checkpoints /\ Tail(queue) \in Checkpoints
  BY DEF Checkpoints
<1>2. WriteOK(d, w)
  BY <1>1 DEF WriteOK, Write
<1>3. CrashSafe(d, << w >>, c) /\ DiskOK(c)
  BY <1>2, SafeWrite
<1>4. f = [d EXCEPT !.potential_snarked_ledgers = Tail(queue)]
  BY DEF DiskOK, IsDisk, Files, Put, Write
<1> HIDE DEF c, w
<1>5. CrashSafe(c, write_potential_snarked_ledgers(Tail(queue)), f)
  BY <1>1, <1>3, SafeList
<1>6. CrashSafe(d, << w >> \o write_potential_snarked_ledgers(Tail(queue)), f)
  BY <1>3, <1>5, SafeConcat
<1> QED
  BY <1>4, <1>6 DEF dequeue_snarked_ledger, w

\* The writes of a root transition are safe, unless they name the root of a
\* database that is too deep.
LEMMA SafeRootWrites ==
  ASSUME DiskOK(disk), disk.snarked_ledger = LedgerOf[mem.root],
         NEW d, d.new_root \in Block, d.just_emitted_a_proof \in BOOLEAN,
         disk.db # None /\ Deep(disk.db) => d.new_root # disk.db.root,
         NEW q \in Checkpoints
  PROVE  CrashSafe(disk, RootWrites(d, q),
           [disk EXCEPT
              !.potential_snarked_ledgers = IF d.just_emitted_a_proof THEN q ELSE @,
              !.snarked_ledger = IF d.just_emitted_a_proof THEN LedgerOf[d.new_root] ELSE @,
              !.root_identifier = d.new_root])
<1> DEFINE r == d.new_root
           goal == [disk EXCEPT
              !.potential_snarked_ledgers = IF d.just_emitted_a_proof THEN q ELSE @,
              !.snarked_ledger = IF d.just_emitted_a_proof THEN LedgerOf[r] ELSE @,
              !.root_identifier = r]
<1>0. LedgerOf[r] \in Block /\ IsDisk(disk)
  BY LedgerAssumption DEF DiskOK
<1>1. CASE d.just_emitted_a_proof
  <2> DEFINE c == [disk EXCEPT !.potential_snarked_ledgers = q]
             e == [c EXCEPT !.snarked_ledger = LedgerOf[r]]
             f == [e EXCEPT !.root_identifier = r]
  <2>1. CrashSafe(disk, write_potential_snarked_ledgers(q), c)
    BY SafeList
  <2>2. e.db = disk.db /\ f = goal
    BY <1>0, <1>1 DEF IsDisk, Files
  <2> HIDE DEF c, e, f
  <2>3. CrashSafe(c, transfer_accounts(LedgerOf[r]), e)
    BY <1>0, <2>1, SafeEnds, SafeTransfer DEF e
  <2>4. CrashSafe(e, set_root_identifier(r), f)
    BY <2>2, <2>3, SafeEnds, SafeIdentifier DEF f
  <2>5. CrashSafe(disk, (write_potential_snarked_ledgers(q)
                           \o transfer_accounts(LedgerOf[r]))
                          \o set_root_identifier(r), f)
    BY <2>1, <2>3, <2>4, SafeConcat
  <2> QED
    BY <1>1, <2>2, <2>5 DEF RootWrites
<1>2. CASE ~d.just_emitted_a_proof
  <2>1. [disk EXCEPT !.root_identifier = r] = goal
    BY <1>0, <1>2 DEF IsDisk, Files
  <2>2. CrashSafe(disk, set_root_identifier(r), [disk EXCEPT !.root_identifier = r])
    BY SafeIdentifier
  <2>3. CrashSafe(disk, << >>, disk)
    BY SafeNone
  <2>4. CrashSafe(disk, << >> \o set_root_identifier(r), goal)
    BY <2>1, <2>2, <2>3, SafeConcat
  <2> QED
    BY <1>2, <2>4 DEF RootWrites
<1> QED
  BY <1>1, <1>2

-----------------------------------------------------------------------------
(* Databases and frontiers. *)

\* A frontier written to a database, as a database.
LEMMA FrontierAsDatabase ==
  ASSUME NEW f, Sound(f), Within(f, MaxLength + 1)
  PROVE  LET db == AsDatabase(f) IN
         /\ DbOK(db) /\ (Deep(db) <=> ~Within(f, MaxLength))
         /\ db.root = f.root /\ db.best_tip = f.best_tip /\ Stored(db) = Table(f)
<1> DEFINE db == AsDatabase(f)
<1>1. /\ db = [ root |-> f.root, best_tip |-> f.best_tip
              , successor_hashes |-> f.successor_hashes
              , protocol_states |-> f.protocol_states ]
      /\ db.root = f.root /\ db.best_tip = f.best_tip
      /\ db.successor_hashes = f.successor_hashes
      /\ db.protocol_states = f.protocol_states
      /\ Stored(db) = Table(f) /\ Table(db) = Table(f)
  BY DEF AsDatabase, Stored, Table
<1>2. /\ Table(f) \in SUBSET Block /\ f.root \in Block /\ f.best_tip \in Block
      /\ f.successor_hashes \in [Table(f) -> SUBSET Block]
      /\ f.protocol_states \in SUBSET Block
  BY DEF Sound, IsFrontier
<1>3. f.successor_hashes \in UNION { [T -> SUBSET Block] : T \in SUBSET Block }
  BY <1>2
<1>4. db \in Database
  BY <1>1, <1>2, <1>3 DEF Database
<1> HIDE DEF db
<1>5. IsTree(db)
  BY <1>1 DEF Sound, IsTree
<1>6. \A n : Within(db, n) <=> Within(f, n)
  BY <1>1 DEF Within
<1>7. DbOK(db)
  BY <1>1, <1>4, <1>5, <1>6 DEF DbOK, Sound
<1>8. Deep(db) <=> ~Within(f, MaxLength)
  BY <1>6 DEF Deep
<1> QED
  BY <1>1, <1>7, <1>8 DEF db

\* The worker adds a node the way the frontier does.
LEMMA AddCommutes ==
  ASSUME NEW f, NEW b, Parent[b] \in Table(f)
  PROVE  apply_to_database(AsDatabase(f), New_node(b)) = AsDatabase(AddNode(f, b))
<1> DEFINE db == AsDatabase(f)
           s == [h \in Table(f) \cup {b} |->
                   IF h = b THEN {}
                   ELSE IF h = Parent[b] THEN f.successor_hashes[Parent[b]] \cup {b}
                   ELSE f.successor_hashes[h]]
<1>1. apply_to_database(db, New_node(b)) = add(db, b)
  BY DEF apply_to_database, New_node
<1>2. /\ db = [ root |-> f.root, best_tip |-> f.best_tip
              , successor_hashes |-> f.successor_hashes
              , protocol_states |-> f.protocol_states ]
      /\ db.successor_hashes = f.successor_hashes /\ Stored(db) = Table(f)
  BY DEF AsDatabase, Stored, Table
<1>3. s = [h \in Stored(db) \cup {b} |->
             IF h = b THEN {}
             ELSE IF h = Parent[b] THEN db.successor_hashes[h] \cup {b}
             ELSE db.successor_hashes[h]]
  BY <1>2
<1>4. add(db, b) = [db EXCEPT !.successor_hashes = s]
  <2> HIDE DEF db, s
  <2> QED
    BY <1>2, <1>3 DEF add
<1>5. AsDatabase(AddNode(f, b)) =
        [ root |-> f.root, best_tip |-> f.best_tip, successor_hashes |-> s
        , protocol_states |-> f.protocol_states ]
  BY DEF AsDatabase, AddNode
<1> HIDE DEF s
<1> QED
  BY <1>1, <1>2, <1>4, <1>5

\* The worker moves the root the way the frontier does.
LEMMA MoveCommutes ==
  ASSUME NEW f, NEW r, NEW garbage
  PROVE  apply_to_database(AsDatabase(f), Root_transitioned(r, garbage)) =
           AsDatabase(move_root(f, r, garbage))
<1> DEFINE db == AsDatabase(f)
           s == [h \in Table(f) \ (garbage \cup {f.root}) |-> f.successor_hashes[h]]
<1>1. apply_to_database(db, Root_transitioned(r, garbage)) =
        database_move_root(db, r, garbage)
  BY DEF apply_to_database, Root_transitioned
<1>2. /\ db = [ root |-> f.root, best_tip |-> f.best_tip
              , successor_hashes |-> f.successor_hashes
              , protocol_states |-> f.protocol_states ]
      /\ db.successor_hashes = f.successor_hashes /\ Stored(db) = Table(f)
      /\ db.root = f.root
  BY DEF AsDatabase, Stored, Table
<1>3. s = [h \in Stored(db) \ (garbage \cup {db.root}) |-> db.successor_hashes[h]]
  BY <1>2
<1>4. database_move_root(db, r, garbage) =
        [db EXCEPT !.root = r, !.protocol_states = Required[r], !.successor_hashes = s]
  <2> HIDE DEF db, s
  <2> QED
    BY <1>2, <1>3 DEF database_move_root
<1>5. AsDatabase(move_root(f, r, garbage)) =
        [ root |-> r, best_tip |-> f.best_tip, successor_hashes |-> s
        , protocol_states |-> Required[r] ]
  BY DEF AsDatabase, move_root, Kept
<1>6. [db EXCEPT !.root = r, !.protocol_states = Required[r], !.successor_hashes = s] =
        [ root |-> r, best_tip |-> f.best_tip, successor_hashes |-> s
        , protocol_states |-> Required[r] ]
  <2> DEFINE e == [db EXCEPT !.root = r, !.protocol_states = Required[r],
                             !.successor_hashes = s]
  <2> HIDE DEF db, s
  <2>1. /\ e.root = r /\ e.best_tip = f.best_tip /\ e.successor_hashes = s
        /\ e.protocol_states = Required[r]
    BY <1>2
  <2>2. /\ DOMAIN e = {"root", "best_tip", "successor_hashes", "protocol_states"}
        /\ e = [i \in DOMAIN e |-> e[i]]
    BY <1>2
  <2> HIDE DEF e
  <2>3. e = [ root |-> r, best_tip |-> f.best_tip, successor_hashes |-> s
            , protocol_states |-> Required[r] ]
    BY <2>1, <2>2
  <2> QED
    BY <2>3 DEF e
<1> HIDE DEF db, s
<1>7. apply_to_database(db, Root_transitioned(r, garbage)) =
        AsDatabase(move_root(f, r, garbage))
  BY <1>1, <1>4, <1>5, <1>6
<1> QED
  BY <1>7 DEF db

\* The worker sets the best tip the way the frontier does.
LEMMA TipCommutes ==
  ASSUME NEW f, IsFrontier(f), NEW b
  PROVE  apply_to_database(AsDatabase(f), Best_tip_changed(b)) =
           AsDatabase(apply_diff(f, Best_tip_changed(b)))
BY DEF apply_to_database, Best_tip_changed, apply_diff, AsDatabase, IsFrontier

\* Every stored block is found by crawling down from the root.
LEMMA CrawledIsStored ==
  ASSUME NEW db \in Database, IsTree(db)
  PROVE  Crawled(db) = Stored(db)
<1> DEFINE T == Table(db)
<1>1. T = Stored(db) /\ T \subseteq Block /\ db.root \in T
  BY DEF Table, Stored, Database, IsTree
<1>2. successors_rec(db, db.root) \subseteq T
  BY DEF successors_rec
<1>3. ASSUME NEW h \in T \ {db.root}, NEW S \in SUBSET T,
             db.successor_hashes[db.root] \subseteq S,
             \A x \in S : db.successor_hashes[x] \subseteq S
      PROVE  h \in S
  <2> DEFINE X == { x \in Block : x \in T \ {db.root} => x \in S }
  <2>1. X \in SUBSET Block
    OBVIOUS
  <2>2. Genesis \in X
    BY BlockAssumption DEF IsTree
  <2>3. ASSUME NEW x \in Block \ {Genesis}, Parent[x] \in X, x \in T \ {db.root}
        PROVE  x \in S
    <3>1. Parent[x] \in T /\ x \in db.successor_hashes[Parent[x]]
      BY <2>3 DEF IsTree
    <3> QED
      BY <1>3, <2>3, <3>1
  <2>4. \A x \in Block \ {Genesis} : Parent[x] \in X => x \in X
    BY <2>3
  <2>5. X = Block
    <3> HIDE DEF X
    <3> QED
      BY <2>1, <2>2, <2>4, DescentAssumption
  <2> QED
    BY <1>1, <2>5
<1>4. ASSUME NEW h \in T \ {db.root} PROVE h \in successors_rec(db, db.root)
  BY <1>3 DEF successors_rec
<1> QED
  BY <1>1, <1>2, <1>4 DEF Crawled

\* A database that is not too deep loads as a sound frontier, and as the one
\* it was written from.
LEMMA LoadedIsSound ==
  ASSUME NEW db, DbOK(db), ~Deep(db)
  PROVE  LET f == load_full_frontier(db) IN
         /\ Sound(f) /\ Within(f, MaxLength)
         /\ AsDatabase(f) = db
         /\ f.root = db.root /\ f.best_tip = db.best_tip /\ Table(f) = Stored(db)
<1> DEFINE f == load_full_frontier(db)
           T == Stored(db)
<1>1. /\ db \in Database /\ IsTree(db) /\ Within(db, MaxLength)
      /\ db.protocol_states = Required[db.root]
  BY DEF DbOK, Deep
<1>2. Crawled(db) = T
  BY <1>1, CrawledIsStored
<1>3. /\ T \subseteq Block /\ T = Table(db) /\ db.root \in Block /\ db.best_tip \in Block
      /\ db.successor_hashes \in [T -> SUBSET Block]
      /\ db.successor_hashes = [h \in T |-> db.successor_hashes[h]]
      /\ db.protocol_states \in SUBSET Block
      /\ db.root \in T
      /\ db = [ root |-> db.root, best_tip |-> db.best_tip
              , successor_hashes |-> db.successor_hashes
              , protocol_states |-> db.protocol_states ]
  BY <1>1 DEF Database, Stored, Table, IsTree
<1>4. f = [ root |-> db.root, best_tip |-> db.best_tip
          , successor_hashes |-> db.successor_hashes
          , length |-> [h \in T |-> Height[h] - Height[db.root]]
          , protocol_states |-> db.protocol_states ]
  BY <1>2, <1>3 DEF load_full_frontier
<1> HIDE DEF f
<1>5. /\ f.root = db.root /\ f.best_tip = db.best_tip
      /\ f.successor_hashes = db.successor_hashes
      /\ f.protocol_states = db.protocol_states
      /\ f.length = [h \in T |-> Height[h] - Height[db.root]]
      /\ Table(f) = T
  BY <1>3, <1>4 DEF Table
<1>6. Within(f, MaxLength)
  BY <1>1, <1>3, <1>5 DEF Within
<1>7. \A h \in T : Height[h] - Height[db.root] \in Nat
  BY <1>5, <1>6, MaxLengthAssumption DEF Within
<1>8. f.length \in [T -> Nat]
  BY <1>5, <1>7
<1>9. IsFrontier(f)
  BY <1>3, <1>4, <1>5, <1>8 DEF IsFrontier
<1>10. IsTree(f)
  BY <1>1, <1>3, <1>5 DEF IsTree
<1>11. \A h \in T : f.length[h] - f.length[f.root] = Height[h] - Height[f.root]
  <2>1. \A h \in T : Height[h] \in Nat
    BY <1>3, BlockAssumption
  <2> QED
    BY <1>3, <1>5, <2>1
<1>12. Sound(f)
  BY <1>1, <1>5, <1>9, <1>10, <1>11 DEF Sound
<1>13. AsDatabase(f) = db
  BY <1>3, <1>5 DEF AsDatabase
<1> QED
  BY <1>5, <1>6, <1>12, <1>13 DEF f

\* The verdict of check on a database that holds a tree depends on its best
\* tip alone.
LEMMA CheckVerdict ==
  /\ check(None) = "Not_initialized"
  /\ \A db : DbOK(db) => /\ db # None
                         /\ check(db) = IF db.best_tip \in Stored(db)
                                        THEN "Ok" ELSE "Corrupt"
<1>1. check(None) = "Not_initialized"
  BY DEF check
<1>2. ASSUME NEW db, DbOK(db)
      PROVE  /\ db # None
             /\ check(db) = IF db.best_tip \in Stored(db) THEN "Ok" ELSE "Corrupt"
  <2>1. db \in Database /\ IsTree(db) /\ db # None
    BY <1>2, MarkAssumption DEF DbOK
  <2>2. Stored(db) = Table(db)
    BY DEF Stored, Table
  <2>3. /\ db.root \in Stored(db)
        /\ \A h \in Stored(db) : db.successor_hashes[h] \subseteq Stored(db)
    BY <2>1, <2>2 DEF IsTree
  <2>4. Crawled(db) = Stored(db)
    BY <2>1, CrawledIsStored
  <2> QED
    BY <2>1, <2>3, <2>4 DEF check
<1> QED
  BY <1>1, <1>2

-----------------------------------------------------------------------------
(* The database catches up with the frontier, one diff after the other.     *)

Diffs ==
  [type : {"New_node", "Best_tip_changed"}, block : Block]
  \cup [ type : {"Root_transitioned"}, new_root : Block
       , garbage : SUBSET Block, just_emitted_a_proof : BOOLEAN ]

EmitsProof(d) == d.type = "Root_transitioned" /\ d.just_emitted_a_proof

\* A database behind a frontier rooted at r with the checkpoints q, when the
\* first k checkpoints have been dropped.
Replica(db, k, q, r) ==
  /\ DbOK(db)
  /\ Deep(db) => db.root # r
  /\ Height[db.root] <= Height[r]
  /\ k \in 0 .. Len(q)
  /\ Append(q, LedgerOf[r])[k + 1] = LedgerOf[db.root]

\* The worker applies a diff to the database db1 and gets db2.
Applies(db1, k1, d, db2, k2) ==
  /\ d.type = "Root_transitioned" => d.new_root \in Stored(db1)
  /\ db2 = apply_to_database(db1, d)
  /\ k2 = IF EmitsProof(d) THEN k1 + 1 ELSE k1

\* The diffs ds lead from the database db0 to db1, which has dropped k1
\* checkpoints, by way of replicas of the frontier.
Reach(db0, ds, q, r, db1, k1) ==
  \E D, K :
    /\ D[0] = db0 /\ K[0] = 0 /\ D[Len(ds)] = db1 /\ K[Len(ds)] = k1
    /\ \A i \in 0 .. Len(ds) : Replica(D[i], K[i], q, r)
    /\ \A i \in 0 .. Len(ds) : \A j \in 0 .. Len(ds) : i <= j => K[i] <= K[j]
    /\ \A i \in 1 .. Len(ds) : Applies(D[i - 1], K[i - 1], ds[i], D[i], K[i])

\* A replica reaches itself.
LEMMA ReachNone ==
  ASSUME NEW db, NEW q, NEW r, Replica(db, 0, q, r)
  PROVE  Reach(db, << >>, q, r, db, 0)
<1>1. PICK D : D = [i \in {0} |-> db]
  OBVIOUS
<1>2. PICK K : K = [i \in {0} |-> 0]
  OBVIOUS
<1>3. D[0] = db /\ K[0] = 0 /\ Len(<< >>) = 0 /\ \A i \in 0 .. 0 : i = 0
  BY <1>1, <1>2
<1>4. \A i \in 0 .. 0 : Replica(D[i], K[i], q, r)
  BY <1>3
<1>5. \A i \in 0 .. 0 : \A j \in 0 .. 0 : i <= j => K[i] <= K[j]
  BY <1>3
<1> QED
  BY <1>3, <1>4, <1>5 DEF Reach

\* The two ends are replicas.
LEMMA ReachEnds ==
  ASSUME NEW db0, NEW ds \in Seq(Diffs), NEW q, NEW r, NEW db1, NEW k1,
         Reach(db0, ds, q, r, db1, k1)
  PROVE  Replica(db0, 0, q, r) /\ Replica(db1, k1, q, r)
<1>1. Len(ds) \in Nat
  OBVIOUS
<1>2. PICK D, K :
    /\ D[0] = db0 /\ K[0] = 0 /\ D[Len(ds)] = db1 /\ K[Len(ds)] = k1
    /\ \A i \in 0 .. Len(ds) : Replica(D[i], K[i], q, r)
  BY DEF Reach
<1> QED
  BY <1>1, <1>2

\* Without a diff nothing else is reached.
LEMMA ReachSame ==
  ASSUME NEW db0, NEW q, NEW r, NEW db1, NEW k1, Reach(db0, << >>, q, r, db1, k1)
  PROVE  db0 = db1 /\ k1 = 0
<1>1. Len(<< >>) = 0
  OBVIOUS
<1>2. PICK D, K : /\ D[0] = db0 /\ K[0] = 0
                  /\ D[Len(<< >>)] = db1 /\ K[Len(<< >>)] = k1
  BY DEF Reach
<1> QED
  BY <1>1, <1>2

\* One more diff.
LEMMA ReachAppend ==
  ASSUME NEW db0, NEW ds \in Seq(Diffs), NEW q, NEW r, NEW db1, NEW k1 \in Nat,
         Reach(db0, ds, q, r, db1, k1),
         NEW d \in Diffs, NEW db2, NEW k2 \in Nat,
         Applies(db1, k1, d, db2, k2), Replica(db2, k2, q, r)
  PROVE  Reach(db0, Append(ds, d), q, r, db2, k2)
<1> DEFINE n == Len(ds)
<1>1. PICK es : es = Append(ds, d)
  OBVIOUS
<1>2. /\ n \in Nat /\ Len(es) = n + 1 /\ es[n + 1] = d
      /\ \A i \in 1 .. n : es[i] = ds[i]
  BY <1>1
<1>3. PICK D, K :
    /\ D[0] = db0 /\ K[0] = 0 /\ D[n] = db1 /\ K[n] = k1
    /\ \A i \in 0 .. n : Replica(D[i], K[i], q, r)
    /\ \A i \in 0 .. n : \A j \in 0 .. n : i <= j => K[i] <= K[j]
    /\ \A i \in 1 .. n : Applies(D[i - 1], K[i - 1], ds[i], D[i], K[i])
  BY DEF Reach
<1>4. PICK E : E = [i \in 0 .. n + 1 |-> IF i = n + 1 THEN db2 ELSE D[i]]
  OBVIOUS
<1>5. PICK L : L = [i \in 0 .. n + 1 |-> IF i = n + 1 THEN k2 ELSE K[i]]
  OBVIOUS
<1>6. /\ E[n + 1] = db2 /\ L[n + 1] = k2
      /\ \A i \in 0 .. n : E[i] = D[i] /\ L[i] = K[i]
  BY <1>2, <1>4, <1>5
<1>7. \A i \in 0 .. n + 1 : i = n + 1 \/ i \in 0 .. n
  BY <1>2
<1>8. \A i \in 0 .. n + 1 : Replica(E[i], L[i], q, r)
  BY <1>3, <1>6, <1>7
<1>9. \A i \in 0 .. n : K[i] \in Nat /\ K[i] <= k1
  <2>1. \A i \in 0 .. n : K[i] <= K[n]
    BY <1>2, <1>3
  <2>2. \A i \in 0 .. n : K[i] \in 0 .. Len(q)
    BY <1>3 DEF Replica
  <2> QED
    BY <1>3, <2>1, <2>2
<1>10. k1 <= k2
  BY DEF Applies
<1>11. ASSUME NEW i \in 0 .. n + 1, NEW j \in 0 .. n + 1, i <= j
       PROVE  L[i] <= L[j]
  <2>1. CASE j = n + 1
    BY <1>6, <1>7, <1>9, <1>10, <2>1
  <2>2. CASE j # n + 1
    <3>1. i \in 0 .. n /\ j \in 0 .. n
      BY <1>2, <1>11, <2>2
    <3> QED
      BY <1>3, <1>6, <1>11, <3>1
  <2> QED
    BY <2>1, <2>2
<1>12. ASSUME NEW i \in 1 .. n + 1
       PROVE  Applies(E[i - 1], L[i - 1], es[i], E[i], L[i])
  <2>1. CASE i = n + 1
    <3>1. E[i - 1] = db1 /\ L[i - 1] = k1 /\ E[i] = db2 /\ L[i] = k2 /\ es[i] = d
      BY <1>2, <1>3, <1>6, <2>1
    <3> QED
      BY <3>1
  <2>2. CASE i # n + 1
    <3>1. i \in 1 .. n /\ i \in 0 .. n /\ i - 1 \in 0 .. n
      BY <1>2, <2>2
    <3> QED
      BY <1>2, <1>3, <1>6, <3>1
  <2> QED
    BY <2>1, <2>2
<1>13. E[0] = db0 /\ L[0] = 0
  BY <1>2, <1>3, <1>6
<1>14. Reach(db0, es, q, r, db2, k2)
  BY <1>2, <1>6, <1>8, <1>11, <1>12, <1>13 DEF Reach
<1> QED
  BY <1>1, <1>14

\* A replica of the frontier is one of the frontier whose root moved up.
LEMMA ReplicaReroot ==
  ASSUME NEW q \in Checkpoints, NEW p \in Checkpoints,
         NEW r \in Block, NEW s \in Block, Height[s] > Height[r],
         p = Append(q, LedgerOf[r]) \/ (p = q /\ LedgerOf[s] = LedgerOf[r]),
         NEW db, NEW k, Replica(db, k, q, r)
  PROVE  Replica(db, k, p, s)
<1>1. DbOK(db) /\ db.root \in Block
  BY DEF Replica, DbOK, Database
<1>2. Height[db.root] \in Nat /\ Height[r] \in Nat /\ Height[s] \in Nat
  BY <1>1, BlockAssumption
<1>3. Height[db.root] < Height[s]
  BY <1>2 DEF Replica
<1>4. Len(q) \in Nat /\ Len(p) \in Nat /\ Len(q) <= Len(p) /\ k \in 0 .. Len(q)
  BY DEF Checkpoints, Replica
<1>5. Append(p, LedgerOf[s])[k + 1] = Append(q, LedgerOf[r])[k + 1]
  <2>1. CASE p = Append(q, LedgerOf[r])
    <3>1. p \in Seq(Block \cup {Dirty}) /\ k + 1 \in 1 .. Len(p)
      BY <1>4, <2>1 DEF Checkpoints
    <3>2. Append(p, LedgerOf[s])[k + 1] = p[k + 1]
      BY <3>1
    <3> QED
      BY <2>1, <3>2
  <2>2. CASE p = q /\ LedgerOf[s] = LedgerOf[r]
    BY <2>2
  <2> QED
    BY <2>1, <2>2
<1> QED
  BY <1>1, <1>2, <1>3, <1>4, <1>5 DEF Replica

\* The same for all that the database goes through.
LEMMA ReachReroot ==
  ASSUME NEW q \in Checkpoints, NEW p \in Checkpoints,
         NEW r \in Block, NEW s \in Block, Height[s] > Height[r],
         p = Append(q, LedgerOf[r]) \/ (p = q /\ LedgerOf[s] = LedgerOf[r]),
         NEW db0, NEW ds, NEW db1, NEW k1, Reach(db0, ds, q, r, db1, k1)
  PROVE  Reach(db0, ds, p, s, db1, k1)
<1>1. \A db, k : Replica(db, k, q, r) => Replica(db, k, p, s)
  BY ReplicaReroot
<1> QED
  BY <1>1 DEF Reach

\* A replica stays one when the worker has dropped a checkpoint.
LEMMA ReplicaDequeue ==
  ASSUME NEW q \in Checkpoints, NEW r, NEW db, NEW k, Replica(db, k, q, r), k >= 1
  PROVE  q # << >> /\ Replica(db, k - 1, Tail(q), r)
<1>1. Len(q) \in Nat /\ k \in 1 .. Len(q) /\ q \in Seq(Block \cup {Dirty})
  BY DEF Replica, Checkpoints
<1>2. q # << >>
  BY <1>1
<1>3. PICK p : p = Tail(q)
  OBVIOUS
<1>4. /\ p \in Seq(Block \cup {Dirty}) /\ Len(p) = Len(q) - 1
      /\ \A i \in 1 .. Len(q) - 1 : p[i] = q[i + 1]
  BY <1>1, <1>2, <1>3
<1>5. (k - 1) \in 0 .. Len(p) /\ (k - 1) + 1 = k
  BY <1>1, <1>4
<1>6. Append(p, LedgerOf[r])[k] = Append(q, LedgerOf[r])[k + 1]
  <2>1. CASE k = Len(q)
    <3>1. Append(p, LedgerOf[r])[Len(p) + 1] = LedgerOf[r]
      BY <1>4
    <3>2. Append(q, LedgerOf[r])[Len(q) + 1] = LedgerOf[r]
      BY <1>1
    <3>3. Len(p) + 1 = k
      BY <1>1, <1>4, <2>1
    <3> QED
      BY <2>1, <3>1, <3>2, <3>3
  <2>2. CASE k # Len(q)
    <3>1. k \in 1 .. Len(q) - 1 /\ k \in 1 .. Len(p) /\ k + 1 \in 1 .. Len(q)
      BY <1>1, <1>4, <2>2
    <3>2. Append(p, LedgerOf[r])[k] = p[k]
      BY <1>4, <3>1
    <3>3. Append(q, LedgerOf[r])[k + 1] = q[k + 1]
      BY <1>1, <3>1
    <3> QED
      BY <1>4, <3>1, <3>2, <3>3
  <2> QED
    BY <2>1, <2>2
<1>7. Replica(db, k - 1, p, r)
  BY <1>5, <1>6 DEF Replica
<1> QED
  BY <1>2, <1>3, <1>7

\* The worker applies the first diff.
LEMMA ReachTail ==
  ASSUME NEW db0, NEW ds \in Seq(Diffs), NEW q \in Checkpoints, NEW r, NEW db1, NEW k1,
         Reach(db0, ds, q, r, db1, k1), ds # << >>
  PROVE  LET d == Head(ds)
             db == apply_to_database(db0, d)
         IN  /\ d.type = "Root_transitioned" => d.new_root \in Stored(db0)
             /\ EmitsProof(d) => q # << >> /\ Reach(db, Tail(ds), Tail(q), r, db1, k1 - 1)
             /\ ~EmitsProof(d) => Reach(db, Tail(ds), q, r, db1, k1)
<1> DEFINE n == Len(ds)
           d == Head(ds)
           db == apply_to_database(db0, d)
<1>1. PICK es : es = Tail(ds)
  OBVIOUS
<1>2. /\ n \in Nat /\ n # 0 /\ ds[1] = d /\ Len(es) = n - 1
      /\ \A i \in 1 .. n - 1 : es[i] = ds[i + 1]
  BY <1>1
<1>3. PICK D, K :
    /\ D[0] = db0 /\ K[0] = 0 /\ D[n] = db1 /\ K[n] = k1
    /\ \A i \in 0 .. n : Replica(D[i], K[i], q, r)
    /\ \A i \in 0 .. n : \A j \in 0 .. n : i <= j => K[i] <= K[j]
    /\ \A i \in 1 .. n : Applies(D[i - 1], K[i - 1], ds[i], D[i], K[i])
  BY DEF Reach
<1> HIDE DEF d
<1>4. Applies(db0, 0, d, D[1], K[1])
  <2>1. 1 \in 1 .. n /\ 1 - 1 = 0
    BY <1>2
  <2>2. Applies(D[1 - 1], K[1 - 1], ds[1], D[1], K[1])
    BY <1>3, <2>1
  <2> QED
    BY <1>2, <1>3, <2>1, <2>2
<1>5. /\ d.type = "Root_transitioned" => d.new_root \in Stored(db0)
      /\ D[1] = db
      /\ K[1] = IF EmitsProof(d) THEN 1 ELSE 0
  BY <1>4 DEF Applies
<1>6. PICK E : E = [i \in 0 .. n - 1 |-> D[i + 1]]
  OBVIOUS
<1>7. /\ E[0] = db /\ E[n - 1] = db1
      /\ \A i \in 0 .. n - 1 : E[i] = D[i + 1] /\ i + 1 \in 0 .. n /\ i + 1 \in 1 .. n
  BY <1>2, <1>3, <1>5, <1>6
<1>8. \A i \in 1 .. n - 1 : /\ i \in 0 .. n - 1 /\ i - 1 \in 0 .. n - 1
                             /\ (i - 1) + 1 = i /\ (i + 1) - 1 = i
  BY <1>2
<1>9. \A i \in 1 .. n : K[i] \in Nat /\ K[1] <= K[i]
  <2>1. \A i \in 1 .. n : i \in 0 .. n /\ 1 \in 0 .. n /\ 1 <= i
    BY <1>2
  <2>2. \A i \in 1 .. n : Replica(D[i], K[i], q, r)
    BY <1>3, <2>1
  <2>3. \A i \in 1 .. n : K[i] \in 0 .. Len(q)
    BY <2>2 DEF Replica
  <2>4. \A i \in 1 .. n : K[i] \in Nat
    BY <2>3
  <2> QED
    BY <1>3, <2>1, <2>4
<1>10. CASE EmitsProof(d)
  <2>1. K[1] = 1
    BY <1>5, <1>10
  <2>2. \A i \in 1 .. n : K[i] \in Nat /\ K[i] >= 1
    BY <1>9, <2>1
  <2>3. PICK L : L = [i \in 0 .. n - 1 |-> K[i + 1] - 1]
    OBVIOUS
  <2>4. \A i \in 0 .. n - 1 : L[i] = K[i + 1] - 1 /\ L[i] \in Nat
    BY <1>7, <2>2, <2>3
  <2>5. L[0] = 0 /\ L[n - 1] = k1 - 1
    BY <1>2, <1>3, <2>1, <2>4
  <2>6. \A i \in 0 .. n - 1 : q # << >> /\ Replica(E[i], L[i], Tail(q), r)
    BY <1>3, <1>7, <2>2, <2>4, ReplicaDequeue
  <2>7. ASSUME NEW i \in 0 .. n - 1, NEW j \in 0 .. n - 1, i <= j
        PROVE  L[i] <= L[j]
    <3>1. K[i + 1] <= K[j + 1] /\ K[i + 1] \in Nat /\ K[j + 1] \in Nat
      BY <1>3, <1>7, <2>2, <2>7
    <3> QED
      BY <2>4, <3>1
  <2>8. ASSUME NEW i \in 1 .. n - 1
        PROVE  Applies(E[i - 1], L[i - 1], es[i], E[i], L[i])
    <3>1. Applies(D[i], K[i], ds[i + 1], D[i + 1], K[i + 1])
      BY <1>3, <1>7, <1>8
    <3>2. i - 1 \in 0 .. n - 1 /\ i \in 0 .. n - 1 /\ (i - 1) + 1 = i
      BY <1>8
    <3>3. E[i - 1] = D[i] /\ E[i] = D[i + 1] /\ es[i] = ds[i + 1]
      BY <1>2, <1>7, <3>2
    <3>4. L[i - 1] = K[i] - 1 /\ L[i] = K[i + 1] - 1
      BY <2>4, <3>2
    <3>5. K[i] \in Nat /\ K[i + 1] \in Nat
      BY <1>2, <2>2
    <3> QED
      BY <3>1, <3>3, <3>4, <3>5 DEF Applies
  <2>9. q # << >> /\ \A i \in 0 .. n - 1 : Replica(E[i], L[i], Tail(q), r)
    BY <1>2, <2>6
  <2>10. Reach(db, es, Tail(q), r, db1, k1 - 1)
    <3>1. PICK m : m = n - 1
      OBVIOUS
    <3>2. /\ E[0] = db /\ L[0] = 0 /\ E[m] = db1 /\ L[m] = k1 - 1
          /\ \A i \in 0 .. m : Replica(E[i], L[i], Tail(q), r)
          /\ \A i \in 0 .. m : \A j \in 0 .. m : i <= j => L[i] <= L[j]
          /\ \A i \in 1 .. m : Applies(E[i - 1], L[i - 1], es[i], E[i], L[i])
      BY <1>7, <2>5, <2>7, <2>8, <2>9, <3>1, Zenon
    <3>3. Len(es) = m
      BY <1>2, <3>1, Zenon
    <3> QED
      BY <3>2, <3>3, Zenon DEF Reach
  <2> QED
    BY <1>1, <1>5, <1>10, <2>9, <2>10 DEF d
<1>11. CASE ~EmitsProof(d)
  <2>1. PICK L : L = [i \in 0 .. n - 1 |-> K[i + 1]]
    OBVIOUS
  <2>2. \A i \in 0 .. n - 1 : L[i] = K[i + 1]
    BY <2>1
  <2>3. L[0] = 0 /\ L[n - 1] = k1
    BY <1>2, <1>3, <1>5, <1>11, <2>2
  <2>4. \A i \in 0 .. n - 1 : Replica(E[i], L[i], q, r)
    BY <1>3, <1>7, <2>2
  <2>5. ASSUME NEW i \in 0 .. n - 1, NEW j \in 0 .. n - 1, i <= j
        PROVE  L[i] <= L[j]
    <3>1. i + 1 <= j + 1
      BY <2>5
    <3> QED
      BY <1>3, <1>7, <2>2, <3>1
  <2>6. ASSUME NEW i \in 1 .. n - 1
        PROVE  Applies(E[i - 1], L[i - 1], es[i], E[i], L[i])
    <3>1. Applies(D[i], K[i], ds[i + 1], D[i + 1], K[i + 1])
      BY <1>3, <1>7, <1>8
    <3>2. /\ E[i - 1] = D[i] /\ E[i] = D[i + 1] /\ es[i] = ds[i + 1]
          /\ L[i - 1] = K[i] /\ L[i] = K[i + 1]
      BY <1>2, <1>7, <1>8, <2>2
    <3> QED
      BY <3>1, <3>2
  <2>7. Reach(db, es, q, r, db1, k1)
    BY <1>2, <1>7, <2>3, <2>4, <2>5, <2>6 DEF Reach
  <2> QED
    BY <1>1, <1>5, <1>11, <2>7 DEF d
<1> QED
  BY <1>10, <1>11

\* What is reached is what the diffs make of the database when they are
\* replayed.
LEMMA ReachReplay ==
  ASSUME NEW db0, NEW ds \in Seq(Diffs), NEW q, NEW r, NEW db1, NEW k1,
         Reach(db0, ds, q, r, db1, k1)
  PROVE  Replay(db0, ds) = db1
<1> DEFINE n == Len(ds)
           F(g) == [i \in 0 .. n |->
                      IF i = 0 THEN db0 ELSE apply_to_database(g[i - 1], ds[i])]
           after == CHOOSE g : g = F(g)
<1>1. n \in Nat
  OBVIOUS
<1>2. PICK D, K :
    /\ D[0] = db0 /\ D[n] = db1
    /\ \A i \in 1 .. n : Applies(D[i - 1], K[i - 1], ds[i], D[i], K[i])
  BY DEF Reach
<1>3. \A i \in 1 .. n : D[i] = apply_to_database(D[i - 1], ds[i])
  BY <1>2 DEF Applies
<1>4. PICK E : E = [i \in 0 .. n |-> D[i]]
  OBVIOUS
<1>5. E = F(E)
  <2>1. ASSUME NEW i \in 0 .. n
        PROVE  E[i] = IF i = 0 THEN db0 ELSE apply_to_database(E[i - 1], ds[i])
    <3>1. CASE i = 0
      BY <1>2, <1>4, <3>1
    <3>2. CASE i # 0
      <4>1. i \in 1 .. n /\ i - 1 \in 0 .. n
        BY <1>1, <3>2
      <4>2. E[i] = D[i] /\ E[i - 1] = D[i - 1]
        BY <1>4, <4>1
      <4> QED
        BY <1>3, <3>2, <4>1, <4>2
    <3> QED
      BY <3>1, <3>2
  <2> QED
    BY <1>4, <2>1
<1>6. after = F(after)
  <2> HIDE DEF F
  <2> QED
    BY <1>5, Zenon
<1>7. PICK g : g = after
  OBVIOUS
<1>8. g[0] = db0 /\ \A i \in 1 .. n : g[i] = apply_to_database(g[i - 1], ds[i])
  <2>1. \A i \in 0 .. n :
          g[i] = IF i = 0 THEN db0 ELSE apply_to_database(g[i - 1], ds[i])
    <3> HIDE DEF after
    <3> QED
      BY <1>6, <1>7
  <2>2. 0 \in 0 .. n /\ \A i \in 1 .. n : i \in 0 .. n /\ i # 0
    BY <1>1
  <2> QED
    BY <2>1, <2>2
<1>9. \A i \in 0 .. n : g[i] = D[i]
  <2> DEFINE S == { i \in 0 .. n : g[i] # D[i] }
  <2> SUFFICES ASSUME S # {} PROVE FALSE
    OBVIOUS
  <2>1. S \in SUBSET Nat
    BY <1>1
  <2>2. PICK x \in S : \A y \in S : x <= y
    <3> HIDE DEF S
    <3> QED
      BY <2>1, NatLeast
  <2>3. x # 0 /\ x \in 1 .. n /\ x - 1 \in 0 .. n
    BY <1>1, <1>2, <1>8
  <2>4. g[x - 1] = D[x - 1]
    BY <2>2, <2>3
  <2>5. g[x] = D[x]
    BY <1>3, <1>8, <2>3, <2>4
  <2> QED
    BY <2>2, <2>5
<1>10. Replay(db0, ds) = after[n]
  BY DEF Replay
<1> QED
  BY <1>1, <1>2, <1>7, <1>9, <1>10

-----------------------------------------------------------------------------
(* The diffs of a breadcrumb. *)

\* Up to three diffs are appended one by one.
LEMMA AppendDiffs ==
  ASSUME NEW ds \in Seq(Diffs), NEW a \in Diffs, NEW b \in Diffs, NEW c \in Diffs
  PROVE  /\ ds \o << a >> = Append(ds, a)
         /\ ds \o << a, b >> = Append(Append(ds, a), b)
         /\ ds \o << a, b, c >> = Append(Append(Append(ds, a), b), c)
<1>1. ds \o << a >> = Append(ds, a)
  OBVIOUS
<1>2. ds \o << a, b >> = Append(Append(ds, a), b)
  OBVIOUS
<1>3. ds \o << a, b, c >> = Append(Append(Append(ds, a), b), c)
  OBVIOUS
<1> QED
  BY <1>1, <1>2, <1>3

\* A sequence of up to three elements has these elements.
LEMMA ElementsOf ==
  /\ \A a : Range(<< a >>) = {a}
  /\ \A a, b : Range(<< a, b >>) = {a, b}
  /\ \A a, b, c : Range(<< a, b, c >>) = {a, b, c}
<1>1. ASSUME NEW a PROVE Range(<< a >>) = {a}
  BY DEF Range
<1>2. ASSUME NEW a, NEW b PROVE Range(<< a, b >>) = {a, b}
  BY DEF Range
<1>3. ASSUME NEW a, NEW b, NEW c PROVE Range(<< a, b, c >>) = {a, b, c}
  BY DEF Range
<1> QED
  BY <1>1, <1>2, <1>3

\* Which diffs move the root.
LEMMA DiffKinds ==
  ASSUME NEW b \in Block, NEW r \in Block, NEW garbage \in SUBSET Block
  PROVE  LET node == New_node(b)
             tip == Best_tip_changed(b)
             root == Root_transitioned(r, garbage)
         IN  /\ node \in Diffs /\ tip \in Diffs /\ root \in Diffs
             /\ node.type # "Root_transitioned" /\ tip.type # "Root_transitioned"
             /\ root.type = "Root_transitioned" /\ root.new_root = r
             /\ root.just_emitted_a_proof \in BOOLEAN
             /\ root.just_emitted_a_proof <=> r \in Emits
             /\ ~EmitsProof(node) /\ ~EmitsProof(tip)
             /\ EmitsProof(root) <=> r \in Emits
<1> DEFINE node == New_node(b)
           tip == Best_tip_changed(b)
           root == Root_transitioned(r, garbage)
<1>1. /\ node \in Diffs /\ node.type # "Root_transitioned"
      /\ tip \in Diffs /\ tip.type # "Root_transitioned"
  BY DEF New_node, Best_tip_changed, Diffs
<1>2. PICK e \in BOOLEAN : e = (r \in Emits)
  <2>1. PICK e : e = (r \in Emits)
    OBVIOUS
  <2>2. e \in BOOLEAN
    BY <2>1
  <2> QED
    BY <2>1, <2>2
<1>3. root = [ type |-> "Root_transitioned", new_root |-> r, garbage |-> garbage
             , just_emitted_a_proof |-> e ]
  BY <1>2, Zenon DEF Root_transitioned
<1>4. root \in Diffs /\ root.just_emitted_a_proof = e
  BY <1>3 DEF Diffs
<1>5. root.type = "Root_transitioned" /\ root.new_root = r
  BY <1>3
<1>6. /\ root.just_emitted_a_proof \in BOOLEAN
      /\ root.just_emitted_a_proof <=> r \in Emits
  BY <1>2, <1>4, Zenon
<1> HIDE DEF node, tip, root
<1>7. ~EmitsProof(node) /\ ~EmitsProof(tip) /\ (EmitsProof(root) <=> r \in Emits)
  BY <1>1, <1>5, <1>6 DEF EmitsProof
<1> QED
  BY <1>1, <1>4, <1>5, <1>6, <1>7 DEF node, tip, root

\* A frontier that is not too deep, or is rooted below r, is a replica.
LEMMA FrontierReplica ==
  ASSUME NEW f, Sound(f), Within(f, MaxLength + 1), NEW k, NEW q, NEW r,
         Within(f, MaxLength) \/ f.root # r, Height[f.root] <= Height[r],
         k \in 0 .. Len(q), Append(q, LedgerOf[r])[k + 1] = LedgerOf[f.root]
  PROVE  Replica(AsDatabase(f), k, q, r)
BY FrontierAsDatabase DEF Replica

\* After the last checkpoint comes the ledger of the frontier's own root.
LEMMA LastLedger ==
  ASSUME NEW q \in Checkpoints, NEW x \in Block, NEW y
  PROVE  /\ Len(q) \in Nat
         /\ Append(q, y)[Len(q) + 1] = y
         /\ Append(q, x) \in Checkpoints /\ Len(Append(q, x)) = Len(q) + 1
         /\ Append(Append(q, x), y)[Len(q) + 1] = x
<1>1. q \in Seq(Block \cup {Dirty}) /\ Len(q) \in Nat
  BY DEF Checkpoints
<1>2. Append(q, y)[Len(q) + 1] = y
  BY <1>1
<1>3. PICK p : p = Append(q, x)
  OBVIOUS
<1>4. p \in Seq(Block \cup {Dirty}) /\ Len(p) = Len(q) + 1 /\ p[Len(q) + 1] = x
  BY <1>1, <1>3
<1>5. Append(p, y)[Len(q) + 1] = p[Len(q) + 1]
  BY <1>1, <1>4
<1> QED
  BY <1>1, <1>2, <1>3, <1>4, <1>5 DEF Checkpoints

\* A frontier that is not too deep is not one block too deep.
LEMMA WithinMore ==
  ASSUME NEW f, Within(f, MaxLength)
  PROVE  Within(f, MaxLength + 1)
<1>1. 0 .. MaxLength \subseteq 0 .. (MaxLength + 1)
  BY MaxLengthAssumption
<1> QED
  BY <1>1 DEF Within

\* Setting the best tip is copied to the database.
LEMMA ReachTip ==
  ASSUME NEW f, Sound(f), Within(f, MaxLength), NEW b \in Block, b \in Table(f),
         NEW q \in Checkpoints, NEW db0, NEW ds \in Seq(Diffs),
         Reach(db0, ds, q, f.root, AsDatabase(f), Len(q))
  PROVE  LET tip == Best_tip_changed(b)
             g == apply_diff(f, tip)
         IN  /\ Sound(g) /\ Within(g, MaxLength) /\ g.best_tip \in Table(g)
             /\ g.root = f.root
             /\ Reach(db0, Append(ds, tip), q, g.root, AsDatabase(g), Len(q))
<1> DEFINE tip == Best_tip_changed(b)
           g == apply_diff(f, tip)
<1>1. g.best_tip = b /\ g.root = f.root /\ Table(g) = Table(f) /\ Sound(g)
  BY SetTipSound
<1>2. f.root \in Block /\ Height[f.root] \in Nat /\ IsFrontier(f)
  BY BlockAssumption DEF Sound, IsFrontier
<1>3. AsDatabase(g) = apply_to_database(AsDatabase(f), tip)
  BY <1>2, TipCommutes
<1>4. tip \in Diffs /\ tip.type # "Root_transitioned" /\ ~EmitsProof(tip)
  BY DiffKinds
<1> HIDE DEF tip, g
<1>5. Within(g, MaxLength)
  BY <1>1 DEF Within
<1>6. Len(q) \in Nat /\ Append(q, LedgerOf[f.root])[Len(q) + 1] = LedgerOf[f.root]
  BY BlockAssumption, LastLedger
<1>7. Replica(AsDatabase(g), Len(q), q, f.root)
  BY <1>1, <1>2, <1>5, <1>6, WithinMore, FrontierReplica
<1>8. Applies(AsDatabase(f), Len(q), tip, AsDatabase(g), Len(q))
  BY <1>3, <1>4 DEF Applies
<1>9. Reach(db0, Append(ds, tip), q, f.root, AsDatabase(g), Len(q))
  BY <1>4, <1>6, <1>7, <1>8, ReachAppend
<1> QED
  BY <1>1, <1>5, <1>9 DEF tip, g

\* What a breadcrumb does to the frontier, the worker will do to the database:
\* with the new checkpoint, if there is one, every state the database goes
\* through is a replica of the grown frontier.
LEMMA GrowthReaches ==
  ASSUME NEW f, Sound(f), Within(f, MaxLength), f.best_tip \in Table(f),
         NEW b \in Block \ {Genesis}, b \notin Table(f), Parent[b] \in Table(f),
         NEW q \in Checkpoints, NEW db0, NEW ds \in Seq(Diffs),
         Reach(db0, ds, q, f.root, AsDatabase(f), Len(q))
  PROVE  LET diffs == calculate_diffs(f, b)
             roots == RootDiffs(diffs)
             g == apply_diffs(f, diffs)
             p == IF \E d \in roots : d.just_emitted_a_proof
                  THEN Append(q, LedgerOf[f.root]) ELSE q
         IN  /\ diffs \in Seq(Diffs)
             /\ Sound(g) /\ Within(g, MaxLength) /\ g.best_tip \in Table(g)
             /\ Reach(db0, ds \o diffs, p, g.root, AsDatabase(g), Len(p))
             /\ roots = {} => g.root = f.root
             /\ \A d \in roots :
                  /\ roots = {d} /\ d.new_root = g.root /\ g.root \in Block
                  /\ d.just_emitted_a_proof \in BOOLEAN
                  /\ Height[g.root] > Height[f.root]
                  /\ ~d.just_emitted_a_proof => LedgerOf[g.root] = LedgerOf[f.root]
<1> DEFINE T == Table(f)
           n == AddNode(f, b)
           h == Heir(f, b)
           G == garbage_breadcrumbs(f, h)
           m == move_root(n, h, G)
           node == New_node(b)
           tip == Best_tip_changed(b)
           root == Root_transitioned(h, G)
           taken == <<f.best_tip, b>> \in Take
           diffs == calculate_diffs(f, b)
           roots == RootDiffs(diffs)
           g == apply_diffs(f, diffs)
           p == IF \E d \in roots : d.just_emitted_a_proof
                THEN Append(q, LedgerOf[f.root]) ELSE q
<1>1. /\ T \subseteq Block /\ f.root \in T /\ f.root \in Block /\ IsFrontier(f)
      /\ LedgerOf[f.root] \in Block /\ Height[f.root] \in Nat
  BY BlockAssumption, LedgerAssumption DEF Sound, IsTree, IsFrontier
<1>2. /\ Table(n) = T \cup {b} /\ n.root = f.root /\ n.best_tip = f.best_tip
      /\ Sound(n) /\ Within(n, MaxLength + 1)
  BY AddNodeSound, GrowthIsBounded
<1>3. AsDatabase(n) = apply_to_database(AsDatabase(f), node)
  BY AddCommutes
<1>4. Len(q) \in Nat /\ Append(q, LedgerOf[f.root])[Len(q) + 1] = LedgerOf[f.root]
  BY <1>1, LastLedger
<1>5. /\ node \in Diffs /\ node.type # "Root_transitioned" /\ ~EmitsProof(node)
      /\ tip \in Diffs /\ tip.type # "Root_transitioned"
  BY DiffKinds
<1>6. Applies(AsDatabase(f), Len(q), node, AsDatabase(n), Len(q))
  BY <1>3, <1>5 DEF Applies
<1>7. CASE ~TooLong(f, b)
  <2>1. Within(n, MaxLength)
    BY <1>7, GrowthIsBounded
  <2>2. Replica(AsDatabase(n), Len(q), q, f.root)
    BY <1>1, <1>2, <1>4, <2>1, FrontierReplica
  <2> HIDE DEF node, tip, n
  <2>3. Reach(db0, Append(ds, node), q, f.root, AsDatabase(n), Len(q))
    BY <1>4, <1>5, <1>6, <2>2, ReachAppend
  <2>4. CASE taken
    <3>1. diffs = << node, tip >>
      BY <1>7, <2>4 DEF calculate_diffs, node, tip
    <3>2. g = apply_diff(n, tip)
      BY <1>7, <2>4, DiffsApplied DEF n, tip
    <3>3. roots = {}
      <4>1. Range(diffs) = {node, tip}
        BY <3>1, ElementsOf, Zenon
      <4> HIDE DEF diffs
      <4> QED
        BY <1>5, <4>1 DEF RootDiffs
    <3>4. p = q
      BY <3>3
    <3>5. diffs \in Seq(Diffs) /\ Append(ds, node) \in Seq(Diffs)
      <4> HIDE DEF diffs
      <4> QED
        BY <1>5, <3>1
    <3> HIDE DEF diffs, roots, g, p
    <3>6. ds \o diffs = Append(Append(ds, node), tip)
      BY <1>5, <3>1, AppendDiffs
    <3>7. /\ Sound(g) /\ Within(g, MaxLength) /\ g.best_tip \in Table(g)
          /\ g.root = n.root
          /\ Reach(db0, Append(Append(ds, node), tip), q, g.root, AsDatabase(g), Len(q))
      BY <1>2, <2>1, <2>3, <3>2, <3>5, ReachTip DEF tip
    <3>8. /\ diffs \in Seq(Diffs)
          /\ Sound(g) /\ Within(g, MaxLength) /\ g.best_tip \in Table(g)
          /\ Reach(db0, ds \o diffs, p, g.root, AsDatabase(g), Len(p))
          /\ roots = {} /\ g.root = f.root
      BY <1>2, <3>3, <3>4, <3>5, <3>6, <3>7
    <3> QED
      BY <3>8 DEF diffs, roots, g, p
  <2>5. CASE ~taken
    <3>1. diffs = << node >>
      BY <1>7, <2>5 DEF calculate_diffs, node
    <3>2. g = n
      BY <1>7, <2>5, DiffsApplied DEF n
    <3>3. roots = {}
      <4>1. Range(diffs) = {node}
        BY <3>1, ElementsOf, Zenon
      <4> HIDE DEF diffs
      <4> QED
        BY <1>5, <4>1 DEF RootDiffs
    <3>4. p = q
      BY <3>3
    <3>5. diffs \in Seq(Diffs)
      <4> HIDE DEF diffs
      <4> QED
        BY <1>5, <3>1
    <3> HIDE DEF diffs, roots, g, p
    <3>6. ds \o diffs = Append(ds, node)
      BY <1>5, <3>1, AppendDiffs
    <3>7. /\ diffs \in Seq(Diffs)
          /\ Sound(g) /\ Within(g, MaxLength) /\ g.best_tip \in Table(g)
          /\ Reach(db0, ds \o diffs, p, g.root, AsDatabase(g), Len(p))
          /\ roots = {} /\ g.root = f.root
      BY <1>2, <2>1, <2>3, <3>2, <3>3, <3>4, <3>5, <3>6
    <3> QED
      BY <3>7 DEF diffs, roots, g, p
  <2> QED
    BY <2>4, <2>5
<1>8. CASE TooLong(f, b)
  <2>1. taken /\ Height[h] = Height[f.root] + 1 /\ Within(m, MaxLength)
    BY <1>8, GrowthIsBounded
  <2>2. /\ h \in T /\ h \in Block \ {Genesis} /\ Parent[h] = f.root /\ h # f.root
        /\ h \in Table(n)
    BY <1>1, <1>2, <1>8, HeirIsOnPath
  <2>3. /\ b \in Table(m) /\ m.root = h /\ Sound(m)
    BY <1>8, MoveRootSound
  <2>4. G \in SUBSET Block
    BY <1>1, <1>8, GarbageIsForks
  <2>5. /\ root \in Diffs /\ root.type = "Root_transitioned" /\ root.new_root = h
        /\ root.just_emitted_a_proof \in BOOLEAN
        /\ root.just_emitted_a_proof <=> h \in Emits
        /\ EmitsProof(root) <=> h \in Emits
    BY <2>2, <2>4, DiffKinds
  <2>6. AsDatabase(m) = apply_to_database(AsDatabase(n), root)
    BY MoveCommutes
  <2>7. LedgerOf[h] \in Block /\ (h \notin Emits => LedgerOf[h] = LedgerOf[f.root])
    BY <2>2, LedgerAssumption
  <2>8. diffs = << node, root, tip >>
    BY <1>8, <2>1 DEF calculate_diffs, calculate_root_transition_diff
  <2>9. g = apply_diff(m, tip)
    BY <1>8, <2>1, DiffsApplied
  <2> HIDE DEF node, tip, root, n, m, h, G, diffs, g
  <2>10. roots = {root}
    <3>1. Range(diffs) = {node, root, tip}
      BY <2>8, ElementsOf, Zenon
    <3> QED
      BY <1>5, <2>5, <3>1 DEF RootDiffs
  <2>11. p = IF h \in Emits THEN Append(q, LedgerOf[f.root]) ELSE q
    BY <2>5, <2>10
  <2> HIDE DEF roots, p
  <2>12. diffs \in Seq(Diffs) /\ ds \o diffs = Append(Append(Append(ds, node), root), tip)
    BY <1>5, <2>5, <2>8, AppendDiffs
  <2>13. /\ p \in Checkpoints /\ Len(p) = (IF h \in Emits THEN Len(q) + 1 ELSE Len(q))
         /\ Append(p, LedgerOf[h])[Len(q) + 1] = LedgerOf[f.root]
         /\ Append(p, LedgerOf[h])[Len(p) + 1] = LedgerOf[h]
         /\ Len(p) \in Nat /\ Len(q) \in 0 .. Len(p)
    <3>1. CASE h \in Emits
      <4>1. p = Append(q, LedgerOf[f.root])
        BY <2>11, <3>1
      <4>2. p \in Checkpoints /\ Len(p) = Len(q) + 1
            /\ Append(p, LedgerOf[h])[Len(q) + 1] = LedgerOf[f.root]
        BY <1>1, <4>1, LastLedger
      <4>3. Append(p, LedgerOf[h])[Len(p) + 1] = LedgerOf[h]
        BY <1>1, <4>2, LastLedger
      <4> QED
        BY <1>4, <3>1, <4>2, <4>3
    <3>2. CASE h \notin Emits
      <4>1. p = q /\ LedgerOf[h] = LedgerOf[f.root]
        BY <2>7, <2>11, <3>2
      <4> QED
        BY <1>4, <3>2, <4>1
    <3> QED
      BY <3>1, <3>2
  <2>14. Height[h] \in Nat /\ Height[h] > Height[f.root]
    BY <1>1, <2>1, <2>2, BlockAssumption
  <2>15. Reach(db0, ds, p, h, AsDatabase(f), Len(q))
    BY <1>1, <2>2, <2>7, <2>11, <2>13, <2>14, ReachReroot
  <2>16. Replica(AsDatabase(n), Len(q), p, h)
    BY <1>1, <1>2, <2>2, <2>13, <2>14, FrontierReplica
  <2>17. Reach(db0, Append(ds, node), p, h, AsDatabase(n), Len(q))
    BY <1>4, <1>5, <1>6, <2>15, <2>16, ReachAppend
  <2>18. Stored(AsDatabase(n)) = Table(n)
    BY <1>2, FrontierAsDatabase
  <2>19. Applies(AsDatabase(n), Len(q), root, AsDatabase(m), Len(p))
    BY <2>2, <2>5, <2>6, <2>13, <2>18 DEF Applies
  <2>20. Replica(AsDatabase(m), Len(p), p, h)
    BY <2>1, <2>3, <2>13, <2>14, WithinMore, FrontierReplica
  <2>21. Append(ds, node) \in Seq(Diffs) /\ Append(Append(ds, node), root) \in Seq(Diffs)
    BY <1>5, <2>5
  <2>22. Reach(db0, Append(Append(ds, node), root), p, h, AsDatabase(m), Len(p))
    BY <1>4, <2>5, <2>13, <2>17, <2>19, <2>20, <2>21, ReachAppend
  <2>23. /\ Sound(g) /\ Within(g, MaxLength) /\ g.best_tip \in Table(g) /\ g.root = h
         /\ Reach(db0, Append(Append(Append(ds, node), root), tip), p, g.root,
                  AsDatabase(g), Len(p))
    BY <2>1, <2>3, <2>9, <2>13, <2>21, <2>22, ReachTip DEF tip
  <2>24. /\ diffs \in Seq(Diffs)
         /\ Sound(g) /\ Within(g, MaxLength) /\ g.best_tip \in Table(g)
         /\ Reach(db0, ds \o diffs, p, g.root, AsDatabase(g), Len(p))
         /\ roots # {}
         /\ \A d \in roots :
              /\ roots = {d} /\ d.new_root = g.root /\ g.root \in Block
              /\ d.just_emitted_a_proof \in BOOLEAN
              /\ Height[g.root] > Height[f.root]
              /\ ~d.just_emitted_a_proof => LedgerOf[g.root] = LedgerOf[f.root]
    BY <2>2, <2>5, <2>7, <2>10, <2>12, <2>14, <2>23
  <2> QED
    BY <2>24 DEF diffs, roots, g, p
<1> QED
  BY <1>7, <1>8

-----------------------------------------------------------------------------
(* The inductive invariant. *)

Cleared ==
  /\ mem = None /\ queue = << >> /\ flush_job = FALSE
  /\ diff_array = << >> /\ dispatched = << >>

\* The disk a bootstrap leaves.
Fresh(d) ==
  \E r \in Block : /\ d.db = initialize(r)
                   /\ d.root_identifier = r
                   /\ d.snarked_ledger = LedgerOf[r]

\* What loading has found out of the disk d, in phase p of a load called by c.
LoadInv(p, c, d) ==
  /\ p = "check" /\ c = "retry" => d.db = None
  /\ p \in {"check", "continue", "start"} /\ c = "bootstrap" => Fresh(d)
  /\ p \in {"continue", "start"} => DbOK(d.db) /\ d.db.best_tip \in Stored(d.db)
  /\ p = "start" => /\ d.snarked_ledger = LedgerOf[d.db.root]
                    /\ d.potential_snarked_ledgers = None

\* What holds of the frontier f, the checkpoints q, the diffs ds that are not
\* in the database yet, and the disk d, while the daemon runs.
RunInv(f, q, ds, d) ==
  /\ Sound(f) /\ Within(f, MaxLength) /\ f.best_tip \in Table(f)
  /\ d.snarked_ledger = LedgerOf[f.root]
  /\ d.root_identifier = f.root
  /\ q # << >> => d.potential_snarked_ledgers = q
  /\ q = << >> => d.potential_snarked_ledgers \in {None, << >>}
  /\ Reach(d.db, ds, q, f.root, AsDatabase(f), Len(q))

VarTypes ==
  /\ caller \in {"startup", "retry", "bootstrap"}
  /\ phase \in {"check", "continue", "start", "running", "closing",
               "bootstrap", "failed"}
  /\ queue \in Checkpoints
  /\ diff_array \in Seq(Diffs) /\ dispatched \in Seq(Diffs)
  /\ flush_job \in BOOLEAN /\ (~flush_job => dispatched = << >>)
  /\ crashes \in 0 .. MaxCrashes

Inductive ==
  /\ CrashSafe(disk, script, Settled)
  /\ VarTypes
  /\ OnlyExpectedFailures
  /\ phase \notin {"running", "closing", "failed"} => Cleared
  /\ LoadInv(phase, caller, Settled)
  /\ Up => RunInv(mem, queue, dispatched \o diff_array, Settled)

\* Between two jobs the disk is settled.
LEMMA SettledNow ==
  ASSUME Inductive, script = << >>
  PROVE  Settled = disk /\ DiskOK(disk) /\ IsDisk(disk)
<1>1. DiskOK(disk)
  BY SafeEnds DEF Inductive
<1> QED
  BY <1>1, SettleNone DEF Settled, DiskOK

\* A job that is safe leads to the disk it is to leave.
LEMMA SettledNext ==
  ASSUME NEW e, CrashSafe(disk', script', e)
  PROVE  CrashSafe(disk', script', Settled') /\ Settled' = e
BY SafeEnds DEF Settled

\* The empty disk of the first start is fit to be started from.
LEMMA InitInductive == Init => Inductive
<1> SUFFICES ASSUME Init PROVE Inductive
  OBVIOUS
<1>1. IsDisk(EmptyDisk)
  BY DEF EmptyDisk, IsDisk, Files
<1>2. DiskOK(EmptyDisk)
  BY <1>1 DEF DiskOK, EmptyDisk
<1>3. CrashSafe(disk, << >>, disk)
  BY <1>2, SafeNone DEF Init
<1>4. CrashSafe(disk, script, Settled)
  BY <1>3, SafeEnds DEF Init, Settled
<1>5. VarTypes
  <2>1. << >> \in Checkpoints /\ << >> \in Seq(Diffs) /\ 0 \in 0 .. MaxCrashes
    BY CapacityAssumption DEF Checkpoints
  <2>2. flush_job \in BOOLEAN
    BY Zenon DEF Init
  <2> QED
    BY <2>1, <2>2 DEF Init, VarTypes
<1>6. LoadInv(phase, caller, Settled)
  BY DEF Init, LoadInv
<1> QED
  BY <1>4, <1>5, <1>6 DEF Inductive, Init, OnlyExpectedFailures, Cleared, Up

\* A write is made.
LEMMA WriteInductive ==
  ASSUME Inductive, WriteStep
  PROVE  Inductive'
<1>1. CrashSafe(disk, script, Settled)
  BY DEF Inductive
<1>2. CrashSafe(disk', script', Settled)
  BY <1>1, SafeTail DEF WriteStep
<1>3. CrashSafe(disk', script', Settled') /\ Settled' = Settled
  BY <1>2, SettledNext
<1>4. UNCHANGED <<phase, caller, mem, queue, diff_array, dispatched, flush_job,
                  failure, crashes>>
  BY DEF WriteStep
<1>5. VarTypes' /\ OnlyExpectedFailures' /\ LoadInv(phase, caller, Settled)'
  BY <1>3, <1>4 DEF Inductive, VarTypes, OnlyExpectedFailures
<1>6. phase' \notin {"running", "closing", "failed"} => Cleared'
  BY <1>4 DEF Inductive, Cleared
<1>7. Up' => RunInv(mem, queue, dispatched \o diff_array, Settled)'
  BY <1>3, <1>4 DEF Inductive, Up
<1> QED
  BY <1>3, <1>5, <1>6, <1>7 DEF Inductive

\* The daemon starts again on the disk as it is.
LEMMA RebootInductive ==
  ASSUME Inductive, Reboot, crashes' \in 0 .. MaxCrashes
  PROVE  Inductive'
<1>1. DiskOK(disk)
  BY SafeEnds DEF Inductive
<1>2. CrashSafe(disk', script', disk)
  BY <1>1, SafeNone DEF Reboot
<1>3. CrashSafe(disk', script', Settled')
  BY <1>2, SettledNext
<1>4. VarTypes'
  <2>1. << >> \in Checkpoints /\ << >> \in Seq(Diffs)
    BY DEF Checkpoints
  <2>2. flush_job' \in BOOLEAN
    BY Zenon DEF Reboot
  <2> QED
    BY <2>1, <2>2 DEF Reboot, VarTypes
<1>5. LoadInv(phase, caller, Settled)'
  BY DEF Reboot, LoadInv
<1> QED
  BY <1>3, <1>4, <1>5 DEF Inductive, Reboot, OnlyExpectedFailures, Cleared, Up

\* A step of the daemon before it runs: it leaves the frontier alone, and
\* its job is safe.
LEMMA LoadInductive ==
  ASSUME Inductive, phase \notin {"running", "closing", "failed"},
         UNCHANGED <<disk, volatile, crashes>>,
         NEW e, CrashSafe(disk, script', e),
         phase' \in {"check", "continue", "start", "bootstrap", "failed"},
         caller' \in {"startup", "retry", "bootstrap"},
         OnlyExpectedFailures', LoadInv(phase', caller', e)
  PROVE  Inductive'
<1>1. CrashSafe(disk', script', Settled') /\ Settled' = e
  BY SettledNext
<1>2. Cleared
  BY DEF Inductive
<1>3. Cleared'
  BY <1>2 DEF Cleared, volatile
<1>4. VarTypes'
  BY DEF Inductive, VarTypes, volatile
<1>5. LoadInv(phase, caller, Settled)'
  BY <1>1
<1> QED
  BY <1>1, <1>3, <1>4, <1>5 DEF Inductive, Up

\* A disk that a bootstrap left is up to date.
LEMMA FreshIsLoadable ==
  ASSUME NEW d, Fresh(d)
  PROVE  /\ DbOK(d.db) /\ ~Deep(d.db) /\ d.db.best_tip \in Stored(d.db)
         /\ d.root_identifier = d.db.root /\ d.db.root \in Block
         /\ d.snarked_ledger = LedgerOf[d.db.root]
BY InitializedIsTree DEF Fresh

\* The disk stays one a bootstrap left if its ledger and its database do.
LEMMA FreshStays ==
  ASSUME NEW d, Fresh(d), NEW e, e.db = d.db, e.root_identifier = d.root_identifier,
         e.snarked_ledger = d.snarked_ledger
  PROVE  Fresh(e)
BY DEF Fresh

\* Checking the database.
LEMMA CheckInductive ==
  ASSUME Inductive, check_database
  PROVE  Inductive'
<1>1. /\ phase = "check" /\ script = << >> /\ UNCHANGED <<disk, volatile, crashes>>
      /\ caller \in {"startup", "retry", "bootstrap"} /\ OnlyExpectedFailures
  BY DEF check_database, Idle, Inductive, VarTypes
<1>2. Settled = disk /\ DiskOK(disk) /\ IsDisk(disk)
  BY <1>1, SettledNow
<1>3. LoadInv(phase, caller, disk)
  BY <1>2 DEF Inductive
<1>4. CrashSafe(disk, << >>, disk)
  BY <1>2, SafeNone
<1>5. CASE /\ check(disk.db) = "Not_initialized"
           /\ script' = reset_database_exn(Genesis) \o reset_to_genesis_exn
           /\ Goto("continue") /\ UNCHANGED caller
  <2> DEFINE d == [disk EXCEPT !.db = initialize(Genesis)]
             e == [d EXCEPT !.snarked_ledger = Genesis,
                            !.potential_snarked_ledgers = None,
                            !.root_identifier = Genesis]
  <2>1. Genesis \in Block /\ LedgerOf[Genesis] = Genesis
    BY BlockAssumption, LedgerAssumption
  <2>2. CrashSafe(disk, reset_database_exn(Genesis), d)
    BY <1>2, <2>1, SafeReset
  <2>3. /\ d.db = initialize(Genesis) /\ e.db = initialize(Genesis)
        /\ e.root_identifier = Genesis /\ e.snarked_ledger = Genesis
    BY <1>2 DEF IsDisk, Files
  <2> HIDE DEF d
  <2>4. CrashSafe(d, reset_to_genesis_exn, e)
    BY <2>2, <2>3, SafeEnds, SafeGenesis
  <2> HIDE DEF e
  <2>5. CrashSafe(disk, script', e)
    BY <1>5, <2>2, <2>4, SafeConcat
  <2>6. Fresh(e)
    BY <2>1, <2>3 DEF Fresh
  <2>7. phase' = "continue" /\ failure' = failure /\ caller' = caller
    BY <1>5 DEF Goto
  <2>8. LoadInv(phase', caller', e)
    BY <2>6, <2>7, FreshIsLoadable DEF LoadInv
  <2>9. OnlyExpectedFailures'
    BY <1>1, <2>7 DEF OnlyExpectedFailures
  <2> QED
    BY <1>1, <2>5, <2>7, <2>8, <2>9, LoadInductive
<1>6. CASE check(disk.db) = "Corrupt"
  <2>1. disk.db # None
    BY <1>6, CheckVerdict
  <2>2. DbOK(disk.db)
    BY <1>2, <2>1 DEF DiskOK
  <2>3. disk.db.best_tip \notin Stored(disk.db)
    BY <1>6, <2>2, CheckVerdict
  <2>4. ~Fresh(disk)
    BY <2>3, FreshIsLoadable
  <2>5. caller = "startup"
    BY <1>1, <1>3, <2>1, <2>4 DEF LoadInv
  <2>6. /\ script' = << Write("db", None) >> /\ caller' = "retry"
        /\ phase' = "check" /\ failure' = failure
    BY <1>6, <2>5 DEF check_database, Goto
  <2> DEFINE e == Put(disk, Write("db", None))
  <2>7. CrashSafe(disk, script', e)
    <3>1. WriteOK(disk, Write("db", None))
      BY DEF WriteOK, Write
    <3> QED
      BY <1>2, <2>6, <3>1, SafeWrite
  <2>8. e.db = None
    BY <1>2 DEF Put, Write, IsDisk, Files
  <2> HIDE DEF e
  <2>9. LoadInv(phase', caller', e)
    BY <2>6, <2>8 DEF LoadInv
  <2>10. OnlyExpectedFailures'
    BY <1>1, <2>6 DEF OnlyExpectedFailures
  <2> QED
    BY <1>1, <2>6, <2>7, <2>9, <2>10, LoadInductive
<1>7. CASE /\ check(disk.db) = "Ok"
           /\ Goto("continue") /\ UNCHANGED <<script, caller>>
  <2>1. disk.db # None
    BY <1>7, CheckVerdict
  <2>2. DbOK(disk.db)
    BY <1>2, <2>1 DEF DiskOK
  <2>3. disk.db.best_tip \in Stored(disk.db)
    BY <1>7, <2>2, CheckVerdict
  <2>4. phase' = "continue" /\ failure' = failure /\ caller' = caller /\ script' = << >>
    BY <1>1, <1>7 DEF Goto
  <2>5. LoadInv(phase', caller', disk)
    BY <1>1, <1>3, <2>2, <2>3, <2>4 DEF LoadInv
  <2>6. OnlyExpectedFailures'
    BY <1>1, <2>4 DEF OnlyExpectedFailures
  <2> QED
    BY <1>1, <1>4, <2>4, <2>5, <2>6, LoadInductive
<1> QED
  BY <1>5, <1>6, <1>7 DEF check_database

\* Loading the persistent root.
LEMMA RootInductive ==
  ASSUME Inductive, load_from_disk
  PROVE  Inductive'
<1> DEFINE target == LedgerOf[disk.db.root]
           listed == disk.potential_snarked_ledgers
           found == listed # None /\ target \in Range(listed)
<1>1. /\ phase = "continue" /\ script = << >> /\ UNCHANGED <<disk, volatile, crashes>>
      /\ caller \in {"startup", "retry", "bootstrap"} /\ OnlyExpectedFailures
      /\ caller' = caller
  BY DEF load_from_disk, Idle, Inductive, VarTypes
<1>2. Settled = disk /\ DiskOK(disk) /\ IsDisk(disk)
  BY <1>1, SettledNow
<1>3. LoadInv(phase, caller, disk)
  BY <1>2 DEF Inductive
<1>4. CrashSafe(disk, << >>, disk)
  BY <1>2, SafeNone
<1>5. /\ DbOK(disk.db) /\ disk.db.best_tip \in Stored(disk.db)
      /\ caller = "bootstrap" => Fresh(disk)
  BY <1>1, <1>3 DEF LoadInv
<1>6. target \in Block
  BY <1>5, LedgerAssumption DEF DbOK, Database
<1>7. listed \in Checkpoints \cup {None, Torn}
  BY <1>2 DEF DiskOK
<1>8. caller = "bootstrap" => disk.snarked_ledger = target
  BY <1>5, FreshIsLoadable
<1>9. CASE listed = Torn /\ Fail("unreadable list of checkpoints") /\ UNCHANGED script
  <2>1. phase' = "failed" /\ script' = << >> /\ OnlyExpectedFailures'
    BY <1>1, <1>9 DEF Fail, OnlyExpectedFailures
  <2>2. LoadInv(phase', caller', disk)
    BY <2>1 DEF LoadInv
  <2> QED
    BY <1>1, <1>4, <2>1, <2>2, LoadInductive
<1>10. CASE /\ listed # Torn /\ found
            /\ script' = transfer_accounts(target) \o RemoveCheckpoints(listed)
            /\ Goto("start")
  <2> DEFINE d == [disk EXCEPT !.snarked_ledger = target]
             e == [d EXCEPT !.potential_snarked_ledgers = None]
  <2>1. CrashSafe(disk, transfer_accounts(target), d)
    BY <1>2, <1>6, SafeTransfer
  <2>2. d.potential_snarked_ledgers = listed
    BY <1>2 DEF IsDisk, Files
  <2>3. /\ e.db = disk.db /\ e.snarked_ledger = target
        /\ e.potential_snarked_ledgers = None
        /\ e.root_identifier = disk.root_identifier
    BY <1>2 DEF IsDisk, Files
  <2>4. CrashSafe(d, RemoveCheckpoints(listed), e)
    <3> HIDE DEF d, listed
    <3> QED
      BY <1>7, <1>10, <2>1, <2>2, SafeEnds, SafeRemove
  <2> HIDE DEF d, e
  <2>5. CrashSafe(disk, script', e)
    BY <1>10, <2>1, <2>4, SafeConcat
  <2>6. phase' = "start" /\ failure' = failure
    BY <1>10 DEF Goto
  <2>7. caller = "bootstrap" => Fresh(e)
    BY <1>5, <1>8, <2>3, FreshStays
  <2>8. LoadInv(phase', caller', e)
    BY <1>1, <1>5, <2>3, <2>6, <2>7 DEF LoadInv
  <2>9. OnlyExpectedFailures'
    BY <1>1, <2>6 DEF OnlyExpectedFailures
  <2> QED
    BY <1>1, <2>5, <2>6, <2>8, <2>9, LoadInductive
<1>11. CASE /\ listed # Torn /\ ~found
            /\ script' = RemoveCheckpoints(listed)
            /\ IF disk.snarked_ledger = target THEN Goto("start")
               ELSE BootstrapRequired("snarked ledger mismatch")
  <2> DEFINE e == [disk EXCEPT !.potential_snarked_ledgers = None]
  <2>1. CrashSafe(disk, script', e)
    <3> HIDE DEF e
    <3> QED
      BY <1>2, <1>7, <1>11, SafeRemove DEF e
  <2>2. /\ e.db = disk.db /\ e.snarked_ledger = disk.snarked_ledger
        /\ e.potential_snarked_ledgers = None
        /\ e.root_identifier = disk.root_identifier
    BY <1>2 DEF IsDisk, Files
  <2> HIDE DEF e
  <2>3. failure' = failure /\ (phase' = "bootstrap" \/ (phase' = "start" /\ disk.snarked_ledger = target))
    BY <1>8, <1>11 DEF Goto, BootstrapRequired
  <2>4. caller = "bootstrap" => Fresh(e)
    BY <1>5, <2>2, FreshStays
  <2>5. LoadInv(phase', caller', e)
    BY <1>1, <1>5, <2>2, <2>3, <2>4 DEF LoadInv
  <2>6. OnlyExpectedFailures'
    BY <1>1, <2>3 DEF OnlyExpectedFailures
  <2>7. phase' \in {"check", "continue", "start", "bootstrap", "failed"}
    BY <2>3
  <2> QED
    BY <1>1, <2>1, <2>5, <2>6, <2>7, LoadInductive
<1> QED
  BY <1>9, <1>10, <1>11 DEF load_from_disk

\* A step that leaves the daemon running: its job is safe, and the frontier,
\* the checkpoints and the diffs go with the disk it leaves.
LEMMA RunInductive ==
  ASSUME Inductive, disk' = disk, NEW e, CrashSafe(disk, script', e),
         VarTypes', OnlyExpectedFailures',
         phase' \in {"running", "closing"},
         RunInv(mem', queue', dispatched' \o diff_array', e)
  PROVE  Inductive'
<1>1. CrashSafe(disk', script', Settled') /\ Settled' = e
  BY SettledNext
<1>2. LoadInv(phase, caller, Settled)'
  BY DEF LoadInv
<1>3. RunInv(mem, queue, dispatched \o diff_array, Settled)'
  BY <1>1
<1> QED
  BY <1>1, <1>2, <1>3 DEF Inductive

\* Loading the frontier and starting.
LEMMA StartInductive ==
  ASSUME Inductive, load_from_persistence_and_start
  PROVE  Inductive'
<1> DEFINE id == disk.root_identifier
           db == disk.db
<1>1. /\ phase = "start" /\ script = << >>
      /\ caller \in {"startup", "retry", "bootstrap"} /\ OnlyExpectedFailures
      /\ UNCHANGED <<disk, script, caller, queue, diff_array, dispatched,
                     flush_job, crashes>>
  BY DEF load_from_persistence_and_start, Idle, Inductive, VarTypes
<1>2. Settled = disk /\ DiskOK(disk) /\ IsDisk(disk)
  BY <1>1, SettledNow
<1>3. LoadInv(phase, caller, disk)
  BY <1>2 DEF Inductive
<1>4. CrashSafe(disk, script', disk)
  BY <1>1, <1>2, SafeNone
<1>5. /\ DbOK(db) /\ db.best_tip \in Stored(db)
      /\ disk.snarked_ledger = LedgerOf[db.root]
      /\ disk.potential_snarked_ledgers = None
      /\ caller = "bootstrap" => Fresh(disk)
  BY <1>1, <1>3 DEF LoadInv
<1>6. db.root \in Block /\ db # None /\ db.root # None /\ db.root # Torn
  BY <1>5, MarkAssumption DEF DbOK, Database
<1>7. caller = "bootstrap" => id = db.root
  BY <1>5, FreshIsLoadable
<1>8. ASSUME phase' = "bootstrap" \/ phase' = "failed", UNCHANGED mem,
             OnlyExpectedFailures'
      PROVE  Inductive'
  <2>1. UNCHANGED <<disk, volatile, crashes>>
    BY <1>1, <1>8 DEF volatile
  <2>2. LoadInv(phase', caller', disk)
    BY <1>8 DEF LoadInv
  <2>3. /\ phase \notin {"running", "closing", "failed"}
        /\ phase' \in {"check", "continue", "start", "bootstrap", "failed"}
        /\ caller' \in {"startup", "retry", "bootstrap"}
    BY <1>1, <1>8
  <2> QED
    BY <1>4, <1>8, <2>1, <2>2, <2>3, LoadInductive
<1>9. CASE id = None /\ Fail("no persistent root identifier found") /\ UNCHANGED mem
  BY <1>8, <1>9 DEF Fail, OnlyExpectedFailures
<1>10. CASE id = Torn /\ Fail("unreadable root identifier") /\ UNCHANGED mem
  BY <1>8, <1>10 DEF Fail, OnlyExpectedFailures
<1>11. CASE /\ id # None /\ ~fast_forward(db, id)
            /\ BootstrapRequired("bootstrap still required") /\ UNCHANGED mem
  <2>1. caller # "bootstrap"
    BY <1>7, <1>11 DEF fast_forward
  <2>2. phase' = "bootstrap" /\ failure' = failure
    BY <1>11, <2>1 DEF BootstrapRequired, Goto
  <2>3. OnlyExpectedFailures'
    BY <1>1, <2>2 DEF OnlyExpectedFailures
  <2> QED
    BY <1>8, <1>11, <2>2, <2>3
<1>12. CASE /\ fast_forward(db, id)
            /\ IF db.best_tip \in Crawled(db)
               THEN Goto("running") /\ mem' = load_full_frontier(db)
               ELSE Fail("best tip not found") /\ UNCHANGED mem
  <2> DEFINE f == load_full_frontier(db)
  <2>1. id = db.root
    BY <1>12 DEF fast_forward
  <2>2. ~Deep(db)
    BY <1>2, <1>6, <2>1 DEF DiskOK
  <2>3. Crawled(db) = Stored(db)
    BY <1>5, CrawledIsStored DEF DbOK
  <2>4. phase' = "running" /\ failure' = failure /\ mem' = f
    BY <1>5, <1>12, <2>3 DEF Goto
  <2>5. /\ Sound(f) /\ Within(f, MaxLength) /\ AsDatabase(f) = db
        /\ f.root = db.root /\ f.best_tip \in Table(f)
    BY <1>5, <2>2, LoadedIsSound
  <2> HIDE DEF f
  <2>6. Cleared
    BY <1>1 DEF Inductive
  <2>7. queue' = << >> /\ dispatched' = << >> /\ diff_array' = << >>
    BY <1>1, <2>6 DEF Cleared
  <2>8. Replica(db, 0, << >>, db.root)
    <3>1. Append(<< >>, LedgerOf[db.root])[0 + 1] = LedgerOf[db.root]
      OBVIOUS
    <3>2. Height[db.root] \in Nat /\ 0 \in 0 .. Len(<< >>)
      BY <1>6, BlockAssumption
    <3> QED
      BY <1>5, <2>2, <3>1, <3>2 DEF Replica
  <2>9. Reach(db, << >>, << >>, db.root, db, 0)
    BY <2>8, ReachNone
  <2>10. << >> \o << >> = << >> /\ Len(<< >>) = 0
    OBVIOUS
  <2>11. RunInv(mem', queue', dispatched' \o diff_array', disk)
    BY <1>5, <2>1, <2>4, <2>5, <2>7, <2>9, <2>10 DEF RunInv
  <2>12. VarTypes' /\ OnlyExpectedFailures'
    BY <1>1, <2>4 DEF Inductive, VarTypes, OnlyExpectedFailures
  <2>13. phase' \in {"running", "closing"} /\ disk' = disk
    BY <1>1, <2>4
  <2> QED
    BY <1>4, <2>11, <2>12, <2>13, RunInductive
<1> QED
  BY <1>9, <1>10, <1>11, <1>12 DEF load_from_persistence_and_start

\* Bootstrapping.
LEMMA BootstrapInductive ==
  ASSUME Inductive, NEW r \in Block, bootstrap(r)
  PROVE  Inductive'
<1>1. /\ phase = "bootstrap" /\ script = << >> /\ UNCHANGED <<disk, volatile, crashes>>
      /\ failure' = failure
      /\ caller \in {"startup", "retry", "bootstrap"} /\ OnlyExpectedFailures
  BY DEF bootstrap, Idle, Inductive, VarTypes
<1>2. DiskOK(disk) /\ IsDisk(disk)
  BY <1>1, SettledNow
<1>3. OnlyExpectedFailures' /\ LedgerOf[r] \in Block
  BY <1>1, LedgerAssumption DEF OnlyExpectedFailures
<1>4. CASE script' = transfer_accounts(LedgerOf[r]) /\ UNCHANGED <<phase, caller>>
  <2>1. CrashSafe(disk, script', [disk EXCEPT !.snarked_ledger = LedgerOf[r]])
    BY <1>2, <1>3, <1>4, SafeTransfer
  <2>2. \A e : LoadInv(phase', caller', e)
    BY <1>1, <1>4 DEF LoadInv
  <2>3. /\ phase \notin {"running", "closing", "failed"}
        /\ phase' \in {"check", "continue", "start", "bootstrap", "failed"}
        /\ caller' \in {"startup", "retry", "bootstrap"}
    BY <1>1, <1>4
  <2> QED
    BY <1>1, <1>3, <2>1, <2>2, <2>3, LoadInductive
<1>5. CASE script' = BootstrapWrites(r) /\ phase' = "check" /\ caller' = "bootstrap"
  <2> DEFINE e == [disk EXCEPT !.snarked_ledger = LedgerOf[r], !.db = initialize(r),
                               !.root_identifier = r]
  <2>1. CrashSafe(disk, script', e)
    BY <1>2, <1>5, SafeBootstrap
  <2>2. e.db = initialize(r) /\ e.root_identifier = r /\ e.snarked_ledger = LedgerOf[r]
    BY <1>2 DEF IsDisk, Files
  <2> HIDE DEF e
  <2>3. Fresh(e)
    BY <2>2 DEF Fresh
  <2>4. LoadInv(phase', caller', e)
    BY <1>5, <2>3 DEF LoadInv
  <2>5. /\ phase \notin {"running", "closing", "failed"}
        /\ phase' \in {"check", "continue", "start", "bootstrap", "failed"}
        /\ caller' \in {"startup", "retry", "bootstrap"}
    BY <1>1, <1>5
  <2> QED
    BY <1>1, <1>3, <2>1, <2>4, <2>5, LoadInductive
<1> QED
  BY <1>4, <1>5 DEF bootstrap

\* What is known of a running daemon between two jobs.
LEMMA RunningNow ==
  ASSUME Inductive, script = << >>, phase \in {"running", "closing"}
  PROVE  /\ DiskOK(disk) /\ IsDisk(disk) /\ CrashSafe(disk, << >>, disk)
         /\ RunInv(mem, queue, dispatched \o diff_array, disk)
         /\ queue \in Checkpoints /\ diff_array \in Seq(Diffs)
         /\ dispatched \in Seq(Diffs) /\ dispatched \o diff_array \in Seq(Diffs)
<1>1. Settled = disk /\ DiskOK(disk) /\ IsDisk(disk)
  BY SettledNow
<1>2. queue \in Checkpoints /\ diff_array \in Seq(Diffs) /\ dispatched \in Seq(Diffs)
  BY DEF Inductive, VarTypes
<1>3. dispatched \o diff_array \in Seq(Diffs)
  BY <1>2
<1>4. RunInv(mem, queue, dispatched \o diff_array, disk)
  BY <1>1 DEF Inductive, Up
<1> QED
  BY <1>1, <1>2, <1>3, <1>4, SafeNone

\* Nothing before or after a sequence.
LEMMA EmptyConcat ==
  ASSUME NEW ds \in Seq(Diffs)
  PROVE  ds \o << >> = ds /\ << >> \o ds = ds
OBVIOUS

\* A step that only moves diffs from the buffer to the worker, or nothing.
LEMMA HandOverInductive ==
  ASSUME Inductive, script = << >>, phase \in {"running", "closing"},
         UNCHANGED <<disk, script, mem, queue, failure, crashes, caller>>,
         phase' \in {"running", "closing"},
         diff_array' \in Seq(Diffs), dispatched' \in Seq(Diffs),
         dispatched' \o diff_array' = dispatched \o diff_array,
         flush_job' \in BOOLEAN, ~flush_job' => dispatched' = << >>
  PROVE  Inductive'
<1>1. /\ CrashSafe(disk, script', disk)
      /\ RunInv(mem', queue', dispatched' \o diff_array', disk)
  BY RunningNow
<1>2. VarTypes'
  BY DEF Inductive, VarTypes
<1>3. OnlyExpectedFailures'
  BY DEF Inductive, OnlyExpectedFailures
<1> QED
  BY <1>1, <1>2, <1>3, RunInductive

\* The flush job.
LEMMA FlushInductive ==
  ASSUME Inductive, flush
  PROVE  Inductive'
<1>1. /\ script = << >> /\ phase \in {"running", "closing"} /\ dispatched = << >>
      /\ UNCHANGED <<disk, script, mem, queue, failure, crashes, caller>>
      /\ phase' = phase
  BY DEF flush
<1>2. diff_array \in Seq(Diffs) /\ << >> \in Seq(Diffs)
  BY DEF Inductive, VarTypes
<1>3. \/ flush_job' = TRUE /\ dispatched' = diff_array /\ diff_array' = << >>
      \/ flush_job' = FALSE /\ dispatched' = << >> /\ diff_array' = diff_array
  <2>1. flush_job' \in BOOLEAN
    BY DEF flush
  <2>2. /\ dispatched' = IF flush_job' THEN diff_array ELSE << >>
        /\ diff_array' = IF flush_job' THEN << >> ELSE diff_array
    BY DEF flush
  <2>3. CASE flush_job' = TRUE
    BY <2>2, <2>3, Zenon
  <2>4. CASE flush_job' = FALSE
    BY <2>2, <2>4, Zenon
  <2> QED
    BY <2>1, <2>3, <2>4, Zenon
<1>4. dispatched' \o diff_array' = dispatched \o diff_array
  BY <1>1, <1>2, <1>3, EmptyConcat
<1>5. flush_job' \in BOOLEAN
  BY <1>3, Zenon
<1>6. (~flush_job' => dispatched' = << >>)
  BY <1>3, Zenon
<1>7. diff_array' \in Seq(Diffs) /\ dispatched' \in Seq(Diffs)
  BY <1>2, <1>3
<1> QED
  BY <1>1, <1>4, <1>5, <1>6, <1>7, HandOverInductive

\* Closing begins.
LEMMA CloseInductive ==
  ASSUME Inductive, close
  PROVE  Inductive'
<1>1. /\ script = << >> /\ phase = "running" /\ phase' = "closing"
      /\ UNCHANGED <<disk, script, caller, mem, queue, diff_array, dispatched,
                     flush_job, failure, crashes>>
  BY DEF close, Idle, volatile
<1>2. /\ diff_array \in Seq(Diffs) /\ dispatched \in Seq(Diffs)
      /\ flush_job \in BOOLEAN /\ (~flush_job => dispatched = << >>)
  BY DEF Inductive, VarTypes
<1>3. phase \in {"running", "closing"} /\ phase' \in {"running", "closing"}
  BY <1>1
<1> QED
  BY <1>1, <1>2, <1>3, HandOverInductive

\* Closing ends.
LEMMA FinishInductive ==
  ASSUME Inductive, close_and_finish_copy
  PROVE  Inductive'
<1>1. /\ script = << >> /\ phase = "closing" /\ ~flush_job
      /\ UNCHANGED <<disk, script, caller, failure, crashes>>
  BY DEF close_and_finish_copy, Idle
<1>2. /\ diff_array \in Seq(Diffs) /\ << >> \in Seq(Diffs) /\ dispatched = << >>
      /\ flush_job \in BOOLEAN
  BY <1>1 DEF Inductive, VarTypes
<1>3. CASE diff_array # << >>
  <2>1. /\ dispatched' = diff_array /\ diff_array' = << >> /\ flush_job' = TRUE
        /\ UNCHANGED <<phase, mem, queue>>
    BY <1>3 DEF close_and_finish_copy
  <2>2. dispatched' \o diff_array' = dispatched \o diff_array
    BY <1>2, <2>1, EmptyConcat
  <2>3. flush_job' \in BOOLEAN
    BY <2>1, Zenon
  <2>4. /\ phase \in {"running", "closing"} /\ phase' \in {"running", "closing"}
        /\ (~flush_job' => dispatched' = << >>)
        /\ dispatched' \in Seq(Diffs) /\ diff_array' \in Seq(Diffs)
    BY <1>1, <1>2, <2>1
  <2> QED
    BY <1>1, <2>1, <2>2, <2>3, <2>4, HandOverInductive
<1>4. CASE diff_array = << >>
  <2>1. /\ phase' = "bootstrap" /\ mem' = None /\ queue' = << >>
        /\ UNCHANGED <<dispatched, diff_array, flush_job>>
    BY <1>4 DEF close_and_finish_copy
  <2>2. CrashSafe(disk', script', disk)
    BY <1>1, RunningNow
  <2>3. CrashSafe(disk', script', Settled')
    BY <2>2, SettledNext
  <2>4. flush_job' = FALSE
    BY <1>1, <1>2, <2>1, Zenon
  <2>5. Cleared'
    BY <1>2, <1>4, <2>1, <2>4 DEF Cleared
  <2>6. << >> \in Checkpoints
    BY DEF Checkpoints
  <2>7. VarTypes'
    BY <1>1, <2>1, <2>6 DEF Inductive, VarTypes
  <2>8. LoadInv(phase, caller, Settled)'
    BY <2>1 DEF LoadInv
  <2>9. OnlyExpectedFailures'
    BY <1>1 DEF Inductive, OnlyExpectedFailures
  <2> QED
    BY <2>1, <2>3, <2>5, <2>7, <2>8, <2>9 DEF Inductive, Up
<1> QED
  BY <1>3, <1>4

\* The worker applies a diff: it never fails to.
LEMMA HandleInductive ==
  ASSUME Inductive, handle_diff
  PROVE  Inductive'
<1> DEFINE d == Head(dispatched)
           ds == dispatched \o diff_array
           db == apply_to_database(disk.db, d)
           r == mem.root
<1>1. /\ script = << >> /\ phase \in {"running", "closing"} /\ dispatched # << >>
      /\ UNCHANGED <<disk, caller, mem, diff_array, flush_job, crashes>>
  BY DEF handle_diff
<1>2. /\ DiskOK(disk) /\ IsDisk(disk) /\ CrashSafe(disk, << >>, disk)
      /\ RunInv(mem, queue, ds, disk) /\ queue \in Checkpoints
      /\ diff_array \in Seq(Diffs) /\ dispatched \in Seq(Diffs) /\ ds \in Seq(Diffs)
  BY <1>1, RunningNow
<1>3. ds # << >> /\ Head(ds) = d /\ Tail(ds) = Tail(dispatched) \o diff_array
  BY <1>1, <1>2
<1>4. /\ Sound(mem) /\ Within(mem, MaxLength) /\ mem.best_tip \in Table(mem)
      /\ disk.snarked_ledger = LedgerOf[r] /\ disk.root_identifier = r
      /\ queue # << >> => disk.potential_snarked_ledgers = queue
      /\ queue = << >> => disk.potential_snarked_ledgers \in {None, << >>}
      /\ Reach(disk.db, ds, queue, r, AsDatabase(mem), Len(queue))
  BY <1>2 DEF RunInv
<1> HIDE DEF d, ds, db, r
<1>5. /\ d.type = "Root_transitioned" => d.new_root \in Stored(disk.db)
      /\ EmitsProof(d) => /\ queue # << >>
                          /\ Reach(db, Tail(ds), Tail(queue), r, AsDatabase(mem), Len(queue) - 1)
      /\ ~EmitsProof(d) => Reach(db, Tail(ds), queue, r, AsDatabase(mem), Len(queue))
  BY <1>2, <1>3, <1>4, ReachTail DEF db
<1>6. /\ script' = (IF EmitsProof(d) THEN dequeue_snarked_ledger ELSE << >>)
                     \o << Write("db", db) >>
      /\ queue' = IF EmitsProof(d) THEN Tail(queue) ELSE queue
      /\ dispatched' = Tail(dispatched)
      /\ UNCHANGED <<phase, failure>>
  BY <1>5 DEF handle_diff, EmitsProof, d, db
<1>7. /\ Tail(ds) \in Seq(Diffs) /\ Tail(dispatched) \in Seq(Diffs)
      /\ Tail(ds) = dispatched' \o diff_array'
  BY <1>1, <1>2, <1>3, <1>6
<1>8. flush_job
  BY <1>1 DEF Inductive, VarTypes
<1>9. queue' \in Checkpoints
  BY <1>2, <1>5, <1>6 DEF Checkpoints
<1>10. VarTypes'
  BY <1>1, <1>6, <1>7, <1>8, <1>9 DEF Inductive, VarTypes
<1>11. OnlyExpectedFailures'
  BY <1>6 DEF Inductive, OnlyExpectedFailures
<1>12. ASSUME NEW c, CrashSafe(disk, (IF EmitsProof(d) THEN dequeue_snarked_ledger ELSE << >>), c),
              c.snarked_ledger = LedgerOf[r], c.root_identifier = r,
              queue' # << >> => c.potential_snarked_ledgers = queue',
              queue' = << >> => c.potential_snarked_ledgers \in {None, << >>},
              Reach(db, Tail(ds), queue', r, AsDatabase(mem), Len(queue'))
       PROVE  Inductive'
  <2> DEFINE w == Write("db", db)
             e == Put(c, w)
  <2>1. Replica(db, 0, queue', r)
    BY <1>7, <1>12, ReachEnds
  <2>2. WriteOK(c, w)
    BY <1>12, <2>1 DEF WriteOK, Write, Replica
  <2>3. DiskOK(c) /\ IsDisk(c)
    BY <1>12, SafeEnds DEF DiskOK
  <2>4. CrashSafe(c, << w >>, e)
    BY <2>2, <2>3, SafeWrite
  <2>5. /\ e.db = db /\ e.snarked_ledger = c.snarked_ledger
        /\ e.root_identifier = c.root_identifier
        /\ e.potential_snarked_ledgers = c.potential_snarked_ledgers
    BY <2>3 DEF Put, Write, IsDisk, Files
  <2> HIDE DEF e
  <2>6. CrashSafe(disk, script', e)
    BY <1>6, <1>12, <2>4, SafeConcat
  <2>7. RunInv(mem', queue', dispatched' \o diff_array', e)
    BY <1>1, <1>4, <1>7, <1>12, <2>5 DEF RunInv, r
  <2> QED
    BY <1>1, <1>6, <1>10, <1>11, <2>6, <2>7, RunInductive
<1>13. CASE EmitsProof(d)
  <2> DEFINE c == [disk EXCEPT !.potential_snarked_ledgers = Tail(queue)]
  <2>1. CrashSafe(disk, dequeue_snarked_ledger, c)
    BY <1>2, <1>5, <1>13, SafeDequeue
  <2>2. /\ c.snarked_ledger = disk.snarked_ledger
        /\ c.root_identifier = disk.root_identifier
        /\ c.potential_snarked_ledgers = Tail(queue)
    BY <1>2 DEF IsDisk, Files
  <2> HIDE DEF c
  <2>3. queue' = Tail(queue) /\ Len(queue') = Len(queue) - 1
    BY <1>2, <1>5, <1>6, <1>13 DEF Checkpoints
  <2>4. Reach(db, Tail(ds), queue', r, AsDatabase(mem), Len(queue'))
    BY <1>5, <1>13, <2>3
  <2> QED
    BY <1>4, <1>12, <1>13, <2>1, <2>2, <2>3, <2>4
<1>14. CASE ~EmitsProof(d)
  <2>1. queue' = queue
    BY <1>6, <1>14
  <2> QED
    BY <1>2, <1>4, <1>5, <1>12, <1>14, <2>1
<1> QED
  BY <1>13, <1>14

\* Concatenation is associative.
LEMMA ConcatAssociates ==
  ASSUME NEW a \in Seq(Diffs), NEW b \in Seq(Diffs), NEW c \in Seq(Diffs)
  PROVE  (a \o b) \o c = a \o (b \o c) /\ a \o b \in Seq(Diffs)
OBVIOUS

\* A breadcrumb grows the frontier, and its root diff makes a safe job that
\* leaves the ledgers and the identifier of the new root.
LEMMA GrowthIsSafe ==
  ASSUME Inductive, NEW b \in Block, add_breadcrumb_exn(b)
  PROVE  /\ calculate_diffs(mem, b) \in Seq(Diffs)
         /\ queue' \in Checkpoints
         /\ \E e : /\ CrashSafe(disk, script', e)
                   /\ RunInv(mem', queue',
                             (dispatched \o diff_array) \o calculate_diffs(mem, b), e)
<1> DEFINE ds == dispatched \o diff_array
           diffs == calculate_diffs(mem, b)
           roots == RootDiffs(diffs)
           g == apply_diffs(mem, diffs)
           proof == \E d \in roots : d.just_emitted_a_proof
           p == IF proof THEN Append(queue, LedgerOf[mem.root]) ELSE queue
<1>1. /\ script = << >> /\ phase = "running"
      /\ b \notin Table(mem) /\ b # Genesis /\ Parent[b] \in Table(mem)
  BY DEF add_breadcrumb_exn, Idle
<1>2. /\ DiskOK(disk) /\ IsDisk(disk) /\ CrashSafe(disk, << >>, disk)
      /\ RunInv(mem, queue, ds, disk) /\ queue \in Checkpoints
      /\ diff_array \in Seq(Diffs) /\ dispatched \in Seq(Diffs) /\ ds \in Seq(Diffs)
  BY <1>1, RunningNow
<1>3. /\ Sound(mem) /\ Within(mem, MaxLength) /\ mem.best_tip \in Table(mem)
      /\ disk.snarked_ledger = LedgerOf[mem.root] /\ disk.root_identifier = mem.root
      /\ queue # << >> => disk.potential_snarked_ledgers = queue
      /\ queue = << >> => disk.potential_snarked_ledgers \in {None, << >>}
      /\ Reach(disk.db, ds, queue, mem.root, AsDatabase(mem), Len(queue))
  BY <1>2 DEF RunInv
<1>4. /\ mem' = g /\ queue' = p
      /\ script' = IF roots = {} THEN << >>
                   ELSE RootWrites(CHOOSE d \in roots : TRUE, queue')
  BY <1>3 DEF add_breadcrumb_exn
<1> HIDE DEF ds
<1>5. /\ diffs \in Seq(Diffs)
      /\ Sound(g) /\ Within(g, MaxLength) /\ g.best_tip \in Table(g)
      /\ Reach(disk.db, ds \o diffs, p, g.root, AsDatabase(g), Len(p))
      /\ roots = {} => g.root = mem.root
      /\ \A d \in roots :
           /\ roots = {d} /\ d.new_root = g.root /\ g.root \in Block
           /\ d.just_emitted_a_proof \in BOOLEAN
           /\ Height[g.root] > Height[mem.root]
           /\ ~d.just_emitted_a_proof => LedgerOf[g.root] = LedgerOf[mem.root]
  BY <1>1, <1>2, <1>3, GrowthReaches
<1> HIDE DEF diffs, roots, g
<1>6. mem.root \in Block /\ LedgerOf[mem.root] \in Block
  BY <1>3, LedgerAssumption, BlockAssumption DEF Sound, IsFrontier
<1>7. /\ queue' \in Checkpoints
      /\ proof => queue' # << >> /\ queue' = Append(queue, LedgerOf[mem.root])
      /\ ~proof => queue' = queue
  <2>1. queue' = IF proof THEN Append(queue, LedgerOf[mem.root]) ELSE queue
    BY <1>4
  <2> HIDE DEF proof
  <2>2. /\ Append(queue, LedgerOf[mem.root]) \in Checkpoints
        /\ Append(queue, LedgerOf[mem.root]) # << >>
    <3>1. PICK x \in Block : x = LedgerOf[mem.root]
      BY <1>6
    <3>2. /\ Append(queue, x) \in Checkpoints /\ Len(queue) \in Nat
          /\ Len(Append(queue, x)) = Len(queue) + 1
      BY <1>2, LastLedger
    <3>3. Append(queue, x) # << >>
      BY <3>2
    <3> QED
      BY <3>1, <3>2, <3>3
  <2> QED
    BY <1>2, <2>1, <2>2
<1>8. \E e : /\ CrashSafe(disk, script', e) /\ e.db = disk.db
             /\ e.snarked_ledger = LedgerOf[g.root] /\ e.root_identifier = g.root
             /\ queue' # << >> => e.potential_snarked_ledgers = queue'
             /\ queue' = << >> => e.potential_snarked_ledgers \in {None, << >>}
  <2>1. CASE roots = {}
    <3>1. ~proof
      BY <2>1
    <3>2. script' = << >> /\ queue' = queue /\ g.root = mem.root
      BY <1>4, <1>5, <1>7, <2>1, <3>1
    <3> QED
      BY <1>2, <1>3, <3>2
  <2>2. CASE roots # {}
    <3>1. PICK d \in roots : TRUE
      BY <2>2
    <3>2. /\ roots = {d} /\ d.new_root = g.root /\ g.root \in Block
          /\ d.just_emitted_a_proof \in BOOLEAN
          /\ Height[g.root] > Height[mem.root]
          /\ ~d.just_emitted_a_proof => LedgerOf[g.root] = LedgerOf[mem.root]
      BY <1>5, <3>1
    <3>3. (CHOOSE x \in roots : TRUE) = d
      BY <3>2
    <3>4. script' = RootWrites(d, queue')
      BY <1>4, <2>2, <3>3
    <3>5. proof <=> d.just_emitted_a_proof
      BY <3>2
    <3>6. Replica(disk.db, 0, queue, mem.root)
      BY <1>2, <1>3, ReachEnds
    <3>7. Height[disk.db.root] <= Height[mem.root] /\ disk.db.root \in Block
      BY <3>6 DEF Replica, DbOK, Database
    <3>8. d.new_root # disk.db.root
      BY <1>6, <3>2, <3>7, BlockAssumption
    <3> DEFINE e == [disk EXCEPT
              !.potential_snarked_ledgers = IF d.just_emitted_a_proof THEN queue' ELSE @,
              !.snarked_ledger = IF d.just_emitted_a_proof THEN LedgerOf[d.new_root] ELSE @,
              !.root_identifier = d.new_root]
    <3>9. CrashSafe(disk, RootWrites(d, queue'), e)
      BY <1>2, <1>3, <1>7, <3>2, <3>8, SafeRootWrites
    <3>10. /\ e.db = disk.db /\ e.root_identifier = d.new_root
           /\ e.snarked_ledger = IF d.just_emitted_a_proof THEN LedgerOf[d.new_root]
                                 ELSE disk.snarked_ledger
           /\ e.potential_snarked_ledgers =
                IF d.just_emitted_a_proof THEN queue' ELSE disk.potential_snarked_ledgers
      BY <1>2 DEF IsDisk, Files
    <3> HIDE DEF e
    <3>11. CASE d.just_emitted_a_proof
      BY <1>7, <3>2, <3>4, <3>5, <3>9, <3>10, <3>11
    <3>12. CASE ~d.just_emitted_a_proof
      BY <1>3, <1>7, <3>2, <3>4, <3>5, <3>9, <3>10, <3>12
    <3> QED
      BY <3>11, <3>12
  <2> QED
    BY <2>1, <2>2
<1>9. PICK e : /\ CrashSafe(disk, script', e) /\ e.db = disk.db
               /\ e.snarked_ledger = LedgerOf[g.root] /\ e.root_identifier = g.root
               /\ queue' # << >> => e.potential_snarked_ledgers = queue'
               /\ queue' = << >> => e.potential_snarked_ledgers \in {None, << >>}
  BY <1>8
<1>10. RunInv(mem', queue', ds \o diffs, e)
  BY <1>4, <1>5, <1>9 DEF RunInv
<1> QED
  BY <1>5, <1>7, <1>9, <1>10 DEF ds, diffs

\* A breadcrumb is added: the daemon goes on, or its buffer overflows.
LEMMA AddInductive ==
  ASSUME Inductive, NEW b \in Block, add_breadcrumb_exn(b)
  PROVE  Inductive'
<1>0. PICK diffs : diffs = calculate_diffs(mem, b)
  OBVIOUS
<1>1. /\ script = << >> /\ phase = "running" /\ UNCHANGED <<disk, caller, crashes>>
      /\ write(diffs)
  BY <1>0 DEF add_breadcrumb_exn, Idle
<1>2. diff_array \in Seq(Diffs) /\ dispatched \in Seq(Diffs)
  BY DEF Inductive, VarTypes
<1>3. diffs \in Seq(Diffs) /\ queue' \in Checkpoints
  BY <1>0, GrowthIsSafe
<1>4. PICK e : /\ CrashSafe(disk, script', e)
               /\ RunInv(mem', queue', (dispatched \o diff_array) \o diffs, e)
  BY <1>0, GrowthIsSafe
<1>5. PICK buffer : buffer = diff_array \o diffs
  OBVIOUS
<1>6. /\ (dispatched \o diff_array) \o diffs = dispatched \o buffer
      /\ buffer \in Seq(Diffs) /\ << >> \in Seq(Diffs)
  <2>1. /\ (dispatched \o diff_array) \o diffs = dispatched \o (diff_array \o diffs)
        /\ diff_array \o diffs \in Seq(Diffs)
    BY <1>2, <1>3, ConcatAssociates
  <2>2. << >> \in Seq(Diffs)
    OBVIOUS
  <2> QED
    BY <1>5, <2>1, <2>2, Zenon
<1>7. \/ /\ ~flush_job /\ dispatched' = buffer /\ diff_array' = << >>
         /\ flush_job' = TRUE /\ phase' = "running" /\ failure' = failure
      \/ /\ diff_array' = buffer /\ UNCHANGED <<dispatched, flush_job>>
         /\ \/ phase' = "running" /\ failure' = failure
            \/ phase' = "failed" /\ failure' = "persistence buffer overflow"
  BY <1>1, <1>5, Zenon DEF write, Goto, Fail
<1>8. /\ dispatched' \in Seq(Diffs) /\ diff_array' \in Seq(Diffs)
      /\ dispatched' \o diff_array' = (dispatched \o diff_array) \o diffs
  <2>1. ASSUME ~flush_job PROVE dispatched = << >>
    BY <2>1 DEF Inductive, VarTypes
  <2> QED
    BY <1>2, <1>6, <1>7, <2>1, EmptyConcat
<1>9. flush_job' \in BOOLEAN /\ (~flush_job' => dispatched' = << >>)
  <2>1. flush_job \in BOOLEAN /\ (~flush_job => dispatched = << >>)
    BY DEF Inductive, VarTypes
  <2> QED
    BY <1>7, <2>1, Zenon
<1>10. phase' = "running" \/ phase' = "failed"
  BY <1>7, Zenon
<1>11. OnlyExpectedFailures'
  <2>1. failure' = failure \/ failure' = "persistence buffer overflow"
    BY <1>7, Zenon
  <2> QED
    BY <2>1 DEF Inductive, OnlyExpectedFailures
<1>12. VarTypes'
  BY <1>1, <1>3, <1>8, <1>9, <1>10 DEF Inductive, VarTypes
<1>13. CASE phase' = "running"
  BY <1>1, <1>4, <1>8, <1>11, <1>12, <1>13, RunInductive
<1>14. CASE phase' = "failed"
  <2>1. CrashSafe(disk', script', Settled')
    BY <1>1, <1>4, SettledNext
  <2>2. LoadInv(phase, caller, Settled)'
    BY <1>14 DEF LoadInv
  <2> QED
    BY <1>11, <1>12, <1>14, <2>1, <2>2 DEF Inductive, Up
<1> QED
  BY <1>10, <1>13, <1>14

\* Every step keeps the invariant.
LEMMA NextInductive ==
  ASSUME Inductive, [Next]_vars
  PROVE  Inductive'
<1>1. CASE WriteStep
  BY <1>1, WriteInductive
<1>2. CASE Load
  BY <1>2, CheckInductive, RootInductive, StartInductive DEF Load
<1>3. CASE Persist
  BY <1>3, HandleInductive, FlushInductive, FinishInductive DEF Persist
<1>4. CASE close
  BY <1>4, CloseInductive
<1>5. CASE Crash
  <2>1. crashes \in 0 .. MaxCrashes /\ MaxCrashes \in Nat
    BY CapacityAssumption DEF Inductive, VarTypes
  <2>2. crashes' \in 0 .. MaxCrashes /\ Reboot
    BY <1>5, <2>1 DEF Crash
  <2> QED
    BY <2>2, RebootInductive
<1>6. CASE Restart
  <2>1. crashes' \in 0 .. MaxCrashes /\ Reboot
    BY <1>6 DEF Restart, Inductive, VarTypes
  <2> QED
    BY <2>1, RebootInductive
<1>7. CASE \E r \in Block : bootstrap(r)
  BY <1>7, BootstrapInductive
<1>8. CASE \E b \in Block : add_breadcrumb_exn(b)
  BY <1>8, AddInductive
<1>9. CASE UNCHANGED vars
  BY <1>9 DEF vars, Inductive, VarTypes, OnlyExpectedFailures, Cleared, Up, Settled
<1> QED
  BY <1>1, <1>2, <1>3, <1>4, <1>5, <1>6, <1>7, <1>8, <1>9 DEF Next

\* The invariant holds throughout: after any number of crashes, at any write.
THEOREM InductiveInvariant == Spec => []Inductive
<1>1. Init => Inductive
  BY InitInductive
<1>2. Inductive /\ [Next]_vars => Inductive'
  BY NextInductive
<1> QED
  BY <1>1, <1>2, PTL DEF Spec

-----------------------------------------------------------------------------
(* What the invariant says of the daemon. *)

\* A database of the right type has the parts a reader expects.
LEMMA DatabaseParts ==
  ASSUME NEW db \in Database
  PROVE  IsDatabase(db)
<1>1. /\ db = [ root |-> db.root, best_tip |-> db.best_tip
              , successor_hashes |-> db.successor_hashes
              , protocol_states |-> db.protocol_states ]
      /\ db.root \in Block /\ db.best_tip \in Block /\ db.protocol_states \in SUBSET Block
      /\ \E T \in SUBSET Block : db.successor_hashes \in [T -> SUBSET Block]
  BY DEF Database
<1>2. /\ Stored(db) \subseteq Block
      /\ db.successor_hashes \in [Stored(db) -> SUBSET Block]
  BY <1>1 DEF Stored
<1> QED
  BY <1>1, <1>2 DEF IsDatabase

\* The files, the writes, the frontier and the diffs have their types, and
\* there is a frontier exactly while the daemon runs or closes
\* (transition_frontier.ml, persistent_frontier/, persistent_root/).
THEOREM TypeCorrect == Spec => []TypeOK
<1>1. ASSUME Inductive PROVE TypeOK
  <2>1. DiskOK(disk) /\ script \in Writes
    BY <1>1, SafeEnds DEF Inductive
  <2>2. DOMAIN disk = DOMAIN EmptyDisk /\ DOMAIN disk = Files
    BY <2>1 DEF DiskOK, IsDisk, EmptyDisk, Files
  <2>3. disk.db # None => IsDatabase(disk.db)
    BY <2>1, DatabaseParts DEF DiskOK, DbOK
  <2>4. /\ disk.snarked_ledger \in Block \cup {Dirty}
        /\ disk.root_identifier \in Block \cup {None, Torn}
        /\ disk.potential_snarked_ledgers \in Checkpoints \cup {None, Torn}
    BY <2>1 DEF DiskOK
  <2>5. ASSUME NEW q \in Checkpoints PROVE Range(q) \subseteq Block \cup {Dirty}
    BY DEF Range, Checkpoints
  <2>6. \A i \in DOMAIN script : script[i].file \in DOMAIN disk
    <3>1. ASSUME NEW S, NEW ws \in Seq(S) PROVE \A i \in DOMAIN ws : ws[i] \in S
      OBVIOUS
    <3>2. \A i \in DOMAIN script : script[i] \in [file : Files, value : Values]
      BY <2>1, <3>1, Zenon DEF Writes
    <3> QED
      BY <2>2, <3>2
  <2>7. VarTypes
    BY <1>1 DEF Inductive
  <2>8. IF Up THEN IsFrontier(mem) ELSE mem = None \/ phase = "failed"
    BY <1>1 DEF Inductive, Up, RunInv, Sound, Cleared
  <2>9. \A d \in Range(diff_array \o dispatched) : IsDiff(d)
    <3>0. diff_array \in Seq(Diffs) /\ dispatched \in Seq(Diffs)
      BY <2>7 DEF VarTypes
    <3>1. diff_array \o dispatched \in Seq(Diffs)
      BY <3>0
    <3>2. ASSUME NEW ds \in Seq(Diffs) PROVE \A d \in Range(ds) : d \in Diffs
      BY DEF Range
    <3> QED
      BY <3>1, <3>2 DEF Diffs, IsDiff
  <2>10. flush_job \in BOOLEAN
    BY <2>7 DEF VarTypes
  <2> QED
    BY <2>2, <2>3, <2>4, <2>5, <2>6, <2>7, <2>8, <2>9, <2>10 DEF TypeOK, VarTypes
<1> QED
  BY <1>1, InductiveInvariant, PTL

\* What the buffer and the worker hold is exactly what the database lacks
\* (diff_buffer.ml, worker.ml, database.ml): replayed on it in their order,
\* the diffs make the frontier that is in memory.
THEOREM ReplayCorrect == Spec => []DatabaseReplaysToFrontier
<1>1. ASSUME Inductive, Up
      PROVE  Replay(Settled.db, dispatched \o diff_array) = AsDatabase(mem)
  <2>1. RunInv(mem, queue, dispatched \o diff_array, Settled)
    BY <1>1 DEF Inductive
  <2>2. dispatched \in Seq(Diffs) /\ diff_array \in Seq(Diffs)
    BY <1>1 DEF Inductive, VarTypes
  <2>3. dispatched \o diff_array \in Seq(Diffs)
    BY <2>2
  <2> QED
    BY <2>1, <2>3, ReachReplay DEF RunInv
<1>2. Inductive => DatabaseReplaysToFrontier
  BY <1>1 DEF DatabaseReplaysToFrontier
<1> QED
  BY <1>2, InductiveInvariant, PTL

\* The oldest checkpoint is always the ledger of the root the database lags
\* behind at (persistent_root.ml, worker.ml): a restart finds its ledger.
THEOREM LedgersCorrect == Spec => []LedgersMatchRoots
<1>1. ASSUME Inductive, Up
      PROVE  /\ Settled.snarked_ledger = LedgerOf[mem.root]
             /\ Settled.root_identifier = mem.root
             /\ Head(Append(queue, Settled.snarked_ledger)) = LedgerOf[Settled.db.root]
             /\ queue # << >> => Settled.potential_snarked_ledgers = queue
  <2>1. /\ Settled.snarked_ledger = LedgerOf[mem.root]
        /\ Settled.root_identifier = mem.root
        /\ queue # << >> => Settled.potential_snarked_ledgers = queue
        /\ Reach(Settled.db, dispatched \o diff_array, queue, mem.root,
                 AsDatabase(mem), Len(queue))
    BY <1>1 DEF Inductive, RunInv
  <2>2. dispatched \in Seq(Diffs) /\ diff_array \in Seq(Diffs) /\ queue \in Checkpoints
    BY <1>1 DEF Inductive, VarTypes
  <2>3. dispatched \o diff_array \in Seq(Diffs)
    BY <2>2
  <2>4. Replica(Settled.db, 0, queue, mem.root)
    BY <2>1, <2>3, ReachEnds
  <2>5. Append(queue, LedgerOf[mem.root])[1] = LedgerOf[Settled.db.root]
    BY <2>4 DEF Replica
  <2>6. ASSUME NEW x, NEW q \in Checkpoints PROVE Head(Append(q, x)) = Append(q, x)[1]
    BY DEF Checkpoints
  <2> QED
    BY <2>1, <2>2, <2>5, <2>6
<1>2. Inductive => LedgersMatchRoots
  BY <1>1 DEF LedgersMatchRoots
<1> QED
  BY <1>2, InductiveInvariant, PTL

\* Wherever a crash strikes, the database holds a whole tree (database.ml:
\* the batches of add, move_root and set_best_tip).
THEOREM DatabaseAlwaysTree == Spec => []DatabaseIsTree
<1>1. Inductive => DatabaseIsTree
  BY SafeEnds DEF Inductive, DiskOK, DbOK, DatabaseIsTree
<1> QED
  BY <1>1, InductiveInvariant, PTL

\* Every frontier that is loaded, and every one it grows into, is sound
\* (persistent_frontier.ml, Instance.load_full_frontier).
THEOREM LoadedAlwaysSound == Spec => []LoadedFrontierIsSound
<1>1. Inductive => LoadedFrontierIsSound
  BY DEF Inductive, RunInv, LoadedFrontierIsSound
<1> QED
  BY <1>1, InductiveInvariant, PTL

\* No crash, however timed, makes the daemon fail to apply a diff, to find a
\* best tip, or to load what a bootstrap left (transition_frontier.ml,
\* load_with_max_length and its failures).
THEOREM FailuresExpected == Spec => []OnlyExpectedFailures
<1>1. Inductive => OnlyExpectedFailures
  BY DEF Inductive
<1> QED
  BY <1>1, InductiveInvariant, PTL

-----------------------------------------------------------------------------
(* What the steps of the daemon do. *)

\* Two copies of the frontier's operators are in sight, this module's and the
\* full frontier's: they are the same.
LEMMA SameOperators ==
  ASSUME NEW f, NEW b
  PROVE  /\ Full!Table(f) = Table(f)
         /\ Full!calculate_diffs(f, b) = calculate_diffs(f, b)
         /\ Full!LookupsSucceed(f, b) <=> LookupsSucceed(f, b)
<1>1. \A g : Full!Table(g) = Table(g)
  BY DEF Full!Table, Table
<1>2. \A g, h : Full!successors_rec(g, h) = successors_rec(g, h)
  BY <1>1, Zenon DEF Full!successors_rec, successors_rec, Full!Table, Table
<1>3. \A g, h : Full!Heir(g, h) = Heir(g, h)
  BY Zenon DEF Full!Heir, Heir, Full!hash_path, hash_path
<1>4. \A g, h : Full!garbage_breadcrumbs(g, h) = garbage_breadcrumbs(g, h)
  BY Zenon DEF Full!garbage_breadcrumbs, garbage_breadcrumbs, Full!heir_siblings,
     heir_siblings, Full!successors_rec, successors_rec, Full!Table, Table
<1>5. \A g, h : Full!TooLong(g, h) <=> TooLong(g, h)
  BY DEF Full!TooLong, TooLong
<1>6. \A h, G : Full!Root_transitioned(h, G) = Root_transitioned(h, G)
  BY Zenon DEF Full!Root_transitioned, Root_transitioned
<1>7. \A h : /\ Full!New_node(h) = New_node(h)
             /\ Full!Best_tip_changed(h) = Best_tip_changed(h)
  BY Zenon DEF Full!New_node, New_node, Full!Best_tip_changed, Best_tip_changed
<1>8. Full!calculate_diffs(f, b) = calculate_diffs(f, b)
  BY <1>3, <1>4, <1>5, <1>6, <1>7
     DEF Full!calculate_diffs, calculate_diffs, Full!calculate_root_transition_diff,
         calculate_root_transition_diff
<1>9. Full!LookupsSucceed(f, b) <=> LookupsSucceed(f, b)
  BY <1>1, <1>3, <1>4, <1>5
     DEF Full!LookupsSucceed, LookupsSucceed, Full!find_protocol_state,
         find_protocol_state, Full!Kept, Kept
<1> QED
  BY <1>1, <1>8, <1>9

\* Applying diffs is the same in both copies.
LEMMA SameApplication ==
  ASSUME NEW f, NEW ds
  PROVE  Full!apply_diffs(f, ds) = apply_diffs(f, ds)
<1>1. \A g, b : Full!AddNode(g, b) = AddNode(g, b)
  BY Zenon DEF Full!AddNode, AddNode, Full!Table, Table
<1>2. \A g, h, G : Full!move_root(g, h, G) = move_root(g, h, G)
  BY Zenon DEF Full!move_root, move_root, Full!Kept, Kept, Full!Table, Table
<1>3. \A g, d : Full!apply_diff(g, d) = apply_diff(g, d)
  BY <1>1, <1>2 DEF Full!apply_diff, apply_diff
<1> QED
  BY <1>3, Zenon DEF Full!apply_diffs, apply_diffs

\* A running daemon grows its frontier the way a full frontier grows, with no
\* failing lookup, wherever the frontier was loaded from
\* (transition_frontier.ml, add_breadcrumb_exn).
THEOREM FrontierStepsOnly == Spec => RunningStepsAreFrontierSteps
<1>1. ASSUME Inductive, [Next]_vars, Up, mem' # None
      PROVE  Full!Next \/ UNCHANGED mem
  <2>1. CASE \E b \in Block : add_breadcrumb_exn(b)
    <3>1. PICK b \in Block : add_breadcrumb_exn(b)
      BY <2>1
    <3>2. /\ phase = "running" /\ b # Genesis
          /\ b \notin Table(mem) /\ Parent[b] \in Table(mem)
          /\ mem' = apply_diffs(mem, calculate_diffs(mem, b))
      BY <3>1 DEF add_breadcrumb_exn, Idle
    <3>3. Sound(mem) /\ mem.best_tip \in Table(mem)
      BY <1>1 DEF Inductive, RunInv
    <3>4. LookupsSucceed(mem, b)
      BY <3>2, <3>3, LookupsSound
    <3>5. /\ Full!Table(mem) = Table(mem)
          /\ Full!calculate_diffs(mem, b) = calculate_diffs(mem, b)
          /\ Full!LookupsSucceed(mem, b)
          /\ Full!apply_diffs(mem, calculate_diffs(mem, b)) = mem'
      BY <3>2, <3>4, SameOperators, SameApplication
    <3>6. Full!add_breadcrumb_exn(b)
      BY <3>2, <3>5, Zenon DEF Full!add_breadcrumb_exn
    <3> QED
      BY <3>6 DEF Full!Next
  <2>2. CASE Crash \/ Restart
    BY <1>1, <2>2 DEF Crash, Restart, Reboot
  <2>3. CASE WriteStep \/ close
    BY <2>3 DEF WriteStep, close, volatile
  <2>4. CASE Load
    BY <1>1, <2>4 DEF Load, check_database, load_from_disk,
       load_from_persistence_and_start, Idle, Up
  <2>5. CASE Persist
    BY <1>1, <2>5 DEF Persist, handle_diff, flush, close_and_finish_copy
  <2>6. CASE \E r \in Block : bootstrap(r)
    BY <2>6 DEF bootstrap, volatile
  <2>7. CASE UNCHANGED vars
    BY <2>7 DEF vars
  <2> QED
    BY <1>1, <2>1, <2>2, <2>3, <2>4, <2>5, <2>6, <2>7 DEF Next
<1>2. Inductive /\ [Next]_vars => [Up /\ mem' # None => Full!Next \/ UNCHANGED mem]_vars
  BY <1>1
<1> QED
  BY <1>2, InductiveInvariant, PTL DEF Spec, RunningStepsAreFrontierSteps

\* A frontier that was written to a database loads as it was, with its
\* lengths counted from the root.
LEMMA LoadedAsWritten ==
  ASSUME NEW f, Sound(f), Within(f, MaxLength)
  PROVE  load_full_frontier(AsDatabase(f)) =
           [f EXCEPT !.length = [h \in DOMAIN @ |-> @[h] - @[f.root]]]
<1> DEFINE db == AsDatabase(f)
           T == Table(f)
<1>1. /\ DbOK(db) /\ ~Deep(db) /\ db.root = f.root /\ db.best_tip = f.best_tip
      /\ Stored(db) = T /\ db.successor_hashes = f.successor_hashes
      /\ db.protocol_states = f.protocol_states
  BY WithinMore, FrontierAsDatabase DEF AsDatabase
<1> HIDE DEF db
<1>2. Crawled(db) = T
  BY <1>1, CrawledIsStored DEF DbOK
<1>3. /\ f = [ root |-> f.root, best_tip |-> f.best_tip
             , successor_hashes |-> f.successor_hashes, length |-> f.length
             , protocol_states |-> f.protocol_states ]
      /\ f.successor_hashes = [h \in T |-> f.successor_hashes[h]]
      /\ DOMAIN f.length = T
  BY DEF Sound, IsFrontier
<1>4. \A h \in T : Height[h] - Height[f.root] = f.length[h] - f.length[f.root]
  BY DEF Sound
<1>5. [h \in T |-> Height[h] - Height[f.root]] =
        [h \in DOMAIN f.length |-> f.length[h] - f.length[f.root]]
  BY <1>3, <1>4
<1>6. PICK L : L = [h \in DOMAIN f.length |-> f.length[h] - f.length[f.root]]
  OBVIOUS
<1>7. [f EXCEPT !.length = [h \in DOMAIN @ |-> @[h] - @[f.root]]] =
        [ root |-> f.root, best_tip |-> f.best_tip
        , successor_hashes |-> f.successor_hashes, length |-> L
        , protocol_states |-> f.protocol_states ]
  <2>1. [f EXCEPT !.length = L] =
        [ root |-> f.root, best_tip |-> f.best_tip
        , successor_hashes |-> f.successor_hashes, length |-> L
        , protocol_states |-> f.protocol_states ]
    BY <1>3
  <2> QED
    BY <1>6, <2>1
<1>8. load_full_frontier(db) =
        [ root |-> f.root, best_tip |-> f.best_tip
        , successor_hashes |-> f.successor_hashes, length |-> L
        , protocol_states |-> f.protocol_states ]
  BY <1>1, <1>2, <1>3, <1>5, <1>6, Zenon DEF load_full_frontier
<1> QED
  BY <1>7, <1>8 DEF db

\* A finished close leaves the whole frontier on the disk, with its root
\* identifier and its ledger (persistent_frontier.ml, Instance.stop_sync;
\* diff_buffer.ml, close_and_finish_copy).
THEOREM CloseLosesNothing == Spec => CleanCloseLosesNothing
<1>1. ASSUME Inductive, [Next]_vars, phase = "closing", phase' = "bootstrap"
      PROVE  /\ load_full_frontier(disk.db) =
                  [mem EXCEPT !.length = [h \in DOMAIN @ |-> @[h] - @[mem.root]]]
             /\ disk.root_identifier = disk.db.root
             /\ disk.snarked_ledger = LedgerOf[disk.db.root]
             /\ disk.potential_snarked_ledgers \in {None, << >>}
  <2>1. close_and_finish_copy
    <3>1. ~WriteStep /\ ~Load /\ ~close /\ ~Crash /\ ~Restart
      BY <1>1 DEF WriteStep, Load, check_database, load_from_disk,
         load_from_persistence_and_start, close, Crash, Restart, Reboot, Idle
    <3>2. ~handle_diff /\ ~flush
      BY <1>1 DEF handle_diff, flush, Fail
    <3>3. /\ ~\E r \in Block : bootstrap(r)
          /\ ~\E b \in Block : add_breadcrumb_exn(b)
      BY <1>1 DEF bootstrap, add_breadcrumb_exn, Idle
    <3>4. ~UNCHANGED vars
      BY <1>1 DEF vars
    <3> QED
      BY <1>1, <3>1, <3>2, <3>3, <3>4 DEF Next, Persist
  <2>2. script = << >> /\ ~flush_job /\ diff_array = << >>
    BY <1>1, <2>1 DEF close_and_finish_copy, Idle
  <2>3. dispatched = << >>
    BY <1>1, <2>2 DEF Inductive, VarTypes
  <2>4. /\ RunInv(mem, queue, dispatched \o diff_array, disk)
        /\ dispatched \o diff_array \in Seq(Diffs) /\ queue \in Checkpoints
    BY <1>1, <2>2, RunningNow
  <2>5. dispatched \o diff_array = << >>
    BY <2>2, <2>3
  <2>6. /\ Sound(mem) /\ Within(mem, MaxLength)
        /\ disk.snarked_ledger = LedgerOf[mem.root] /\ disk.root_identifier = mem.root
        /\ queue = << >> => disk.potential_snarked_ledgers \in {None, << >>}
        /\ Reach(disk.db, dispatched \o diff_array, queue, mem.root,
                 AsDatabase(mem), Len(queue))
    BY <2>4 DEF RunInv
  <2>7. disk.db = AsDatabase(mem) /\ Len(queue) = 0
    <3>1. Reach(disk.db, << >>, queue, mem.root, AsDatabase(mem), Len(queue))
      BY <2>5, <2>6
    <3> QED
      BY <3>1, ReachSame
  <2>8. queue = << >>
    BY <2>4, <2>7 DEF Checkpoints
  <2>9. disk.db.root = mem.root
    BY <2>7 DEF AsDatabase
  <2> QED
    BY <2>6, <2>7, <2>8, <2>9, LoadedAsWritten
<1>2. Inductive /\ [Next]_vars =>
        [phase = "closing" /\ phase' = "bootstrap" =>
           /\ load_full_frontier(disk.db) =
                [mem EXCEPT !.length = [h \in DOMAIN @ |-> @[h] - @[mem.root]]]
           /\ disk.root_identifier = disk.db.root
           /\ disk.snarked_ledger = LedgerOf[disk.db.root]
           /\ disk.potential_snarked_ledgers \in {None, << >>}]_vars
  BY <1>1
<1> QED
  BY <1>2, InductiveInvariant, PTL DEF Spec, CleanCloseLosesNothing
=============================================================================
