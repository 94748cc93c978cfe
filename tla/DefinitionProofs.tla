--------------------------- MODULE DefinitionProofs ---------------------------
(***************************************************************************)
(* Theorems about DefinitionLoader, for any files, references, contents,   *)
(* requests, depth and number of edits.                                    *)
(*                                                                         *)
(* The first half is about data.  The loops of the merge are recursive     *)
(* functions; SetInduction, which is first-order, gives them their values  *)
(* (LoopsCompute), so that a merge is what the properties say it is:       *)
(* LaterWinsIsLast, UnionIsUnion, DefinitionDescribes.  FileAtSteps does   *)
(* the same for the chain of files, and ChainEnds, ChainTooDeep,           *)
(* ChainRevisits and ChainUnreadable tell when a disk has a chain.         *)
(*                                                                         *)
(* The second half is about the load.  Follows(l, d) says that l is where  *)
(* a load of the disk d alone would be: reading keeps it (ReadFollows), an *)
(* edit of a file not yet read keeps it for the new disk (EditFollows),    *)
(* and one of a file that was read cannot disturb it for the old one.      *)
(* DefinitionInv is the inductive invariant made of these.                 *)
(***************************************************************************)
EXTENDS DefinitionLoader, FiniteSetTheorems, SequenceTheorems, TLAPS

-----------------------------------------------------------------------------
(* Induction, as a statement about a set of numbers. *)

(* A set with zero that is closed under successors has every number: of    *)
(* the intervals that end outside it none is the smallest, yet the finite  *)
(* sets are well founded.                                                  *)
LEMMA SetInduction ==
  ASSUME NEW S, 0 \in S, \A n \in Nat : n \in S => n + 1 \in S
  PROVE  Nat \subseteq S
<1> DEFINE T == {1 .. n : n \in Nat \ S}
           R == StrictSubsetOrdering(Nat)
<1> SUFFICES ASSUME Nat \ S # {} PROVE FALSE
  OBVIOUS
<1>1. T \subseteq FiniteSubsetsOf(Nat)
  <2> SUFFICES ASSUME NEW n \in Nat PROVE 1 .. n \in FiniteSubsetsOf(Nat)
    OBVIOUS
  <2> QED
    BY FS_Interval DEF FiniteSubsetsOf
<1>2. T # {}
  OBVIOUS
<1>3. IsWellFoundedOn(R, FiniteSubsetsOf(Nat))
  BY FS_StrictSubsetOrderingWellFounded
<1>4. \E x \in T : \A y \in T : <<y, x>> \notin R
  <2> HIDE DEF R, T
  <2> QED
    BY <1>1, <1>2, <1>3, WFMin
<1>5. PICK m \in Nat \ S : \A y \in T : <<y, 1 .. m>> \notin R
  BY <1>4
<1>6. m # 0 /\ m - 1 \in Nat /\ m = (m - 1) + 1
  BY <1>5
<1>7. m - 1 \in S
  <2> SUFFICES ASSUME m - 1 \notin S PROVE FALSE
    OBVIOUS
  <2>1. 1 .. (m - 1) \in T
    BY <1>6
  <2>2. <<1 .. (m - 1), 1 .. m>> \in R
    BY <1>6 DEF StrictSubsetOrdering
  <2> QED
    BY <2>1, <2>2, <1>5
<1> QED
  BY <1>5, <1>6, <1>7

(* f is what a loop over an interval computes. *)
Runs(f, n, V, start, step) ==
  /\ f \in [0 .. n -> V]
  /\ f[0] = start
  /\ \A i \in 1 .. n : f[i] = step[<<i, f[i - 1]>>]

(* A loop over an interval computes something. *)
LEMMA LoopsCompute ==
  ASSUME NEW V, NEW start \in V, NEW step \in [Nat \X V -> V], NEW n \in Nat
  PROVE  \E f : Runs(f, n, V, start, step)
<1> DEFINE Good == {k \in Nat : \E f : Runs(f, k, V, start, step)}
<1>1. 0 \in Good
  <2>1. Runs([i \in 0 .. 0 |-> start], 0, V, start, step)
    BY DEF Runs
  <2> QED
    BY <2>1
<1>2. ASSUME NEW k \in Nat, k \in Good PROVE k + 1 \in Good
  <2>1. PICK f : Runs(f, k, V, start, step)
    BY <1>2
  <2> DEFINE g == [i \in 0 .. k + 1 |-> IF i = k + 1 THEN step[<<i, f[k]>>] ELSE f[i]]
  <2>2. step[<<k + 1, f[k]>>] \in V
    BY <2>1 DEF Runs
  <2>3. Runs(g, k + 1, V, start, step)
    BY <2>1, <2>2 DEF Runs
  <2> QED
    BY <2>3
<1> HIDE DEF Good
<1>3. n \in Good
  BY <1>1, <1>2, SetInduction
<1> QED
  BY <1>3 DEF Good

-----------------------------------------------------------------------------
(* The merge of the layers. *)

(* The loop over the layers keeps the last declaration so far. *)
LEMMA LaterWinsIsLast ==
  ASSUME NEW X, NEW layers \in Seq(X), NEW field
  PROVE  LaterWins(layers, field) = LastDeclared(layers, field)
<1> DEFINE n == Len(layers)
           V == {Nil} \cup {layers[i][field] : i \in 1 .. n}
           step == [p \in Nat \X V |-> IF p[1] \in 1 .. n
                                       THEN FirstOf(layers[p[1]][field], p[2]) ELSE Nil]
           Is(f) == f = [i \in 0 .. n |->
                           IF i = 0 THEN Nil ELSE FirstOf(layers[i][field], f[i - 1])]
           won == CHOOSE f : Is(f)
<1>1. n \in Nat /\ DOMAIN layers = 1 .. n
  OBVIOUS
<1>2. Is(won)
  <2>1. step \in [Nat \X V -> V]
    BY DEF FirstOf
  <2>2. Nil \in V
    OBVIOUS
  <2>3. PICK f : Runs(f, n, V, Nil, step)
    <3> HIDE DEF V, step
    <3> QED
      BY <1>1, <2>1, <2>2, LoopsCompute
  <2>4. \A i \in 0 .. n : f[i] = IF i = 0 THEN Nil ELSE FirstOf(layers[i][field], f[i - 1])
    <3>1. \A i \in 1 .. n : f[i - 1] \in V
      <4> HIDE DEF V
      <4> QED
        BY <2>3, <1>1 DEF Runs
    <3>2. ASSUME NEW i \in 1 .. n
          PROVE  step[<<i, f[i - 1]>>] = FirstOf(layers[i][field], f[i - 1])
      <4>1. <<i, f[i - 1]>> \in Nat \X V
        BY <1>1, <3>1
      <4> HIDE DEF V
      <4> QED
        BY <4>1
    <3>3. f[0] = Nil /\ \A i \in 1 .. n : f[i] = step[<<i, f[i - 1]>>]
      BY <2>3 DEF Runs
    <3> HIDE DEF V, step
    <3> TAKE i \in 0 .. n
    <3>4. i = 0 \/ (i \in 1 .. n /\ i # 0)
      BY <1>1
    <3> QED
      BY <3>2, <3>3, <3>4
  <2>5. Is(f)
    <3>1. DOMAIN f = 0 .. n /\ f = [i \in DOMAIN f |-> f[i]]
      BY <2>3 DEF Runs
    <3> QED
      BY <2>4, <3>1
  <2> QED
    BY <2>5
<1> HIDE DEF won
<1>3. LaterWins(layers, field) = won[n]
  BY DEF LaterWins, won
<1> DEFINE Declared(k) == {i \in 1 .. k : layers[i][field] # Nil}
           Latest(k) == IF Declared(k) = {} THEN Nil
                      ELSE layers[CHOOSE i \in Declared(k) : \A j \in Declared(k) : j <= i][field]
           Good == {k \in Nat : k <= n => won[k] = Latest(k)}
<1>4. 0 \in Good
  BY <1>1, <1>2
<1>5. ASSUME NEW k \in Nat, k \in Good, k + 1 <= n PROVE won[k + 1] = Latest(k + 1)
  <2>1. won[k + 1] = FirstOf(layers[k + 1][field], won[k])
    BY <1>1, <1>2, <1>5
  <2>2. CASE layers[k + 1][field] = Nil
    <3>1. Declared(k + 1) = Declared(k)
      BY <2>2
    <3> QED
      <4>1. won[k + 1] = won[k] /\ won[k] = Latest(k)
        BY <2>1, <2>2, <1>5, <1>1 DEF FirstOf
      <4> HIDE DEF Declared
      <4> QED
        BY <3>1, <4>1
  <2>3. CASE layers[k + 1][field] # Nil
    <3>1. k + 1 \in Declared(k + 1) /\ \A j \in Declared(k + 1) : j <= k + 1
      BY <2>3
    <3>2. (CHOOSE i \in Declared(k + 1) : \A j \in Declared(k + 1) : j <= i) = k + 1
      BY <3>1
    <3> QED
      BY <3>1, <3>2, <2>1, <2>3 DEF FirstOf
  <2> QED
    BY <2>2, <2>3
<1>6. n \in Good
  <2>1. \A k \in Nat : k \in Good => k + 1 \in Good
    <3> SUFFICES ASSUME NEW k \in Nat, k \in Good PROVE k + 1 \in Good
      OBVIOUS
    <3> HIDE DEF Latest
    <3> QED
      BY <1>1, <1>5
  <2> HIDE DEF Good
  <2> QED
    BY <1>1, <1>4, <2>1, SetInduction
<1> QED
  BY <1>1, <1>3, <1>6 DEF LastDeclared

(* x is in s before any y. *)
Leads(s, x, y) == \E p \in 1 .. Len(s) : s[p] = x /\ \A q \in 1 .. p : s[q] # y

(* The loop drops what it has seen: each element stays where it is first.  *)
LEMMA UniqueKeepsFirsts ==
  ASSUME NEW X, NEW s \in Seq(X)
  PROVE  /\ OrderedUnique(s) \in Seq(X)
         /\ ToSet(OrderedUnique(s)) = ToSet(s)
         /\ \A i, j \in DOMAIN OrderedUnique(s) :
              i < j => Leads(s, OrderedUnique(s)[i], OrderedUnique(s)[j])
<1> DEFINE n == Len(s)
           V == Seq(X)
           Before(i) == {s[j] : j \in 1 .. i - 1}
           step == [p \in Nat \X V |->
                      IF p[1] \in 1 .. n /\ s[p[1]] \notin Before(p[1])
                      THEN Append(p[2], s[p[1]]) ELSE p[2]]
           Is(f) == f = [i \in 0 .. n |->
                           IF i = 0 THEN <<>>
                           ELSE IF s[i] \in Before(i) THEN f[i - 1]
                           ELSE Append(f[i - 1], s[i])]
           out == CHOOSE f : Is(f)
<1>1. n \in Nat /\ DOMAIN s = 1 .. n /\ \A i \in 1 .. n : s[i] \in X
  OBVIOUS
<1>2. Is(out)
  <2>1. step \in [Nat \X V -> V]
    <3> SUFFICES ASSUME NEW p \in Nat \X V
                 PROVE  (IF p[1] \in 1 .. n /\ s[p[1]] \notin Before(p[1])
                         THEN Append(p[2], s[p[1]]) ELSE p[2]) \in V
      OBVIOUS
    <3> HIDE DEF Before
    <3> QED
      BY <1>1
  <2>2. PICK f : Runs(f, n, V, <<>>, step)
    <3>1. <<>> \in V
      OBVIOUS
    <3> HIDE DEF V, step
    <3> QED
      BY <1>1, <2>1, <3>1, LoopsCompute
  <2>3. f[0] = <<>> /\ (\A i \in 1 .. n : f[i] = step[<<i, f[i - 1]>>]) /\ f \in [0 .. n -> V]
    BY <2>2 DEF Runs
  <2>4. ASSUME NEW i \in 1 .. n
        PROVE  step[<<i, f[i - 1]>>] =
                 IF s[i] \in Before(i) THEN f[i - 1] ELSE Append(f[i - 1], s[i])
    <3>1. <<i, f[i - 1]>> \in Nat \X V
      <4>1. i \in Nat /\ i - 1 \in 0 .. n
        BY <1>1
      <4> HIDE DEF V
      <4> QED
        BY <4>1, <2>3
    <3> HIDE DEF V, Before
    <3> QED
      BY <3>1
  <2>5. ASSUME NEW i \in 0 .. n
        PROVE  f[i] = IF i = 0 THEN <<>>
                      ELSE IF s[i] \in Before(i) THEN f[i - 1]
                      ELSE Append(f[i - 1], s[i])
    <3> HIDE DEF V, step, Before
    <3>1. i = 0 \/ (i \in 1 .. n /\ i # 0)
      BY <1>1
    <3> QED
      BY <2>3, <2>4, <3>1
  <2>6. Is(f)
    <3>1. DOMAIN f = 0 .. n /\ f = [i \in DOMAIN f |-> f[i]]
      BY <2>3
    <3> HIDE DEF Before
    <3> QED
      BY <2>5, <3>1
  <2> QED
    BY <2>6
<1>3. OrderedUnique(s) = out[n]
  BY DEF OrderedUnique
<1>4. /\ out[0] = <<>>
      /\ \A k \in 1 .. n :
           out[k] = IF s[k] \in Before(k) THEN out[k - 1] ELSE Append(out[k - 1], s[k])
  <2> HIDE DEF Before, out
  <2>1. out[0] = <<>>
    BY <1>1, <1>2
  <2>2. ASSUME NEW k \in 1 .. n
        PROVE  out[k] = IF s[k] \in Before(k) THEN out[k - 1] ELSE Append(out[k - 1], s[k])
    <3>1. k \in 0 .. n /\ k # 0
      BY <1>1
    <3> QED
      BY <1>2, <3>1
  <2> QED
    BY <2>1, <2>2
<1> HIDE DEF out
<1> DEFINE Firsts(o, k) ==
             /\ o \in Seq(X)
             /\ \A x : x \in ToSet(o) <=> \E j \in 1 .. k : s[j] = x
             /\ \A i, j \in 1 .. Len(o) :
                  i < j => \E p \in 1 .. k : s[p] = o[i] /\ \A q \in 1 .. p : s[q] # o[j]
           Good == {k \in Nat : k <= n => Firsts(out[k], k)}
<1>5. 0 \in Good
  <2>1. <<>> \in Seq(X) /\ Len(<<>>) = 0 /\ ToSet(<<>>) = {}
    BY DEF ToSet
  <2>2. Firsts(<<>>, 0)
    BY <2>1
  <2>3. Firsts(out[0], 0)
    BY <1>4, <2>2
  <2> HIDE DEF Firsts
  <2> QED
    BY <2>3
<1>6. ASSUME NEW k \in Nat, Firsts(out[k], k), k + 1 <= n PROVE Firsts(out[k + 1], k + 1)
  <2> DEFINE o == out[k]
             x == s[k + 1]
  <2>1. k + 1 \in 1 .. n /\ (k + 1) - 1 = k /\ x \in X
    BY <1>1, <1>6
  <2>2. x \in Before(k + 1) <=> \E j \in 1 .. k : s[j] = x
    BY <2>1
  <2>3. out[k + 1] = IF x \in Before(k + 1) THEN o ELSE Append(o, x)
    BY <2>1, <1>4
  <2> HIDE DEF o, Before
  <2>4. Firsts(o, k)
    BY <1>6 DEF o
  <2>5. CASE \E j \in 1 .. k : s[j] = x
    <3>1. out[k + 1] = o
      BY <2>2, <2>3, <2>5
    <3>2. \A y : (\E j \in 1 .. k : s[j] = y) <=> (\E j \in 1 .. k + 1 : s[j] = y)
      BY <2>5
    <3>3. \A p \in 1 .. k : p \in 1 .. k + 1
      OBVIOUS
    <3>4. \A y : y \in ToSet(o) <=> \E j \in 1 .. k + 1 : s[j] = y
      BY <3>2, <2>4
    <3>5. \A i, j \in 1 .. Len(o) :
            i < j => \E p \in 1 .. k + 1 : s[p] = o[i] /\ \A q \in 1 .. p : s[q] # o[j]
      BY <3>3, <2>4
    <3> QED
      BY <3>1, <3>4, <3>5, <2>4
  <2>6. CASE ~(\E j \in 1 .. k : s[j] = x)
    <3> DEFINE a == Append(o, x)
    <3>1. out[k + 1] = a
      BY <2>2, <2>3, <2>6
    <3>2. /\ o \in Seq(X) /\ a \in Seq(X) /\ Len(a) = Len(o) + 1 /\ Len(o) \in Nat
          /\ a[Len(o) + 1] = x /\ \A i \in 1 .. Len(o) : a[i] = o[i]
      BY <2>1, <2>4
    <3>3. \A i \in 1 .. Len(o) : o[i] \in ToSet(o)
      BY <3>2 DEF ToSet
    <3> HIDE DEF a, x
    <3>4. \A y : y \in ToSet(a) <=> y \in ToSet(o) \/ y = x
      BY <3>2 DEF ToSet
    <3>5. \A y : y \in ToSet(a) <=> \E j \in 1 .. k + 1 : s[j] = y
      BY <3>4, <2>4 DEF x
    <3>6. ASSUME NEW i \in 1 .. Len(a), NEW j \in 1 .. Len(a), i < j
          PROVE  \E p \in 1 .. k + 1 : s[p] = a[i] /\ \A q \in 1 .. p : s[q] # a[j]
      <4>1. i \in 1 .. Len(o) /\ a[i] = o[i]
        BY <3>2, <3>6
      <4>2. CASE j \in 1 .. Len(o)
        <5>1. PICK p \in 1 .. k : s[p] = o[i] /\ \A q \in 1 .. p : s[q] # o[j]
          BY <2>4, <4>1, <4>2, <3>6
        <5> QED
          BY <5>1, <4>1, <4>2, <3>2
      <4>3. CASE j = Len(o) + 1
        <5>1. PICK p \in 1 .. k : s[p] = o[i]
          BY <2>4, <4>1, <3>3
        <5>2. \A q \in 1 .. p : s[q] # x
          BY <2>6
        <5> QED
          BY <5>1, <5>2, <4>1, <4>3, <3>2
      <4> QED
        BY <4>2, <4>3, <3>2
    <3>7. Firsts(a, k + 1)
      BY <3>2, <3>5, <3>6
    <3> HIDE DEF Firsts
    <3> QED
      BY <3>1, <3>7
  <2> QED
    BY <2>5, <2>6
<1>7. Firsts(out[n], n)
  <2>1. \A k \in Nat : k \in Good => k + 1 \in Good
    <3> SUFFICES ASSUME NEW k \in Nat, k \in Good PROVE k + 1 \in Good
      OBVIOUS
    <3> HIDE DEF Firsts
    <3> QED
      BY <1>1, <1>6
  <2>2. n \in Good
    <3> HIDE DEF Good
    <3> QED
      BY <1>1, <1>5, <2>1, SetInduction
  <2> QED
    BY <1>1, <2>2
<1>8. OrderedUnique(s) \in Seq(X) /\ DOMAIN OrderedUnique(s) = 1 .. Len(OrderedUnique(s))
  BY <1>3, <1>7
<1>9. ToSet(OrderedUnique(s)) = ToSet(s)
  <2>1. \A x : x \in ToSet(s) <=> \E j \in 1 .. n : s[j] = x
    BY <1>1 DEF ToSet
  <2> QED
    BY <2>1, <1>3, <1>7
<1>10. ASSUME NEW i \in DOMAIN OrderedUnique(s), NEW j \in DOMAIN OrderedUnique(s), i < j
       PROVE  Leads(s, OrderedUnique(s)[i], OrderedUnique(s)[j])
  <2>1. i \in 1 .. Len(out[n]) /\ j \in 1 .. Len(out[n])
    BY <1>3, <1>8, <1>10
  <2>2. \E p \in 1 .. n : s[p] = out[n][i] /\ \A q \in 1 .. p : s[q] # out[n][j]
    BY <1>7, <1>10, <2>1
  <2> QED
    BY <1>3, <2>2 DEF Leads
<1> HIDE DEF Firsts
<1> QED
  BY <1>8, <1>9, <1>10

(* The element at p of a concatenation is the k-th of list i, and what is  *)
(* before that in the lists is before p.                                   *)
IsFrom(flat, seqs, p, i, k) ==
  /\ flat[p] = seqs[i][k]
  /\ \A j \in 1 .. i - 1 : \A m \in 1 .. Len(seqs[j]) :
       \E q \in 1 .. p : flat[q] = seqs[j][m]
  /\ \A m \in 1 .. k : \E q \in 1 .. p : flat[q] = seqs[i][m]

Concatenates(flat, seqs) ==
  \A p \in 1 .. Len(flat) : \E i \in DOMAIN seqs : \E k \in 1 .. Len(seqs[i]) :
    IsFrom(flat, seqs, p, i, k)

(* The concatenation of lists keeps their order, the elements of a list    *)
(* after all those of the lists before it.                                 *)
LEMMA FlattenKeepsOrder ==
  ASSUME NEW X, NEW seqs \in Seq(Seq(X)), Len(seqs) >= 1
  PROVE  /\ FlattenSeq(seqs) \in Seq(X)
         /\ ToSet(FlattenSeq(seqs)) = UNION {ToSet(seqs[i]) : i \in DOMAIN seqs}
         /\ Concatenates(FlattenSeq(seqs), seqs)
<1> DEFINE n == Len(seqs)
           V == Seq(X)
           step == [p \in Nat \X V |->
                      IF p[1] + 1 \in 1 .. n THEN p[2] \o seqs[p[1] + 1] ELSE p[2]]
           Is(f) == f = [i \in 1 .. n |-> IF i = 1 THEN seqs[i] ELSE f[i - 1] \o seqs[i]]
           flat == CHOOSE f : Is(f)
<1>1. n \in Nat /\ n >= 1 /\ DOMAIN seqs = 1 .. n /\ \A i \in 1 .. n : seqs[i] \in Seq(X)
  OBVIOUS
<1>2. Is(flat)
  <2>1. step \in [Nat \X V -> V]
    <3> SUFFICES ASSUME NEW p \in Nat \X V
                 PROVE  (IF p[1] + 1 \in 1 .. n THEN p[2] \o seqs[p[1] + 1] ELSE p[2]) \in V
      OBVIOUS
    <3> QED
      BY <1>1
  <2>2. PICK f : Runs(f, n - 1, V, seqs[1], step)
    <3>1. seqs[1] \in V /\ n - 1 \in Nat
      BY <1>1
    <3> HIDE DEF V, step
    <3> QED
      BY <1>1, <2>1, <3>1, LoopsCompute
  <2>3. /\ f[0] = seqs[1] /\ (\A i \in 1 .. n - 1 : f[i] = step[<<i, f[i - 1]>>])
        /\ f \in [0 .. n - 1 -> V]
    BY <2>2 DEF Runs
  <2>4. ASSUME NEW i \in 1 .. n - 1
        PROVE  f[i] = f[i - 1] \o seqs[i + 1]
    <3>1. <<i, f[i - 1]>> \in Nat \X V
      <4>1. i \in Nat /\ i - 1 \in 0 .. n - 1
        BY <1>1
      <4> HIDE DEF V
      <4> QED
        BY <4>1, <2>3
    <3>2. i + 1 \in 1 .. n
      BY <1>1
    <3>3. step[<<i, f[i - 1]>>] = f[i - 1] \o seqs[i + 1]
      <4> HIDE DEF V
      <4> QED
        BY <3>1, <3>2
    <3> QED
      BY <2>3, <3>3
  <2> DEFINE g == [i \in 1 .. n |-> f[i - 1]]
  <2>5. ASSUME NEW i \in 1 .. n
        PROVE  g[i] = IF i = 1 THEN seqs[i] ELSE g[i - 1] \o seqs[i]
    <3>1. CASE i = 1
      BY <3>1, <2>3
    <3>2. CASE i # 1
      <4>1. i - 1 \in 1 .. n - 1 /\ i - 1 \in 1 .. n /\ (i - 1) + 1 = i
        BY <1>1, <3>2
      <4> QED
        BY <4>1, <3>2, <2>4
    <3> QED
      BY <3>1, <3>2
  <2>6. Is(g)
    <3>1. DOMAIN g = 1 .. n /\ g = [i \in DOMAIN g |-> g[i]]
      OBVIOUS
    <3> HIDE DEF g
    <3> QED
      BY <2>5, <3>1
  <2> HIDE DEF g
  <2> QED
    BY <2>6
<1>3. FlattenSeq(seqs) = flat[n]
  BY <1>1 DEF FlattenSeq
<1>4. /\ flat[1] = seqs[1]
      /\ \A k \in 1 .. n : k # 1 => flat[k] = flat[k - 1] \o seqs[k]
  <2> HIDE DEF flat
  <2>1. \A k \in 1 .. n : flat[k] = IF k = 1 THEN seqs[k] ELSE flat[k - 1] \o seqs[k]
    BY <1>2
  <2>2. 1 \in 1 .. n
    BY <1>1
  <2>3. flat[1] = seqs[1]
    BY <2>1, <2>2
  <2>4. \A k \in 1 .. n : k # 1 => flat[k] = flat[k - 1] \o seqs[k]
    BY <2>1
  <2> QED
    BY <2>3, <2>4
<1> HIDE DEF flat
<1> DEFINE At(o, p, i, k) ==
             /\ o[p] = seqs[i][k]
             /\ \A j \in 1 .. i - 1 : \A m \in 1 .. Len(seqs[j]) :
                  \E q \in 1 .. p : o[q] = seqs[j][m]
             /\ \A m \in 1 .. k : \E q \in 1 .. p : o[q] = seqs[i][m]
           Holds(o, k) ==
             /\ o \in Seq(X)
             /\ \A i \in 1 .. k : \A m \in 1 .. Len(seqs[i]) :
                  \E q \in 1 .. Len(o) : o[q] = seqs[i][m]
             /\ \A p \in 1 .. Len(o) : \E i \in 1 .. k : \E m \in 1 .. Len(seqs[i]) :
                  At(o, p, i, m)
           Good == {k \in Nat : k + 1 <= n => Holds(flat[k + 1], k + 1)}
<1>5. 0 \in Good
  <2>1. Holds(seqs[1], 1)
    <3>1. seqs[1] \in Seq(X)
      BY <1>1
    <3>2. \A m \in 1 .. Len(seqs[1]) : At(seqs[1], m, 1, m)
      OBVIOUS
    <3>3. \A i \in 1 .. 1 : i = 1
      OBVIOUS
    <3>4. 1 \in 1 .. 1
      OBVIOUS
    <3>5. \A i \in 1 .. 1 : \A m \in 1 .. Len(seqs[i]) :
            \E q \in 1 .. Len(seqs[1]) : seqs[1][q] = seqs[i][m]
      BY <3>3
    <3> HIDE DEF At
    <3>6. \A p \in 1 .. Len(seqs[1]) : \E i \in 1 .. 1 : \E m \in 1 .. Len(seqs[i]) :
            At(seqs[1], p, i, m)
      BY <3>2, <3>4
    <3> QED
      BY <3>1, <3>5, <3>6
  <2>2. flat[1] = seqs[1]
    BY <1>4
  <2> HIDE DEF Holds, At
  <2>3. Holds(flat[1], 1)
    BY <2>1, <2>2
  <2>4. 0 \in Nat /\ 0 + 1 = 1
    OBVIOUS
  <2> QED
    BY <2>3, <2>4
<1>6. ASSUME NEW k \in 1 .. n, Holds(flat[k], k), k + 1 <= n PROVE Holds(flat[k + 1], k + 1)
  <2> DEFINE o == flat[k]
             t == seqs[k + 1]
             a == o \o t
  <2>1. k + 1 \in 1 .. n /\ k + 1 # 1 /\ (k + 1) - 1 = k
    BY <1>1, <1>6
  <2>2. flat[k + 1] = a
    BY <1>4, <2>1
  <2>3. o \in Seq(X) /\ t \in Seq(X)
    BY <1>1, <1>6, <2>1
  <2>4. /\ a \in Seq(X) /\ Len(o) \in Nat /\ Len(t) \in Nat /\ Len(a) = Len(o) + Len(t)
        /\ \A p \in 1 .. Len(o) : p \in 1 .. Len(a) /\ a[p] = o[p]
        /\ \A r \in 1 .. Len(t) : Len(o) + r \in 1 .. Len(a) /\ a[Len(o) + r] = t[r]
    <3> HIDE DEF o, t
    <3> QED
      BY <2>3
  <2> HIDE DEF a, o
  <2>5. \A i \in 1 .. k + 1 : \A m \in 1 .. Len(seqs[i]) :
          \E q \in 1 .. Len(a) : a[q] = seqs[i][m]
    <3> SUFFICES ASSUME NEW i \in 1 .. k + 1, NEW m \in 1 .. Len(seqs[i])
                 PROVE  \E q \in 1 .. Len(a) : a[q] = seqs[i][m]
      OBVIOUS
    <3>1. CASE i \in 1 .. k
      <4>1. PICK q \in 1 .. Len(o) : o[q] = seqs[i][m]
        BY <1>6, <3>1 DEF o
      <4> QED
        BY <4>1, <2>4
    <3>2. CASE i = k + 1
      BY <3>2, <2>4
    <3> QED
      BY <3>1, <3>2, <1>1
  <2>6. ASSUME NEW p \in 1 .. Len(a)
        PROVE  \E i \in 1 .. k + 1 : \E m \in 1 .. Len(seqs[i]) : At(a, p, i, m)
    <3>1. CASE p \in 1 .. Len(o)
      <4>1. PICK i \in 1 .. k : \E m \in 1 .. Len(seqs[i]) : At(o, p, i, m)
        BY <1>6, <3>1 DEF o
      <4>2. PICK m \in 1 .. Len(seqs[i]) : At(o, p, i, m)
        BY <4>1
      <4>3. \A q \in 1 .. p : a[q] = o[q]
        BY <2>4, <3>1
      <4>4. a[p] = seqs[i][m]
        BY <4>2, <2>4, <3>1
      <4>5. \A j \in 1 .. i - 1 : \A x \in 1 .. Len(seqs[j]) :
              \E q \in 1 .. p : a[q] = seqs[j][x]
        BY <4>2, <4>3
      <4>6. \A x \in 1 .. m : \E q \in 1 .. p : a[q] = seqs[i][x]
        BY <4>2, <4>3
      <4>7. At(a, p, i, m)
        BY <4>4, <4>5, <4>6
      <4>8. i \in 1 .. k + 1
        OBVIOUS
      <4> HIDE DEF At
      <4> QED
        BY <4>7, <4>8
    <3>2. CASE p \in Len(o) + 1 .. Len(a)
      <4> DEFINE r == p - Len(o)
      <4>1. r \in 1 .. Len(t) /\ p = Len(o) + r
        BY <2>4, <3>2
      <4>2. a[p] = seqs[k + 1][r]
        BY <4>1, <2>4
      <4>3. ASSUME NEW j \in 1 .. (k + 1) - 1, NEW x \in 1 .. Len(seqs[j])
            PROVE  \E q \in 1 .. p : a[q] = seqs[j][x]
        <5>1. PICK q \in 1 .. Len(o) : o[q] = seqs[j][x]
          BY <1>6, <2>1 DEF o
        <5>2. q \in 1 .. p
          BY <4>1, <2>4
        <5> QED
          BY <5>1, <5>2, <2>4
      <4>4. ASSUME NEW x \in 1 .. r
            PROVE  \E q \in 1 .. p : a[q] = seqs[k + 1][x]
        <5>1. x \in 1 .. Len(t) /\ Len(o) + x \in 1 .. p
          BY <4>1, <2>4
        <5> QED
          BY <5>1, <2>4
      <4>5. At(a, p, k + 1, r)
        BY <4>2, <4>3, <4>4
      <4>6. k + 1 \in 1 .. k + 1 /\ r \in 1 .. Len(seqs[k + 1])
        BY <4>1, <2>1
      <4> HIDE DEF At, r
      <4> QED
        BY <4>5, <4>6
    <3> QED
      BY <3>1, <3>2, <2>4
  <2> HIDE DEF At
  <2> QED
    BY <2>2, <2>4, <2>5, <2>6
<1>7. Holds(flat[n], n)
  <2>1. \A k \in Nat : k \in Good => k + 1 \in Good
    <3> SUFFICES ASSUME NEW k \in Nat, k \in Good PROVE k + 1 \in Good
      OBVIOUS
    <3> HIDE DEF Holds
    <3> QED
      BY <1>1, <1>6
  <2>2. n - 1 \in Good
    <3>1. n - 1 \in Nat
      BY <1>1
    <3> HIDE DEF Good
    <3>2. Nat \subseteq Good
      BY <1>5, <2>1, SetInduction
    <3> QED
      BY <3>1, <3>2
  <2> HIDE DEF Holds
  <2> QED
    BY <1>1, <2>2
<1>8. FlattenSeq(seqs) \in Seq(X)
  BY <1>3, <1>7
<1>9. ToSet(FlattenSeq(seqs)) = UNION {ToSet(seqs[i]) : i \in DOMAIN seqs}
  <2> DEFINE o == flat[n]
  <2>1. \A x : x \in ToSet(o) <=> \E p \in 1 .. Len(o) : o[p] = x
    BY <1>7 DEF ToSet
  <2>2. \A x : x \in UNION {ToSet(seqs[i]) : i \in DOMAIN seqs}
          <=> \E i \in 1 .. n : \E m \in 1 .. Len(seqs[i]) : seqs[i][m] = x
    <3>1. \A i \in 1 .. n : DOMAIN seqs[i] = 1 .. Len(seqs[i])
      BY <1>1
    <3>2. \A i \in 1 .. n : \A x :
            x \in ToSet(seqs[i]) <=> \E m \in 1 .. Len(seqs[i]) : seqs[i][m] = x
      BY <3>1 DEF ToSet
    <3> QED
      BY <3>2, <1>1
  <2>3. \A p \in 1 .. Len(o) : \E i \in 1 .. n : \E m \in 1 .. Len(seqs[i]) : seqs[i][m] = o[p]
    BY <1>7
  <2>4. \A i \in 1 .. n : \A m \in 1 .. Len(seqs[i]) : \E p \in 1 .. Len(o) : o[p] = seqs[i][m]
    BY <1>7
  <2> HIDE DEF o
  <2>5. \A x : x \in ToSet(o) <=> x \in UNION {ToSet(seqs[i]) : i \in DOMAIN seqs}
    BY <2>1, <2>2, <2>3, <2>4
  <2> QED
    BY <2>5, <1>3 DEF o
<1>10. \A p \in 1 .. Len(flat[n]) : \E i \in 1 .. n : \E k \in 1 .. Len(seqs[i]) :
         IsFrom(flat[n], seqs, p, i, k)
  BY <1>7 DEF IsFrom
<1>11. Concatenates(FlattenSeq(seqs), seqs)
  BY <1>1, <1>3, <1>10 DEF Concatenates
<1> QED
  BY <1>8, <1>9, <1>11

(* What a chain of layers is. *)
IsChain(layers) ==
  /\ Len(layers) \in Nat \ {0}
  /\ \E X : layers \in Seq(X)
  /\ \A i \in 1 .. Len(layers) : layers[i].ext \in Seq(ToSet(layers[i].ext))

(* mergeCapabilitySpecs: the union, in the order of first mention. *)
LEMMA UnionIsUnion ==
  ASSUME NEW layers, IsChain(layers)
  PROVE  IsUnion(layers, Union(layers))
<1> DEFINE n == Len(layers)
           seqs == [i \in DOMAIN layers |-> layers[i].ext]
           X == UNION {ToSet(layers[i].ext) : i \in 1 .. n}
           flat == FlattenSeq(seqs)
           ext == OrderedUnique(flat)
<1>1. n \in Nat \ {0} /\ DOMAIN layers = 1 .. n
  BY DEF IsChain
<1>2. seqs \in Seq(Seq(X)) /\ Len(seqs) = n /\ DOMAIN seqs = 1 .. n
  <2>1. \A i \in 1 .. n : layers[i].ext \in Seq(X)
    <3> SUFFICES ASSUME NEW i \in 1 .. n PROVE layers[i].ext \in Seq(X)
      OBVIOUS
    <3>1. ToSet(layers[i].ext) \subseteq X
      OBVIOUS
    <3>2. layers[i].ext \in Seq(ToSet(layers[i].ext))
      BY DEF IsChain
    <3> HIDE DEF X
    <3> QED
      BY <3>1, <3>2
  <2> HIDE DEF X
  <2> QED
    BY <1>1, <2>1
<1>3. \A i \in 1 .. n : seqs[i] = layers[i].ext
  BY <1>1
<1> HIDE DEF X, seqs
<1>4. /\ flat \in Seq(X)
      /\ ToSet(flat) = UNION {ToSet(seqs[i]) : i \in DOMAIN seqs}
      /\ Concatenates(flat, seqs)
  <2>1. Len(seqs) >= 1 /\ seqs \in Seq(Seq(X))
    BY <1>1, <1>2
  <2> HIDE DEF n
  <2> QED
    BY <2>1, FlattenKeepsOrder
<1> HIDE DEF flat
<1>5. /\ ext \in Seq(X)
      /\ ToSet(ext) = ToSet(flat)
      /\ \A i, j \in DOMAIN ext : i < j => Leads(flat, ext[i], ext[j])
  BY <1>4, UniqueKeepsFirsts
<1> HIDE DEF ext
<1>6. ToSet(ext) = UNION {ToSet(layers[i].ext) : i \in DOMAIN layers}
  <2>1. UNION {ToSet(seqs[i]) : i \in 1 .. n} = UNION {ToSet(layers[i].ext) : i \in 1 .. n}
    BY <1>3
  <2> QED
    BY <1>1, <1>2, <1>4, <1>5, <2>1
<1>7. ASSUME NEW x, NEW y, Leads(flat, x, y) PROVE Precedes(layers, x, y)
  <2>1. PICK p \in 1 .. Len(flat) : flat[p] = x /\ \A q \in 1 .. p : flat[q] # y
    BY <1>7 DEF Leads
  <2>2. PICK i \in DOMAIN seqs : \E k \in 1 .. Len(seqs[i]) : IsFrom(flat, seqs, p, i, k)
    BY <1>4, <2>1 DEF Concatenates
  <2>3. PICK k \in 1 .. Len(seqs[i]) : IsFrom(flat, seqs, p, i, k)
    BY <2>2
  <2>4. i \in 1 .. n /\ seqs[i] = layers[i].ext /\ layers[i].ext[k] = x
    BY <1>2, <1>3, <2>1, <2>3 DEF IsFrom
  <2>5. Contains(layers[i].ext, x)
    BY <2>3, <2>4 DEF Contains
  <2>6. \A j \in 1 .. i - 1 : ~Contains(layers[j].ext, y)
    <3> SUFFICES ASSUME NEW j \in 1 .. i - 1, NEW m \in 1 .. Len(layers[j].ext),
                        layers[j].ext[m] = y
                 PROVE  FALSE
      BY DEF Contains
    <3>1. j \in 1 .. n /\ seqs[j] = layers[j].ext /\ seqs[j] \in Seq(X)
      BY <1>1, <1>2, <1>3, <2>4
    <3>2. m \in 1 .. Len(seqs[j]) /\ seqs[j][m] = y
      BY <3>1
    <3>3. PICK q \in 1 .. p : flat[q] = seqs[j][m]
      BY <3>2, <2>3 DEF IsFrom
    <3> QED
      BY <3>2, <3>3, <2>1
  <2>7. ~Contains(SubSeq(layers[i].ext, 1, k), y)
    <3>1. layers[i].ext \in Seq(X) /\ k \in 1 .. Len(layers[i].ext)
      BY <1>2, <2>3, <2>4
    <3>2. /\ Len(SubSeq(layers[i].ext, 1, k)) = k
          /\ \A m \in 1 .. k : SubSeq(layers[i].ext, 1, k)[m] = layers[i].ext[m]
      BY <3>1
    <3> DEFINE head == SubSeq(layers[i].ext, 1, k)
    <3> HIDE DEF head
    <3>3. Len(head) = k /\ \A m \in 1 .. k : head[m] = seqs[i][m]
      BY <3>2, <2>4 DEF head
    <3>4. \A m \in 1 .. k : \E q \in 1 .. p : flat[q] = seqs[i][m]
      BY <2>3 DEF IsFrom
    <3>5. \A m \in 1 .. k : head[m] # y
      BY <3>3, <3>4, <2>1
    <3> QED
      BY <3>3, <3>5 DEF Contains, head
  <2>8. k \in DOMAIN layers[i].ext
    BY <1>2, <2>3, <2>4
  <2> QED
    BY <1>1, <2>4, <2>5, <2>6, <2>7, <2>8 DEF Precedes
<1>8. Union(layers) = ext
  BY DEF Union, ext, flat, seqs
<1> QED
  BY <1>5, <1>6, <1>7, <1>8 DEF IsUnion

(* mergeDefinitionLayers and mapYamlToDefinition: what is answered.        *)
LEMMA DefinitionDescribes ==
  ASSUME NEW layers, IsChain(layers)
  PROVE  /\ Complete(layers) =>
              /\ Definition(layers) \notin {NotFound, Invalid}
              /\ Describes(layers, Definition(layers))
         /\ ~Complete(layers) => Definition(layers) = Invalid
         /\ Definition(layers) # Awaited
<1>1. \A field : LaterWins(layers, field) = LastDeclared(layers, field)
  BY LaterWinsIsLast DEF IsChain
<1>2. IsUnion(layers, Union(layers))
  BY UnionIsUnion
<1>3. \A m, x, e, t : LET r == [model |-> m, ext |-> x, engine |-> e, mode |-> t]
                      IN r \notin {NotFound, Invalid, Awaited}
  <2> SUFFICES ASSUME NEW m, NEW x, NEW e, NEW t,
                      NEW r, r = [model |-> m, ext |-> x, engine |-> e, mode |-> t]
               PROVE  r \notin {NotFound, Invalid, Awaited}
    OBVIOUS
  <2>1. "model" \in DOMAIN r
    OBVIOUS
  <2>2. \A s \in {NotFound, Invalid, Awaited} : "model" \notin DOMAIN s
    BY DEF NotFound, Invalid, Awaited
  <2> QED
    BY <2>1, <2>2
<1>4. Invalid # Awaited
  <2>1. "error" \in DOMAIN Invalid /\ "error" \notin DOMAIN Awaited
    BY DEF Invalid, Awaited
  <2> QED
    BY <2>1
<1>5. CASE Complete(layers)
  <2>1. Definition(layers) =
          [model |-> LastDeclared(layers, "model"), ext |-> Union(layers),
           engine |-> LastDeclared(layers, "engine"),
           mode |-> FirstOf(LastDeclared(layers, "mode"), LastDeclared(layers, "toolMode"))]
    BY <1>1, <1>5 DEF Complete, Definition, EffectiveSpec
  <2>2. Describes(layers, Definition(layers))
    BY <1>2, <2>1 DEF Describes
  <2> QED
    BY <1>3, <1>5, <2>1, <2>2
<1>6. CASE ~Complete(layers)
  BY <1>1, <1>4, <1>6 DEF Complete, Definition
<1> QED
  BY <1>5, <1>6

-----------------------------------------------------------------------------
(* The chain of files.  F(0) is the agent, F(n + 1) what F(n) refers to.   *)

(* What the schema accepts. *)
Layers == {c \in UNION {Contents[f] : f \in Files} : Readable(c)}

IsDisk(d) ==
  /\ d \in [Files -> UNION {Contents[f] : f \in Files}]
  /\ \A f \in Files : d[f] \in Contents[f]

NextFile(d, opts, from, first) ==
  LET ref == IF from = Nil \/ ~Readable(d[from]) THEN Nil
             ELSE IF first THEN FirstOf(opts.familyRef, d[from].extends)
             ELSE d[from].extends
  IN IF ref = Nil THEN Nil ELSE LayerFile(from, ref)

(* A layer has a list of extensions and refers to files. *)
LEMMA LayersRefer ==
  ASSUME NEW c \in Layers
  PROVE  /\ c.ext \in Seq(ToSet(c.ext))
         /\ c.extends \in Refs \cup {Nil} /\ c.root \in Refs \cup {Nil}
         /\ Readable(c)
BY ContentsAssumption DEF Layers

(* What is on a disk and can be read is a layer.                           *)
LEMMA ReadableIsLayer ==
  ASSUME NEW d, IsDisk(d), NEW f \in Files, Readable(d[f])
  PROVE  d[f] \in Layers
BY DEF IsDisk, Layers

(* A file that is referred to is a file. *)
LEMMA ReferenceIsFile ==
  ASSUME NEW f \in Files, NEW r \in Refs PROVE LayerFile(f, r) \in Files /\ LayerFile(f, r) # Nil
BY FilesAssumption DEF LayerFile

(* The next file is a file, if there is one.                               *)
LEMMA NextFileIsFile ==
  ASSUME NEW d, IsDisk(d), NEW opts \in Requests, NEW from \in Files \cup {Nil}, NEW first
  PROVE  NextFile(d, opts, from, first) \in Files \cup {Nil}
<1>1. CASE from = Nil \/ ~Readable(d[from])
  BY <1>1 DEF NextFile
<1>2. CASE from # Nil /\ Readable(d[from])
  <2>1. from \in Files /\ d[from] \in Layers
    BY <1>2, ReadableIsLayer
  <2>2. d[from].extends \in Refs \cup {Nil} /\ opts.familyRef \in Refs \cup {Nil}
    BY <2>1, LayersRefer, FilesAssumption
  <2> QED
    BY <1>2, <2>1, <2>2, ReferenceIsFile DEF NextFile, FirstOf
<1> QED
  BY <1>1, <1>2

FollowsUp(at, d, opts, n) ==
  /\ at \in [0 .. n -> Files \cup {Nil}]
  /\ at[0] = Agent
  /\ \A i \in 1 .. n : at[i] = NextFile(d, opts, at[i - 1], i = 1)

(* FileAt is a loop along the references. *)
LEMMA FileAtRuns ==
  ASSUME NEW d, IsDisk(d), NEW opts \in Requests, NEW n \in Nat
  PROVE  \E at : FollowsUp(at, d, opts, n) /\ FileAt(d, opts, n) = at[n]
<1> DEFINE V == Files \cup {Nil}
           step == [p \in Nat \X V |-> NextFile(d, opts, p[2], p[1] = 1)]
           Is(f) == f = [i \in 0 .. n |->
                           IF i = 0 THEN Agent
                           ELSE LET from == f[i - 1]
                                    ref  == IF from = Nil \/ ~Readable(d[from]) THEN Nil
                                            ELSE IF i = 1 THEN FirstOf(opts.familyRef, d[from].extends)
                                            ELSE d[from].extends
                                IN IF ref = Nil THEN Nil ELSE LayerFile(from, ref)]
           at == CHOOSE f : Is(f)
<1>1. PICK f : Runs(f, n, V, Agent, step)
  <2>1. step \in [Nat \X V -> V]
    BY NextFileIsFile
  <2>2. Agent \in V
    BY FilesAssumption
  <2> HIDE DEF V, step
  <2> QED
    BY <2>1, <2>2, LoopsCompute
<1>2. f \in [0 .. n -> V] /\ f[0] = Agent /\ \A i \in 1 .. n : f[i] = step[<<i, f[i - 1]>>]
  BY <1>1 DEF Runs
<1>3. ASSUME NEW i \in 1 .. n PROVE f[i] = NextFile(d, opts, f[i - 1], i = 1)
  <2>1. <<i, f[i - 1]>> \in Nat \X V
    <3>1. i \in Nat /\ i - 1 \in 0 .. n
      OBVIOUS
    <3> HIDE DEF V
    <3> QED
      BY <3>1, <1>2
  <2> HIDE DEF V
  <2> QED
    BY <2>1, <1>2
<1>4. Is(f)
  <2>1. DOMAIN f = 0 .. n /\ f = [i \in DOMAIN f |-> f[i]]
    BY <1>2
  <2>2. \A i \in 0 .. n : i = 0 \/ (i \in 1 .. n /\ i # 0)
    OBVIOUS
  <2>3. \A i \in 0 .. n :
          f[i] = IF i = 0 THEN Agent
                 ELSE LET from == f[i - 1]
                          ref  == IF from = Nil \/ ~Readable(d[from]) THEN Nil
                                  ELSE IF i = 1 THEN FirstOf(opts.familyRef, d[from].extends)
                                  ELSE d[from].extends
                      IN IF ref = Nil THEN Nil ELSE LayerFile(from, ref)
    BY <1>2, <1>3, <2>2 DEF NextFile
  <2> QED
    BY <2>1, <2>3
<1>5. Is(at)
  BY <1>4
<1>6. FileAt(d, opts, n) = at[n]
  BY DEF FileAt
<1> HIDE DEF at
<1>7. at[0] = Agent
  BY <1>5
<1>8. ASSUME NEW i \in 1 .. n PROVE at[i] = NextFile(d, opts, at[i - 1], i = 1)
  <2>1. i \in 0 .. n /\ i # 0
    OBVIOUS
  <2> QED
    BY <1>5, <2>1 DEF NextFile
<1>9. at \in [0 .. n -> V]
  <2> DEFINE Good == {k \in Nat : k <= n => at[k] \in V}
  <2>1. 0 \in Good
    BY <1>7, FilesAssumption
  <2>2. ASSUME NEW k \in Nat, k \in Good PROVE k + 1 \in Good
    <3> SUFFICES ASSUME k + 1 <= n PROVE at[k + 1] \in V
      OBVIOUS
    <3>1. k + 1 \in 1 .. n /\ (k + 1) - 1 = k /\ at[k] \in V
      BY <2>2
    <3>2. at[k + 1] = NextFile(d, opts, at[k], k + 1 = 1)
      BY <1>8, <3>1
    <3> QED
      BY <3>1, <3>2, NextFileIsFile
  <2> HIDE DEF Good
  <2>3. Nat \subseteq Good
    BY <2>1, <2>2, SetInduction
  <2>4. \A k \in 0 .. n : at[k] \in V
    BY <2>3 DEF Good
  <2>5. DOMAIN at = 0 .. n /\ at = [i \in DOMAIN at |-> at[i]]
    BY <1>5
  <2> HIDE DEF V
  <2> QED
    BY <2>4, <2>5
<1> QED
  BY <1>6, <1>7, <1>8, <1>9 DEF FollowsUp

(* The recursion of FileAt. *)
LEMMA FileAtSteps ==
  ASSUME NEW d, IsDisk(d), NEW opts \in Requests
  PROVE  /\ FileAt(d, opts, 0) = Agent
         /\ \A n \in Nat : /\ FileAt(d, opts, n) \in Files \cup {Nil}
                           /\ FileAt(d, opts, n + 1) =
                                NextFile(d, opts, FileAt(d, opts, n), n = 0)
<1>1. FileAt(d, opts, 0) = Agent
  <2>1. PICK at : FollowsUp(at, d, opts, 0) /\ FileAt(d, opts, 0) = at[0]
    BY FileAtRuns
  <2> QED
    BY <2>1 DEF FollowsUp
<1>2. ASSUME NEW n \in Nat
      PROVE  /\ FileAt(d, opts, n) \in Files \cup {Nil}
             /\ FileAt(d, opts, n + 1) = NextFile(d, opts, FileAt(d, opts, n), n = 0)
  <2>1. PICK at : FollowsUp(at, d, opts, n) /\ FileAt(d, opts, n) = at[n]
    BY FileAtRuns
  <2>2. PICK bt : FollowsUp(bt, d, opts, n + 1) /\ FileAt(d, opts, n + 1) = bt[n + 1]
    <3>1. n + 1 \in Nat
      OBVIOUS
    <3> QED
      BY <3>1, FileAtRuns
  <2> DEFINE Good == {k \in Nat : k <= n => at[k] = bt[k]}
  <2>3. 0 \in Good
    BY <2>1, <2>2 DEF FollowsUp
  <2>4. ASSUME NEW k \in Nat, k \in Good PROVE k + 1 \in Good
    <3> SUFFICES ASSUME k + 1 <= n PROVE at[k + 1] = bt[k + 1]
      OBVIOUS
    <3>1. k + 1 \in 1 .. n /\ k + 1 \in 1 .. n + 1 /\ (k + 1) - 1 = k /\ at[k] = bt[k]
      BY <2>4
    <3>2. at[k + 1] = NextFile(d, opts, at[k], k + 1 = 1)
      BY <2>1, <3>1 DEF FollowsUp
    <3>3. bt[k + 1] = NextFile(d, opts, bt[k], k + 1 = 1)
      BY <2>2, <3>1 DEF FollowsUp
    <3> QED
      BY <3>1, <3>2, <3>3
  <2>5. at[n] = bt[n]
    <3> HIDE DEF Good
    <3>1. n \in Good
      BY <2>3, <2>4, SetInduction
    <3> QED
      BY <3>1 DEF Good
  <2>6. bt[n + 1] = NextFile(d, opts, bt[n], n + 1 = 1)
    <3>1. n + 1 \in 1 .. n + 1 /\ (n + 1) - 1 = n
      OBVIOUS
    <3> QED
      BY <2>2, <3>1 DEF FollowsUp
  <2>7. (n + 1 = 1) = (n = 0)
    OBVIOUS
  <2>8. at[n] \in Files \cup {Nil}
    BY <2>1 DEF FollowsUp
  <2> QED
    BY <2>1, <2>2, <2>5, <2>6, <2>7, <2>8
<1> QED
  BY <1>1, <1>2

(* Behind the end of the chain there is nothing. *)
LEMMA NilStays ==
  ASSUME NEW d, IsDisk(d), NEW opts \in Requests, NEW n \in Nat, NEW m \in Nat,
         n <= m, FileAt(d, opts, n) = Nil
  PROVE  FileAt(d, opts, m) = Nil
<1> DEFINE Good == {k \in Nat : FileAt(d, opts, n + k) = Nil}
<1>1. 0 \in Good
  OBVIOUS
<1>2. ASSUME NEW k \in Nat, k \in Good PROVE k + 1 \in Good
  <2>1. n + k \in Nat /\ n + (k + 1) = (n + k) + 1
    OBVIOUS
  <2>2. FileAt(d, opts, n + k) = Nil
    BY <1>2
  <2>3. FileAt(d, opts, (n + k) + 1) = NextFile(d, opts, FileAt(d, opts, n + k), n + k = 0)
    BY <2>1, FileAtSteps
  <2>4. FileAt(d, opts, (n + k) + 1) = Nil
    BY <2>2, <2>3 DEF NextFile
  <2> QED
    BY <2>1, <2>4
<1> HIDE DEF Good
<1>3. m - n \in Good /\ n + (m - n) = m
  BY <1>1, <1>2, SetInduction
<1> QED
  BY <1>3 DEF Good

(* The chain up to file n + 1 depends on the files up to n only. *)
LEMMA ChainsAgree ==
  ASSUME NEW d, IsDisk(d), NEW e, IsDisk(e), NEW opts \in Requests, NEW n \in Nat,
         \A i \in 0 .. n : /\ FileAt(d, opts, i) # Nil
                           /\ e[FileAt(d, opts, i)] = d[FileAt(d, opts, i)]
  PROVE  \A i \in 0 .. n + 1 : FileAt(e, opts, i) = FileAt(d, opts, i)
<1> DEFINE Good == {k \in Nat : k <= n + 1 => FileAt(e, opts, k) = FileAt(d, opts, k)}
<1>1. 0 \in Good
  BY FileAtSteps
<1>2. ASSUME NEW k \in Nat, k \in Good PROVE k + 1 \in Good
  <2> SUFFICES ASSUME k + 1 <= n + 1 PROVE FileAt(e, opts, k + 1) = FileAt(d, opts, k + 1)
    OBVIOUS
  <2> DEFINE f == FileAt(d, opts, k)
  <2>1. k \in 0 .. n /\ FileAt(e, opts, k) = f
    BY <1>2
  <2>2. f # Nil /\ e[f] = d[f]
    BY <2>1
  <2>3. FileAt(d, opts, k + 1) = NextFile(d, opts, f, k = 0)
    BY FileAtSteps
  <2>4. FileAt(e, opts, k + 1) = NextFile(e, opts, f, k = 0)
    BY <2>1, FileAtSteps
  <2> HIDE DEF f
  <2>5. NextFile(e, opts, f, k = 0) = NextFile(d, opts, f, k = 0)
    BY <2>2 DEF NextFile
  <2> QED
    BY <2>3, <2>4, <2>5
<1> HIDE DEF Good
<1>3. Nat \subseteq Good
  BY <1>1, <1>2, SetInduction
<1> QED
  BY <1>3 DEF Good

-----------------------------------------------------------------------------
(* When there is a chain. *)

(* The image of a set has no more elements than the set, and as many if no *)
(* two are the same.                                                       *)
LEMMA ImageCount ==
  ASSUME NEW A, IsFiniteSet(A), NEW f, NEW T, T = {f[a] : a \in A}
  PROVE  /\ IsFiniteSet(T)
         /\ Cardinality(T) <= Cardinality(A)
         /\ (\A a, b \in A : f[a] = f[b] => a = b) => Cardinality(T) = Cardinality(A)
<1> DEFINE g == [a \in A |-> f[a]]
<1>1. g \in [A -> T] /\ \A t \in T : \E a \in A : g[a] = t
  OBVIOUS
<1>2. g \in Surjection(A, T)
  BY <1>1 DEF Surjection
<1>3. (\A a, b \in A : f[a] = f[b] => a = b) => g \in Injection(A, T)
  BY <1>1 DEF Injection, IsInjective
<1> HIDE DEF g
<1> QED
  BY <1>2, <1>3, FS_Surjection

(* The files 0 .. n are the beginning of a chain. *)
Begins(d, opts, n) ==
  /\ \A i \in 0 .. n : /\ FileAt(d, opts, i) # Nil
                       /\ Readable(d[FileAt(d, opts, i)])
                       /\ FileAt(d, opts, i) # RootOf(d, opts)
  /\ \A i, j \in 0 .. n : FileAt(d, opts, i) = FileAt(d, opts, j) => i = j
  /\ RootOf(d, opts) # Nil => Readable(d[RootOf(d, opts)])

(* The beginning of a chain has as many files as steps. *)
LEMMA BeginsCount ==
  ASSUME NEW d, IsDisk(d), NEW opts \in Requests, NEW n \in Nat, Begins(d, opts, n)
  PROVE  /\ IsFiniteSet({FileAt(d, opts, i) : i \in 0 .. n})
         /\ Cardinality({FileAt(d, opts, i) : i \in 0 .. n}) = n + 1
<1> DEFINE f == [i \in 0 .. n |-> FileAt(d, opts, i)]
<1>1. IsFiniteSet(0 .. n) /\ Cardinality(0 .. n) = n + 1
  BY FS_Interval
<1>2. \A i, j \in 0 .. n : f[i] = f[j] => i = j
  BY DEF Begins
<1> DEFINE T == {FileAt(d, opts, i) : i \in 0 .. n}
<1>3. T = {f[i] : i \in 0 .. n}
  OBVIOUS
<1> HIDE DEF f, T
<1>4. IsFiniteSet(T) /\ Cardinality(T) = n + 1
  BY <1>1, <1>2, <1>3, ImageCount
<1> QED
  BY <1>4 DEF T

(* A beginning that nothing follows is the chain. *)
LEMMA ChainEnds ==
  ASSUME NEW d, IsDisk(d), NEW opts \in Requests, NEW n \in 0 .. MaxLayerDepth,
         Begins(d, opts, n), FileAt(d, opts, n + 1) = Nil
  PROVE  HasChain(d, opts) /\ Cardinality(FamilyFiles(d, opts)) = n + 1
<1>1. n \in Nat /\ n + 1 \in Nat /\ MaxLayerDepth \in Nat
  BY FilesAssumption
<1>2. FamilyFiles(d, opts) = {FileAt(d, opts, i) : i \in 0 .. n}
  <2>1. \A i \in 0 .. MaxLayerDepth : i \in 0 .. n \/ FileAt(d, opts, i) = Nil
    <3> SUFFICES ASSUME NEW i \in 0 .. MaxLayerDepth, i \notin 0 .. n
                 PROVE  FileAt(d, opts, i) = Nil
      OBVIOUS
    <3>1. i \in Nat /\ n + 1 <= i
      BY <1>1
    <3> QED
      BY <1>1, <3>1, NilStays
  <2>2. \A i \in 0 .. n : i \in 0 .. MaxLayerDepth /\ FileAt(d, opts, i) # Nil
    BY <1>1 DEF Begins
  <2> QED
    BY <2>1, <2>2 DEF FamilyFiles
<1>3. Cardinality(FamilyFiles(d, opts)) = n + 1
  BY <1>1, <1>2, BeginsCount
<1>4. 0 \in 0 .. n /\ FileAt(d, opts, 0) = Agent
  BY <1>1, FileAtSteps
<1>5. \A f \in FamilyFiles(d, opts) : Readable(d[f]) /\ f # RootOf(d, opts)
  BY <1>2 DEF Begins
<1>6. Readable(d[Agent]) /\ (RootOf(d, opts) # Nil => Readable(d[RootOf(d, opts)]))
  BY <1>4 DEF Begins
<1>7. FileAt(d, opts, Cardinality(FamilyFiles(d, opts))) = Nil
  BY <1>3
<1> QED
  BY <1>3, <1>5, <1>6, <1>7 DEF HasChain

(* One that is followed by a file more than the depth allows is none. *)
LEMMA ChainTooDeep ==
  ASSUME NEW d, IsDisk(d), NEW opts \in Requests,
         Begins(d, opts, MaxLayerDepth), FileAt(d, opts, MaxLayerDepth + 1) # Nil
  PROVE  ~HasChain(d, opts)
<1>1. MaxLayerDepth \in Nat
  BY FilesAssumption
<1>2. FamilyFiles(d, opts) = {FileAt(d, opts, i) : i \in 0 .. MaxLayerDepth}
  BY DEF FamilyFiles, Begins
<1>3. Cardinality(FamilyFiles(d, opts)) = MaxLayerDepth + 1
  BY <1>1, <1>2, BeginsCount
<1> QED
  BY <1>3 DEF HasChain

(* One that comes back to a file it has, or to the root, is none. *)
LEMMA ChainRevisits ==
  ASSUME NEW d, IsDisk(d), NEW opts \in Requests, NEW n \in Nat, n < MaxLayerDepth,
         FileAt(d, opts, n + 1) # Nil,
         \/ FileAt(d, opts, n + 1) = RootOf(d, opts)
         \/ \E j \in 0 .. n : FileAt(d, opts, n + 1) = FileAt(d, opts, j)
  PROVE  ~HasChain(d, opts)
<1>1. MaxLayerDepth \in Nat /\ n + 1 \in 0 .. MaxLayerDepth
  BY FilesAssumption
<1>2. FileAt(d, opts, n + 1) \in FamilyFiles(d, opts)
  BY <1>1 DEF FamilyFiles
<1>3. CASE FileAt(d, opts, n + 1) = RootOf(d, opts)
  BY <1>2, <1>3 DEF HasChain
<1>4. ASSUME NEW j \in 0 .. n, FileAt(d, opts, n + 1) = FileAt(d, opts, j), HasChain(d, opts)
      PROVE  FALSE
  <2> DEFINE S == FamilyFiles(d, opts)
             C == Cardinality(S)
  <2>1. IsFiniteSet(S)
    <3> DEFINE f == [i \in 0 .. MaxLayerDepth |-> FileAt(d, opts, i)]
               T == {FileAt(d, opts, i) : i \in 0 .. MaxLayerDepth}
    <3>1. IsFiniteSet(0 .. MaxLayerDepth)
      BY <1>1, FS_Interval
    <3>2. T = {f[i] : i \in 0 .. MaxLayerDepth}
      OBVIOUS
    <3>3. FamilyFiles(d, opts) \subseteq T
      BY DEF FamilyFiles
    <3> HIDE DEF f, T
    <3>4. IsFiniteSet(T)
      BY <3>1, <3>2, ImageCount
    <3> QED
      BY <3>3, <3>4, FS_Subset
  <2>2. C \in Nat /\ FileAt(d, opts, C) = Nil
    BY <2>1, <1>4, FS_CardinalityType DEF HasChain
  <2>3. \A i \in Nat : FileAt(d, opts, i) # Nil => i < C
    <3> SUFFICES ASSUME NEW i \in Nat, FileAt(d, opts, i) # Nil, C <= i PROVE FALSE
      BY <2>2
    <3> QED
      BY <2>2, NilStays
  <2> HIDE DEF C
  <2>4. n + 1 < C
    BY <2>3
  <2> DEFINE A == (0 .. C - 1) \ {n + 1}
             f == [i \in A |-> FileAt(d, opts, i)]
             T == {f[a] : a \in A}
  <2>5. IsFiniteSet(A) /\ Cardinality(A) = C - 1
    <3>1. IsFiniteSet(0 .. C - 1) /\ Cardinality(0 .. C - 1) = C
      BY <2>2, <2>4, FS_Interval
    <3>2. n + 1 \in 0 .. C - 1
      BY <2>2, <2>4
    <3> DEFINE I == 0 .. C - 1
               x == n + 1
    <3> HIDE DEF A, I, x
    <3>4. IsFiniteSet(I) /\ Cardinality(I) = C /\ x \in I
      BY <3>1, <3>2 DEF I, x
    <3>5. IsFiniteSet(I \ {x}) /\ Cardinality(I \ {x}) = Cardinality(I) - 1
      BY <3>4, FS_RemoveElement
    <3>6. A = I \ {x}
      BY DEF A, I, x
    <3> QED
      BY <3>4, <3>5, <3>6
  <2>6. S \subseteq T
    <3> SUFFICES ASSUME NEW i \in 0 .. MaxLayerDepth, FileAt(d, opts, i) # Nil
                 PROVE  FileAt(d, opts, i) \in T
      BY DEF FamilyFiles
    <3>1. i \in 0 .. C - 1 /\ j \in A
      BY <2>2, <2>3, <2>4, <1>1
    <3>2. CASE i \in A
      BY <3>2
    <3>3. CASE i = n + 1
      <4>1. FileAt(d, opts, i) = f[j]
        BY <3>1, <3>3, <1>4
      <4> HIDE DEF f
      <4> QED
        BY <4>1, <3>1
    <3> QED
      BY <3>1, <3>2, <3>3
  <2>7. T = {f[a] : a \in A}
    OBVIOUS
  <2> HIDE DEF A, f, S, T
  <2>8. IsFiniteSet(T) /\ Cardinality(T) <= C - 1
    BY <2>5, <2>7, ImageCount
  <2>9. Cardinality(S) <= Cardinality(T) /\ Cardinality(T) \in Nat
    BY <2>6, <2>8, FS_Subset, FS_CardinalityType
  <2> QED
    BY <2>2, <2>8, <2>9 DEF C
<1> QED
  BY <1>3, <1>4

(* A file of the chain that makes no sense breaks it. *)
LEMMA ChainUnreadable ==
  ASSUME NEW d, NEW opts, NEW n \in 0 .. MaxLayerDepth,
         FileAt(d, opts, n) # Nil, ~Readable(d[FileAt(d, opts, n)])
  PROVE  ~HasChain(d, opts)
BY DEF HasChain, FamilyFiles

-----------------------------------------------------------------------------
(* What a load is, whatever is edited meanwhile. *)

Phases == {"idle", "agent", "root", "family", "loaded", "failed"}

Results == {Awaited, NotFound, Invalid} \cup {Definition(s) : s \in Seq(Layers)}

Loads == [phase : Phases, opts : Requests \cup {Nil}, agent : Layers \cup {Nil},
          base : Seq(Layers), families : Seq(Layers), visited : SUBSET Files,
          next : Files \cup {Nil}, result : Results]

(* A load counts the files it has visited: one for each layer, and while   *)
(* it reads a root or a family one for that.                               *)
LoadOK(l) ==
  /\ l \in Loads
  /\ IsFiniteSet(l.visited)
  /\ Len(l.base) <= 1 /\ Len(l.families) <= MaxLayerDepth
  /\ l.phase = "idle" => l = Idle
  /\ l.phase # "idle" => l.opts \in Requests
  /\ Reading(l) => l.next \in l.visited /\ l.result = Awaited
  /\ l.phase = "agent" => /\ l.base = <<>> /\ l.families = <<>>
                          /\ l.visited = {Agent} /\ l.next = Agent
  /\ l.phase = "root" => /\ l.base = <<>> /\ l.families = <<>> /\ l.agent \in Layers
                         /\ Cardinality(l.visited) = 2
  /\ l.phase = "family" => /\ l.agent \in Layers /\ Len(l.families) < MaxLayerDepth
                           /\ Cardinality(l.visited) = Len(l.base) + Len(l.families) + 2
  /\ l.phase = "loaded" => /\ l.agent \in Layers
                           /\ Cardinality(l.visited) = Len(l.base) + Len(l.families) + 1
  /\ l.phase \in {"loaded", "failed"} => l.result # Awaited

(* The two errors are results, and not the one that is awaited.            *)
LEMMA CodesAreResults ==
  /\ NotFound \in Results /\ Invalid \in Results /\ Awaited \in Results
  /\ NotFound # Awaited /\ Invalid # Awaited
<1>1. /\ "error" \in DOMAIN Invalid /\ "error" \in DOMAIN NotFound
      /\ "error" \notin DOMAIN Awaited
  BY DEF Invalid, NotFound, Awaited
<1>2. NotFound # Awaited /\ Invalid # Awaited
  BY <1>1
<1> QED
  BY <1>2 DEF Results

(* The chain of a load has a layer for each that it has read. *)
LEMMA ChainIsChain ==
  ASSUME NEW base \in Seq(Layers), NEW families \in Seq(Layers), NEW agent \in Layers,
         NEW l, l.base = base, l.families = families, l.agent = agent
  PROVE  /\ Chain(l) \in Seq(Layers)
         /\ Len(Chain(l)) = Len(base) + Len(families) + 1
         /\ IsChain(Chain(l))
<1> DEFINE r == Reverse(families)
           c == base \o r \o <<agent>>
<1>1. r \in Seq(Layers) /\ Len(r) = Len(families)
  <2>1. \A i \in 1 .. Len(families) : families[(Len(families) - i) + 1] \in Layers
    OBVIOUS
  <2>2. r = [i \in 1 .. Len(families) |-> families[(Len(families) - i) + 1]]
    BY DEF Reverse
  <2>3. Len(families) \in Nat
    OBVIOUS
  <2> HIDE DEF r
  <2> QED
    BY <2>1, <2>2, <2>3
<1>2. Chain(l) = c
  BY DEF Chain
<1> HIDE DEF r
<1>3. c \in Seq(Layers) /\ Len(c) = Len(base) + Len(families) + 1 /\ Len(c) # 0
  BY <1>1
<1> HIDE DEF c
<1>4. \A i \in 1 .. Len(c) : c[i] \in Layers
  BY <1>3
<1>5. \A i \in 1 .. Len(c) : c[i].ext \in Seq(ToSet(c[i].ext))
  BY <1>4, LayersRefer
<1>6. Len(c) \in Nat \ {0}
  BY <1>3
<1>7. IsChain(c)
  BY <1>3, <1>5, <1>6 DEF IsChain
<1> QED
  BY <1>2, <1>3, <1>7

(* A failed load is a load.                                                *)
LEMMA FailedIsOK ==
  ASSUME NEW l \in Loads, l.opts \in Requests, IsFiniteSet(l.visited),
         Len(l.base) <= 1, Len(l.families) <= MaxLayerDepth,
         NEW code \in {NotFound, Invalid}
  PROVE  LoadOK(Failed(l, code))
<1>1. code \in Results /\ code # Awaited
  BY CodesAreResults
<1>2. Failed(l, code) \in Loads
  BY <1>1 DEF Loads, Failed, Phases
<1> QED
  BY <1>1, <1>2 DEF LoadOK, Failed, Reading, Loads

(* A merged load is a load: what Definition gives is a result.             *)
LEMMA MergedIsOK ==
  ASSUME NEW l \in Loads, l.opts \in Requests, IsFiniteSet(l.visited), l.agent \in Layers,
         Len(l.base) <= 1, Len(l.families) <= MaxLayerDepth,
         Cardinality(l.visited) = Len(l.base) + Len(l.families) + 1
  PROVE  LoadOK(Merged(l))
<1> DEFINE d == Definition(Chain(l))
<1>1. Chain(l) \in Seq(Layers) /\ IsChain(Chain(l))
  BY ChainIsChain DEF Loads
<1>2. d \in Results /\ d # Awaited
  BY <1>1, DefinitionDescribes DEF Results
<1> HIDE DEF d
<1>3. CASE d = Invalid
  BY <1>3, FailedIsOK DEF Merged, d
<1>4. CASE d # Invalid
  <2> DEFINE m == [l EXCEPT !.phase = "loaded", !.result = d]
  <2>1. m \in Loads
    BY <1>2 DEF Loads, Phases
  <2>2. LoadOK(m)
    BY <2>1, <1>2 DEF LoadOK, Reading, Loads
  <2> QED
    BY <2>2, <1>4 DEF Merged, d
<1> QED
  BY <1>3, <1>4

(* The count of the files with the next one. *)
LEMMA VisitingCounts ==
  ASSUME NEW S, IsFiniteSet(S), NEW f, f \notin S, NEW n, Cardinality(S) = n
  PROVE  IsFiniteSet(S \cup {f}) /\ Cardinality(S \cup {f}) = n + 1
BY FS_AddElement

(* The loop over the families keeps the count of the files.                *)
LEMMA NextFamilyIsOK ==
  ASSUME NEW l \in Loads, l.opts \in Requests, IsFiniteSet(l.visited), l.agent \in Layers,
         Len(l.base) <= 1, Len(l.families) <= MaxLayerDepth, l.result = Awaited,
         Cardinality(l.visited) = Len(l.base) + Len(l.families) + 1,
         NEW from \in Files, NEW ref \in Refs \cup {Nil}
  PROVE  LoadOK(NextFamily(l, from, ref))
<1> DEFINE file == LayerFile(from, ref)
<1>1. CASE ref = Nil
  BY <1>1, MergedIsOK DEF NextFamily
<1>2. CASE ref # Nil /\ (TooDeep(l) \/ file \in l.visited)
  BY <1>2, FailedIsOK DEF NextFamily, Visiting, Revisits
<1>3. CASE ref # Nil /\ ~TooDeep(l) /\ file \notin l.visited
  <2> DEFINE v == [l EXCEPT !.phase = "family", !.next = file, !.visited = @ \cup {file}]
  <2>1. NextFamily(l, from, ref) = v
    BY <1>3 DEF NextFamily, Visiting, Revisits
  <2>2. file \in Files
    BY <1>3, ReferenceIsFile
  <2> HIDE DEF file
  <2>3. v \in Loads
    BY <2>2 DEF Loads, Phases
  <2>4. Len(l.families) < MaxLayerDepth
    BY <1>3, FilesAssumption DEF TooDeep, Loads
  <2>5. /\ IsFiniteSet(l.visited \cup {file})
        /\ Cardinality(l.visited \cup {file}) = (Len(l.base) + Len(l.families) + 1) + 1
    BY <1>3, VisitingCounts
  <2>6. Len(l.base) \in Nat /\ Len(l.families) \in Nat
    BY DEF Loads
  <2>7. LoadOK(v)
    <3>1. /\ v.phase = "family" /\ v.next = file /\ v.visited = l.visited \cup {file}
          /\ v.opts = l.opts /\ v.agent = l.agent /\ v.base = l.base
          /\ v.families = l.families /\ v.result = l.result
      BY DEF Loads
    <3> HIDE DEF v
    <3> QED
      BY <2>3, <2>4, <2>5, <2>6, <3>1 DEF LoadOK, Reading
  <2> QED
    BY <2>1, <2>7
<1> QED
  BY <1>1, <1>2, <1>3

(* A file that is read leaves a load. *)
LEMMA ReadKeepsLoads ==
  ASSUME NEW l, LoadOK(l), Reading(l), NEW c \in UNION {Contents[f] : f \in Files}
  PROVE  LoadOK(AfterRead(l, c))
<1>1. CASE ~Readable(c)
  <2>1. ReadError(c) \in {NotFound, Invalid}
    BY DEF ReadError
  <2>2. l \in Loads /\ l.opts \in Requests
    BY DEF LoadOK, Reading
  <2> QED
    BY <1>1, <2>1, <2>2, FailedIsOK DEF AfterRead, LoadOK
<1>2. CASE Readable(c) /\ l.phase = "agent"
  <2> DEFINE a == [l EXCEPT !.agent = c]
  <2>1. c \in Layers
    BY <1>2 DEF Layers
  <2>2. /\ c.extends \in Refs \cup {Nil} /\ c.root \in Refs \cup {Nil}
        /\ l.opts \in Requests /\ l.opts.rootRef \in Refs \cup {Nil}
        /\ l.opts.familyRef \in Refs \cup {Nil} /\ l.opts.rootConfig \in Refs \cup {Nil}
    BY <1>2, <2>1, LayersRefer, FilesAssumption DEF LoadOK
  <2>3. /\ a \in Loads /\ a.opts = l.opts /\ a.agent = c /\ a.base = <<>> /\ a.families = <<>>
        /\ a.visited = {Agent} /\ a.result = Awaited
    BY <1>2, <2>1 DEF LoadOK, Reading, Loads
  <2>4. IsFiniteSet({Agent}) /\ Cardinality({Agent}) = 1
    BY FS_Singleton
  <2>5. AfterRead(l, c) = AfterAgent(a)
    BY <1>2 DEF AfterRead
  <2>6. Agent \in Files /\ MaxLayerDepth \in Nat
    BY FilesAssumption
  <2> HIDE DEF a
  <2>7. /\ a \in Loads /\ a.opts \in Requests /\ IsFiniteSet(a.visited)
        /\ Len(a.base) <= 1 /\ Len(a.families) <= MaxLayerDepth
        /\ Cardinality(a.visited) = Len(a.base) + Len(a.families) + 1
    <3>1. Len(a.base) = 0 /\ Len(a.families) = 0 /\ Cardinality(a.visited) = 1
      BY <2>3, <2>4
    <3> QED
      BY <2>2, <2>3, <2>4, <2>6, <3>1
  <2>8. a.agent \in Layers /\ a.result = Awaited
    BY <2>1, <2>3
  <2>9. CASE RootRef(a) = Nil
    <3>1. FirstOf(a.opts.familyRef, a.agent.extends) \in Refs \cup {Nil}
      BY <2>2, <2>3 DEF FirstOf
    <3>2. LoadOK(NextFamily(a, Agent, FirstOf(a.opts.familyRef, a.agent.extends)))
      BY <2>6, <2>7, <2>8, <3>1, NextFamilyIsOK
    <3> QED
      BY <2>5, <2>9, <3>2 DEF AfterAgent, FirstFamily
  <2>10. CASE RootRef(a) # Nil
    <3> DEFINE file == LayerFile(Agent, RootRef(a))
               v == [a EXCEPT !.phase = "root", !.next = file, !.visited = @ \cup {file}]
    <3>1. RootRef(a) \in Refs
      BY <2>2, <2>3, <2>10 DEF RootRef, FirstOf
    <3>2. file \in Files
      BY <2>6, <3>1, ReferenceIsFile
    <3>3. AfterRead(l, c) = IF file \in a.visited THEN Failed(a, Invalid) ELSE v
      BY <2>5, <2>10 DEF AfterAgent, Visiting, Revisits
    <3> HIDE DEF file
    <3>4. LoadOK(Failed(a, Invalid))
      BY <2>7, FailedIsOK
    <3>5. ASSUME file \notin a.visited PROVE LoadOK(v)
      <4>1. IsFiniteSet(a.visited \cup {file}) /\ Cardinality(a.visited \cup {file}) = 1 + 1
        <5>1. IsFiniteSet(a.visited) /\ Cardinality(a.visited) = 1
          BY <2>3, <2>4
        <5> QED
          BY <5>1, <3>5, VisitingCounts
      <4>2. v \in Loads
        BY <2>3, <3>2 DEF Loads, Phases
      <4>3. /\ v.phase = "root" /\ v.next = file /\ v.visited = a.visited \cup {file}
            /\ v.opts = a.opts /\ v.agent = a.agent /\ v.base = a.base
            /\ v.families = a.families /\ v.result = a.result
        BY <2>3 DEF Loads
      <4> HIDE DEF v
      <4>4. IsFiniteSet(v.visited) /\ Cardinality(v.visited) = 2 /\ v.next \in v.visited
        BY <4>1, <4>3
      <4>5. /\ v.phase = "root" /\ v.base = <<>> /\ v.families = <<>> /\ v.agent \in Layers
            /\ v.opts \in Requests /\ v.result = Awaited
        BY <2>1, <2>2, <2>3, <4>3
      <4>6. Len(v.base) <= 1 /\ Len(v.families) <= MaxLayerDepth
        BY <2>6, <4>5
      <4> QED
        BY <4>2, <4>4, <4>5, <4>6 DEF LoadOK, Reading
    <3> QED
      BY <3>3, <3>4, <3>5
  <2> QED
    BY <2>9, <2>10
<1>3. CASE Readable(c) /\ l.phase = "root"
  <2> DEFINE b == [l EXCEPT !.base = <<c>>]
  <2>1. c \in Layers
    BY <1>3 DEF Layers
  <2>2. /\ b \in Loads /\ b.opts = l.opts /\ b.agent = l.agent /\ b.base = <<c>>
        /\ b.families = <<>> /\ b.visited = l.visited /\ b.result = Awaited
    <3>1. <<c>> \in Seq(Layers)
      BY <2>1
    <3> QED
      BY <1>3, <3>1 DEF LoadOK, Reading, Loads
  <2>3. /\ l.agent \in Layers /\ l.opts \in Requests /\ IsFiniteSet(l.visited)
        /\ Cardinality(l.visited) = 2
    BY <1>3 DEF LoadOK
  <2>4. FirstOf(b.opts.familyRef, b.agent.extends) \in Refs \cup {Nil}
    BY <2>2, <2>3, LayersRefer, FilesAssumption DEF FirstOf
  <2>5. AfterRead(l, c) = FirstFamily(b)
    BY <1>3 DEF AfterRead
  <2>6. Agent \in Files /\ MaxLayerDepth \in Nat
    BY FilesAssumption
  <2> HIDE DEF b
  <2>7. /\ b \in Loads /\ b.opts \in Requests /\ IsFiniteSet(b.visited)
        /\ Len(b.base) <= 1 /\ Len(b.families) <= MaxLayerDepth
        /\ Cardinality(b.visited) = Len(b.base) + Len(b.families) + 1
    <3>1. Len(b.base) = 1 /\ Len(b.families) = 0 /\ Cardinality(b.visited) = 2
      BY <2>2, <2>3
    <3> QED
      BY <2>2, <2>3, <2>6, <3>1
  <2>9. b.agent \in Layers /\ b.result = Awaited
    BY <2>2, <2>3
  <2>8. LoadOK(NextFamily(b, Agent, FirstOf(b.opts.familyRef, b.agent.extends)))
    BY <2>4, <2>6, <2>7, <2>9, NextFamilyIsOK
  <2> QED
    BY <2>5, <2>8 DEF FirstFamily
<1>4. CASE Readable(c) /\ l.phase = "family"
  <2> DEFINE m == [l EXCEPT !.families = Append(@, c)]
  <2>1. c \in Layers
    BY <1>4 DEF Layers
  <2>2. l \in Loads /\ l.families \in Seq(Layers)
    BY DEF LoadOK, Loads
  <2>3. /\ Append(l.families, c) \in Seq(Layers)
        /\ Len(Append(l.families, c)) = Len(l.families) + 1
        /\ Len(l.families) \in Nat
    BY <2>1, <2>2
  <2>4. /\ m \in Loads /\ m.opts = l.opts /\ m.agent = l.agent /\ m.base = l.base
        /\ m.families = Append(l.families, c) /\ m.visited = l.visited /\ m.result = Awaited
    BY <1>4, <2>2, <2>3 DEF LoadOK, Reading, Loads
  <2>5. /\ l.agent \in Layers /\ l.opts \in Requests /\ IsFiniteSet(l.visited)
        /\ Len(l.families) < MaxLayerDepth /\ Len(l.base) <= 1 /\ Len(l.base) \in Nat
        /\ Cardinality(l.visited) = Len(l.base) + Len(l.families) + 2
        /\ l.next \in Files
    BY <1>4 DEF LoadOK, Reading, Loads
  <2>6. c.extends \in Refs \cup {Nil}
    BY <2>1, LayersRefer
  <2>7. AfterRead(l, c) = NextFamily(m, l.next, c.extends)
    BY <1>4 DEF AfterRead
  <2>8. MaxLayerDepth \in Nat
    BY FilesAssumption
  <2> HIDE DEF m
  <2>9. /\ Len(m.families) <= MaxLayerDepth
        /\ Cardinality(m.visited) = Len(m.base) + Len(m.families) + 1
    <3>1. Len(m.families) = Len(l.families) + 1
      BY <2>3, <2>4
    <3>2. Cardinality(m.visited) = Len(m.base) + Len(l.families) + 2 /\ Len(m.base) \in Nat
      BY <2>4, <2>5
    <3>3. \A x, y \in Nat : x + (y + 1) + 1 = x + y + 2
      OBVIOUS
    <3>4. Len(l.families) \in Nat
      BY <2>3
    <3>5. Cardinality(m.visited) = Len(m.base) + (Len(l.families) + 1) + 1
      BY <3>2, <3>3, <3>4
    <3>6. Cardinality(m.visited) = Len(m.base) + Len(m.families) + 1
      BY <3>1, <3>5
    <3>7. Len(m.families) <= MaxLayerDepth
      BY <2>5, <2>8, <3>1, <3>4
    <3> QED
      BY <3>6, <3>7
  <2>10. LoadOK(NextFamily(m, l.next, c.extends))
    BY <2>4, <2>5, <2>6, <2>9, NextFamilyIsOK
  <2> QED
    BY <2>7, <2>10
<1> QED
  BY <1>1, <1>2, <1>3, <1>4 DEF Reading

-----------------------------------------------------------------------------
(* A load that reads the files of one disk. *)

BaseOf(d, opts) == IF RootOf(d, opts) = Nil THEN <<>> ELSE <<d[RootOf(d, opts)]>>

UpTo(d, opts, n) ==
  {FileAt(d, opts, i) : i \in 0 .. n} \cup ({RootOf(d, opts)} \ {Nil})

(* The load has the layers of the files up to n. *)
Gathered(l, d, n) ==
  /\ Begins(d, l.opts, n)
  /\ l.agent = d[Agent]
  /\ l.base = BaseOf(d, l.opts)
  /\ l.families = [i \in 1 .. n |-> d[FileAt(d, l.opts, i)]]

(* The load is where a load of the files d would be. *)
AtFamily(l, d, n) ==
  /\ n < MaxLayerDepth
  /\ Gathered(l, d, n)
  /\ l.next = FileAt(d, l.opts, n + 1)
  /\ l.next \notin UpTo(d, l.opts, n)
  /\ l.visited = UpTo(d, l.opts, n) \cup {l.next}

Follows(l, d) ==
  /\ l.phase = "root" => /\ Readable(d[Agent]) /\ l.agent = d[Agent]
                         /\ l.next = RootOf(d, l.opts) /\ l.next # Agent
                         /\ l.visited = {Agent, l.next}
  /\ l.phase = "family" => \E n \in Nat : AtFamily(l, d, n)
  /\ l.phase \in {"loaded", "failed"} => Answers(d, l.opts, l.result)

(* The root depends on the agent only. *)
LEMMA RootsAgree ==
  ASSUME NEW d, NEW e, NEW opts, d[Agent] = e[Agent]
  PROVE  RootOf(d, opts) = RootOf(e, opts)
BY DEF RootOf

(* A load that fails on a broken chain answers. *)
LEMMA FailedFollows ==
  ASSUME NEW l \in Loads, NEW d, ~HasChain(d, l.opts), NEW code \in {NotFound, Invalid}
  PROVE  Follows(Failed(l, code), d)
<1> DEFINE m == Failed(l, code)
<1>1. m.phase = "failed" /\ m.opts = l.opts /\ m.result = code
  BY DEF Failed, Loads
<1> HIDE DEF m
<1>2. Answers(d, m.opts, m.result)
  BY <1>1 DEF Answers
<1> QED
  BY <1>1, <1>2 DEF Follows, m

(* The chain that a load has gathered is that of the files. *)
LEMMA GatheredIsChain ==
  ASSUME NEW d, IsDisk(d), NEW l \in Loads, l.opts \in Requests, NEW n \in 0 .. MaxLayerDepth,
         Gathered(l, d, n), FileAt(d, l.opts, n + 1) = Nil
  PROVE  Chain(l) = ChainOf(d, l.opts)
<1> DEFINE F(i) == FileAt(d, l.opts, i)
           r == Reverse(l.families)
           t == [i \in 1 .. n + 1 |-> d[F((n + 1) - i)]]
<1>1. n \in Nat
  BY FilesAssumption
<1>2. Cardinality(FamilyFiles(d, l.opts)) = n + 1
  BY ChainEnds DEF Gathered
<1>3. ChainOf(d, l.opts) = BaseOf(d, l.opts) \o t
  BY <1>2 DEF ChainOf, BaseOf
<1>4. Len(l.families) = n /\ \A i \in 1 .. n : l.families[i] = d[F(i)]
  BY <1>1 DEF Gathered
<1>5. r = [i \in 1 .. n |-> d[F((n - i) + 1)]]
  <2>1. r = [i \in 1 .. n |-> l.families[(n - i) + 1]]
    BY <1>4 DEF Reverse
  <2>2. \A i \in 1 .. n : (n - i) + 1 \in 1 .. n
    BY <1>1
  <2>3. \A i \in 1 .. n : l.families[(n - i) + 1] = d[F((n - i) + 1)]
    BY <1>4, <2>2
  <2> HIDE DEF r, F
  <2> QED
    BY <2>1, <2>3
<1>6. l.agent = d[F(0)]
  BY FileAtSteps DEF Gathered
<1> HIDE DEF F
<1>7. r \o <<l.agent>> = t
  <2> DEFINE x == d[F(0)]
             S == {d[F(i)] : i \in 0 .. n}
  <2>1. r \in Seq(S) /\ Len(r) = n /\ <<x>> \in Seq(S)
    <3>1. x \in S
      BY <1>1
    <3>2. \A i \in 1 .. n : d[F((n - i) + 1)] \in S
      <4> SUFFICES ASSUME NEW i \in 1 .. n PROVE d[F((n - i) + 1)] \in S
        OBVIOUS
      <4>1. (n - i) + 1 \in 0 .. n
        BY <1>1
      <4> QED
        BY <4>1
    <3> HIDE DEF S, x, r
    <3> QED
      BY <1>1, <1>5, <3>1, <3>2
  <2>2. t \in Seq(S) /\ Len(t) = n + 1
    <3>1. \A i \in 1 .. n + 1 : d[F((n + 1) - i)] \in S
      <4> SUFFICES ASSUME NEW i \in 1 .. n + 1 PROVE d[F((n + 1) - i)] \in S
        OBVIOUS
      <4>1. (n + 1) - i \in 0 .. n
        BY <1>1
      <4> QED
        BY <4>1
    <3>2. n + 1 \in Nat
      BY <1>1
    <3> HIDE DEF S
    <3> QED
      BY <3>1, <3>2
  <2> DEFINE c == r \o <<x>>
  <2>3. c \in Seq(S) /\ Len(c) = n + 1
    <3> HIDE DEF r, x, S
    <3> QED
      BY <2>1, <1>1
  <2>4. \A i \in 1 .. n + 1 : c[i] = t[i]
    <3> SUFFICES ASSUME NEW i \in 1 .. n + 1 PROVE c[i] = t[i]
      OBVIOUS
    <3>1. CASE i \in 1 .. n
      <4>1. (n - i) + 1 = (n + 1) - i
        BY <1>1, <3>1
      <4>2. t[i] = d[F((n + 1) - i)] /\ r[i] = d[F((n - i) + 1)]
        BY <1>5, <3>1
      <4> HIDE DEF r, x, S, t
      <4>3. c[i] = r[i]
        BY <2>1, <3>1
      <4> QED
        BY <4>1, <4>2, <4>3
    <3>2. CASE i = n + 1
      <4>1. (n + 1) - i = 0
        BY <1>1, <3>2
      <4>2. t[i] = d[F((n + 1) - i)]
        OBVIOUS
      <4> HIDE DEF r, S, t
      <4>3. c[i] = x
        <5> HIDE DEF x
        <5> QED
          BY <2>1, <3>2, <1>1
      <4> QED
        BY <4>1, <4>2, <4>3
    <3>3. i \in 1 .. n \/ i = n + 1
      BY <1>1
    <3> HIDE DEF c, t
    <3> QED
      BY <3>1, <3>2, <3>3
  <2>5. c = t
    <3> HIDE DEF c, t, S
    <3> QED
      BY <2>2, <2>3, <2>4
  <2> HIDE DEF r, t
  <2> QED
    BY <2>5, <1>6
<1>8. l.base \in Seq(Layers) /\ l.base = BaseOf(d, l.opts)
  BY DEF Loads, Gathered
<1>9. Chain(l) = l.base \o r \o <<l.agent>>
  BY DEF Chain
<1>10. l.base \o r \o <<l.agent>> = l.base \o (r \o <<l.agent>>)
  <2>1. l.agent \in Layers \cup {Nil} /\ l.families \in Seq(Layers)
    BY DEF Loads
  <2>2. r \in Seq(Layers)
    <3>1. \A i \in 1 .. n : l.families[(Len(l.families) - i) + 1] \in Layers
      BY <2>1, <1>4
    <3>2. r = [i \in 1 .. n |-> l.families[(Len(l.families) - i) + 1]]
      BY <1>4 DEF Reverse
    <3> HIDE DEF r
    <3> QED
      BY <1>1, <3>1, <3>2
  <2> DEFINE X == Layers \cup {Nil}
  <2>3. l.base \in Seq(X) /\ r \in Seq(X) /\ <<l.agent>> \in Seq(X)
    <3>1. Layers \subseteq X
      OBVIOUS
    <3> HIDE DEF X, r
    <3> QED
      BY <1>8, <2>1, <2>2, <3>1 DEF X
  <2> DEFINE u == <<l.agent>>
             b == l.base
  <2> HIDE DEF X, r, t, u, b
  <2>4. b \in Seq(X) /\ r \in Seq(X) /\ u \in Seq(X)
    BY <2>3 DEF u, b
  <2>5. (b \o r) \o u = b \o (r \o u)
    BY <2>4, ConcatAssociative
  <2> QED
    BY <2>5 DEF u, b
<1> HIDE DEF r, t
<1> QED
  BY <1>3, <1>7, <1>8, <1>9, <1>10

(* The end of the chain is merged. *)
LEMMA MergedFollows ==
  ASSUME NEW d, IsDisk(d), NEW l \in Loads, l.opts \in Requests, NEW n \in 0 .. MaxLayerDepth,
         Gathered(l, d, n), FileAt(d, l.opts, n + 1) = Nil
  PROVE  Follows(Merged(l), d)
<1> DEFINE m == Merged(l)
           layers == Chain(l)
<1>1. HasChain(d, l.opts) /\ layers = ChainOf(d, l.opts)
  BY ChainEnds, GatheredIsChain DEF Gathered
<1>2. IsChain(layers)
  <2>1. 0 \in 0 .. n /\ FileAt(d, l.opts, 0) = Agent /\ Agent \in Files
    BY FileAtSteps, FilesAssumption
  <2>2. l.agent \in Layers
    BY <2>1, ReadableIsLayer DEF Gathered, Begins
  <2> QED
    BY <2>2, ChainIsChain DEF Loads
<1>3. /\ Complete(layers) => /\ Definition(layers) \notin {NotFound, Invalid}
                             /\ Describes(layers, Definition(layers))
      /\ ~Complete(layers) => Definition(layers) = Invalid
  BY <1>2, DefinitionDescribes
<1> HIDE DEF layers
<1>4. m.phase \in {"loaded", "failed"} /\ m.opts = l.opts /\ m.result = Definition(layers)
  BY DEF Merged, Failed, Loads, layers
<1> HIDE DEF m
<1>5. Answers(d, m.opts, m.result)
  BY <1>1, <1>3, <1>4 DEF Answers
<1> QED
  BY <1>4, <1>5 DEF Follows, m

(* The loop over the families. *)
LEMMA NextFamilyFollows ==
  ASSUME NEW d, IsDisk(d), NEW l \in Loads, l.opts \in Requests, NEW n \in 0 .. MaxLayerDepth,
         Gathered(l, d, n), l.visited = UpTo(d, l.opts, n),
         NEW ref \in Refs \cup {Nil},
         FileAt(d, l.opts, n) \in Files,
         FileAt(d, l.opts, n + 1) =
           IF ref = Nil THEN Nil ELSE LayerFile(FileAt(d, l.opts, n), ref)
  PROVE  Follows(NextFamily(l, FileAt(d, l.opts, n), ref), d)
<1> DEFINE from == FileAt(d, l.opts, n)
           file == LayerFile(from, ref)
<1>1. CASE ref = Nil
  BY <1>1, MergedFollows DEF NextFamily
<1>2. ASSUME ref # Nil
      PROVE  FileAt(d, l.opts, n + 1) = file /\ file # Nil
  BY <1>2, ReferenceIsFile
<1>3. n \in Nat /\ MaxLayerDepth \in Nat /\ Len(l.families) = n
  BY FilesAssumption DEF Gathered
<1>4. CASE ref # Nil /\ TooDeep(l)
  <2>1. n = MaxLayerDepth
    BY <1>3, <1>4 DEF TooDeep
  <2>2. ~HasChain(d, l.opts)
    BY <1>2, <1>4, <2>1, ChainTooDeep DEF Gathered
  <2> QED
    BY <1>4, <2>2, FailedFollows DEF NextFamily
<1>5. CASE ref # Nil /\ ~TooDeep(l) /\ file \in l.visited
  <2>1. n < MaxLayerDepth
    BY <1>3, <1>5 DEF TooDeep
  <2>2. \/ file = RootOf(d, l.opts)
        \/ \E j \in 0 .. n : file = FileAt(d, l.opts, j)
    BY <1>5 DEF UpTo
  <2> HIDE DEF file
  <2>3. ~HasChain(d, l.opts)
    BY <1>2, <1>3, <1>5, <2>1, <2>2, ChainRevisits
  <2> QED
    BY <1>5, <2>3, FailedFollows DEF NextFamily, Visiting, Revisits, file
<1>6. CASE ref # Nil /\ ~TooDeep(l) /\ file \notin l.visited
  <2> DEFINE v == [l EXCEPT !.phase = "family", !.next = file, !.visited = @ \cup {file}]
  <2>1. NextFamily(l, from, ref) = v
    BY <1>6 DEF NextFamily, Visiting, Revisits
  <2>2. n < MaxLayerDepth
    BY <1>3, <1>6 DEF TooDeep
  <2> HIDE DEF file
  <2>3. /\ v.phase = "family" /\ v.next = file /\ v.visited = l.visited \cup {file}
        /\ v.opts = l.opts /\ v.agent = l.agent /\ v.base = l.base
        /\ v.families = l.families
    BY DEF Loads
  <2> HIDE DEF v
  <2>4. Gathered(v, d, n)
    BY <2>3 DEF Gathered
  <2>5. AtFamily(v, d, n)
    BY <1>2, <1>6, <2>2, <2>3, <2>4 DEF AtFamily
  <2> QED
    BY <1>3, <2>1, <2>3, <2>5 DEF Follows
<1> QED
  BY <1>1, <1>4, <1>5, <1>6

(* A load of one disk goes on as one. *)
LEMMA ReadFollows ==
  ASSUME NEW d, IsDisk(d), NEW l, LoadOK(l), Reading(l), Follows(l, d)
  PROVE  Follows(AfterRead(l, d[l.next]), d)
<1> DEFINE c == d[l.next]
           opts == l.opts
<1>1. l \in Loads /\ opts \in Requests /\ l.next \in Files
  BY DEF LoadOK, Reading, Loads
<1>2. Agent \in Files /\ MaxLayerDepth \in Nat /\ FileAt(d, opts, 0) = Agent /\ 0 \in Nat
  BY <1>1, FileAtSteps, FilesAssumption
<1>3. ReadError(c) \in {NotFound, Invalid}
  BY DEF ReadError
<1>4. FileAt(d, opts, 1) = NextFile(d, opts, Agent, TRUE)
  <2>1. FileAt(d, opts, 0 + 1) = NextFile(d, opts, FileAt(d, opts, 0), 0 = 0)
    BY <1>1, <1>2, FileAtSteps
  <2>2. 0 + 1 = 1 /\ (0 = 0) = TRUE
    OBVIOUS
  <2>3. FileAt(d, opts, 1) = NextFile(d, opts, FileAt(d, opts, 0), TRUE)
    BY <2>1, <2>2
  <2> QED
    BY <1>2, <2>3
<1>5. ASSUME Readable(d[Agent])
      PROVE  /\ FileAt(d, opts, 0 + 1) =
                  IF FirstOf(opts.familyRef, d[Agent].extends) = Nil THEN Nil
                  ELSE LayerFile(FileAt(d, opts, 0), FirstOf(opts.familyRef, d[Agent].extends))
             /\ FirstOf(opts.familyRef, d[Agent].extends) \in Refs \cup {Nil}
  <2>1. Agent # Nil
    BY <1>2, FilesAssumption
  <2>2. d[Agent].extends \in Refs \cup {Nil} /\ opts.familyRef \in Refs \cup {Nil}
    BY <1>1, <1>2, <1>5, ReadableIsLayer, LayersRefer, FilesAssumption
  <2> QED
    BY <1>2, <1>4, <1>5, <2>1, <2>2 DEF NextFile, FirstOf
<1>6. ASSUME Readable(d[Agent]), RootOf(d, opts) # Agent,
             RootOf(d, opts) # Nil => Readable(d[RootOf(d, opts)])
      PROVE  Begins(d, opts, 0)
  <2>1. \A i \in 0 .. 0 : i = 0
    OBVIOUS
  <2>2. Agent # Nil
    BY <1>2, FilesAssumption
  <2> QED
    BY <1>2, <1>6, <2>1, <2>2 DEF Begins
<1>7. UpTo(d, opts, 0) = {Agent} \cup ({RootOf(d, opts)} \ {Nil})
  <2>1. \A i \in 0 .. 0 : i = 0
    OBVIOUS
  <2> QED
    BY <1>2, <2>1 DEF UpTo
<1>8. \A f : [i \in 1 .. 0 |-> f[i]] = <<>>
  OBVIOUS
<1>9. [i \in 1 .. 0 |-> d[FileAt(d, opts, i)]] = <<>>
  OBVIOUS
<1>10. CASE l.phase = "agent" /\ ~Readable(c)
  <2>1. ~HasChain(d, opts)
    BY <1>10 DEF HasChain, LoadOK
  <2> QED
    BY <1>1, <1>3, <1>10, <2>1, FailedFollows DEF AfterRead
<1>11. CASE l.phase = "agent" /\ Readable(c)
  <2> DEFINE a == [l EXCEPT !.agent = c]
  <2>1. l.next = Agent /\ c = d[Agent] /\ Readable(d[Agent])
    BY <1>11 DEF LoadOK
  <2>2. c \in Layers
    BY <1>2, <2>1, ReadableIsLayer
  <2>3. /\ a \in Loads /\ a.opts = opts /\ a.agent = d[Agent] /\ a.base = <<>>
        /\ a.families = <<>> /\ a.visited = {Agent} /\ a.result = Awaited
    BY <1>11, <2>1, <2>2 DEF LoadOK, Reading, Loads
  <2>4. AfterRead(l, c) = AfterAgent(a)
    BY <1>11 DEF AfterRead
  <2> HIDE DEF a
  <2>5. RootOf(d, opts) = IF RootRef(a) = Nil THEN Nil ELSE LayerFile(Agent, RootRef(a))
    BY <2>3 DEF RootOf, RootRef
  <2>6. RootRef(a) \in Refs \cup {Nil}
    BY <1>1, <2>1, <2>2, <2>3, LayersRefer, FilesAssumption DEF RootRef, FirstOf
  <2>7. CASE RootRef(a) = Nil
    <3>1. RootOf(d, opts) = Nil /\ Nil # Agent
      BY <2>5, <2>7, <1>2, FilesAssumption
    <3>2. Gathered(a, d, 0)
      BY <1>6, <1>9, <2>1, <2>3, <3>1 DEF Gathered, BaseOf
    <3>3. a.visited = UpTo(d, opts, 0)
      BY <1>7, <2>3, <3>1
    <3>4. 0 \in 0 .. MaxLayerDepth
      BY <1>2
    <3>5. Follows(NextFamily(a, FileAt(d, opts, 0), FirstOf(opts.familyRef, d[Agent].extends)), d)
      <4>1. /\ a \in Loads /\ a.opts = opts /\ FileAt(d, opts, 0) \in Files
            /\ opts \in Requests
        BY <1>1, <1>2, <2>3
      <4> QED
        BY <1>5, <2>1, <3>2, <3>3, <3>4, <4>1, NextFamilyFollows
    <3> QED
      BY <1>2, <2>3, <2>4, <2>7, <3>5 DEF AfterAgent, FirstFamily
  <2>8. CASE RootRef(a) # Nil
    <3> DEFINE file == LayerFile(Agent, RootRef(a))
               v == [a EXCEPT !.phase = "root", !.next = file, !.visited = @ \cup {file}]
    <3>1. file = RootOf(d, opts) /\ file \in Files
      BY <1>2, <2>5, <2>6, <2>8, ReferenceIsFile
    <3>2. AfterRead(l, c) = IF file \in a.visited THEN Failed(a, Invalid) ELSE v
      BY <2>4, <2>8 DEF AfterAgent, Visiting, Revisits
    <3> HIDE DEF file
    <3>3. CASE file = Agent
      <4>1. Agent \in FamilyFiles(d, opts)
        BY <1>2, FilesAssumption DEF FamilyFiles
      <4>2. ~HasChain(d, opts)
        BY <3>1, <3>3, <4>1 DEF HasChain
      <4> QED
        BY <2>3, <3>2, <3>3, <4>2, FailedFollows
    <3>4. CASE file # Agent
      <4>1. AfterRead(l, c) = v
        BY <2>3, <3>2, <3>4
      <4>2. /\ v.phase = "root" /\ v.next = file /\ v.visited = {Agent, file}
            /\ v.opts = opts /\ v.agent = d[Agent]
        BY <2>3 DEF Loads
      <4> HIDE DEF v
      <4>3. Follows(v, d)
        BY <2>1, <3>1, <3>4, <4>2 DEF Follows
      <4> QED
        BY <4>1, <4>3
    <3> QED
      BY <3>3, <3>4
  <2> QED
    BY <2>7, <2>8
<1>12. CASE l.phase = "root"
  <2>1. /\ Readable(d[Agent]) /\ l.agent = d[Agent] /\ l.next = RootOf(d, opts)
        /\ l.next # Agent /\ l.visited = {Agent, l.next} /\ l.next # Nil
        /\ l.families = <<>>
    BY <1>1, <1>12, FilesAssumption DEF Follows, LoadOK
  <2>2. CASE ~Readable(c)
    <3>1. ~HasChain(d, opts)
      BY <2>1, <2>2 DEF HasChain
    <3> QED
      BY <1>1, <1>3, <2>2, <3>1, FailedFollows DEF AfterRead
  <2>3. CASE Readable(c)
    <3> DEFINE b == [l EXCEPT !.base = <<c>>]
    <3>1. <<c>> \in Seq(Layers)
      BY <1>1, <2>3, ReadableIsLayer
    <3>2. /\ b \in Loads /\ b.opts = opts /\ b.agent = d[Agent] /\ b.base = <<c>>
          /\ b.families = <<>> /\ b.visited = {Agent, l.next}
      BY <1>1, <2>1, <3>1 DEF Loads
    <3>3. AfterRead(l, c) = FirstFamily(b)
      BY <1>12, <2>3 DEF AfterRead
    <3> HIDE DEF b
    <3>4. Begins(d, opts, 0)
      BY <1>6, <2>1, <2>3
    <3>5. Gathered(b, d, 0)
      BY <1>9, <2>1, <3>2, <3>4 DEF Gathered, BaseOf
    <3>6. b.visited = UpTo(d, opts, 0)
      BY <1>7, <2>1, <3>2
    <3>7. 0 \in 0 .. MaxLayerDepth
      BY <1>2
    <3>8. Follows(NextFamily(b, FileAt(d, opts, 0), FirstOf(opts.familyRef, d[Agent].extends)), d)
      BY <1>1, <1>2, <1>5, <2>1, <3>2, <3>5, <3>6, <3>7, NextFamilyFollows
    <3> QED
      BY <1>2, <3>2, <3>3, <3>8 DEF FirstFamily
  <2> QED
    BY <2>2, <2>3
<1>13. CASE l.phase = "family"
  <2>1. PICK n \in Nat : AtFamily(l, d, n)
    BY <1>13 DEF Follows
  <2>2. /\ n + 1 \in 0 .. MaxLayerDepth /\ n + 1 \in Nat /\ l.next = FileAt(d, opts, n + 1)
        /\ l.next # Nil
    BY <1>1, <1>2, <2>1, FilesAssumption DEF AtFamily
  <2>3. CASE ~Readable(c)
    <3>1. ~HasChain(d, opts)
      BY <2>2, <2>3, ChainUnreadable
    <3> QED
      BY <1>1, <1>3, <2>3, <3>1, FailedFollows DEF AfterRead
  <2>4. CASE Readable(c)
    <3> DEFINE m == [l EXCEPT !.families = Append(@, c)]
    <3>1. c \in Layers /\ l.families \in Seq(Layers)
      BY <1>1, <2>4, ReadableIsLayer DEF Loads
    <3>2. /\ m \in Loads /\ m.opts = opts /\ m.agent = l.agent /\ m.base = l.base
          /\ m.families = Append(l.families, c) /\ m.visited = l.visited
      <4>1. Append(l.families, c) \in Seq(Layers)
        BY <3>1
      <4> HIDE DEF c
      <4> QED
        BY <1>1, <4>1 DEF Loads
    <3>3. AfterRead(l, c) = NextFamily(m, l.next, c.extends)
      BY <1>13, <2>4 DEF AfterRead
    <3> HIDE DEF m
    <3>4. \A i \in 0 .. n + 1 : i \in 0 .. n \/ i = n + 1
      OBVIOUS
    <3>5. Begins(d, opts, n) /\ l.next \notin UpTo(d, opts, n)
      BY <2>1 DEF AtFamily, Gathered
    <3>6. Begins(d, opts, n + 1)
      <4>1. l.next # RootOf(d, opts) /\ \A i \in 0 .. n : l.next # FileAt(d, opts, i)
        BY <2>2, <3>5 DEF UpTo
      <4> QED
        BY <2>2, <2>4, <3>4, <3>5, <4>1 DEF Begins
    <3>7. m.families = [i \in 1 .. n + 1 |-> d[FileAt(d, opts, i)]]
      <4> DEFINE F(i) == FileAt(d, opts, i)
      <4>1. l.families = [i \in 1 .. n |-> d[F(i)]]
        BY <2>1 DEF AtFamily, Gathered
      <4>2. c = d[F(n + 1)]
        BY <2>2
      <4> HIDE DEF F
      <4>3. Append(l.families, c) = [i \in 1 .. n + 1 |-> d[F(i)]]
        BY <4>1, <4>2
      <4> QED
        BY <3>2, <4>3 DEF F
    <3>8. Gathered(m, d, n + 1)
      BY <2>1, <3>2, <3>6, <3>7 DEF AtFamily, Gathered
    <3>9. m.visited = UpTo(d, opts, n + 1)
      <4>1. {FileAt(d, opts, i) : i \in 0 .. n + 1} =
              {FileAt(d, opts, i) : i \in 0 .. n} \cup {FileAt(d, opts, n + 1)}
        BY <3>4
      <4> QED
        BY <2>1, <2>2, <3>2, <4>1 DEF AtFamily, UpTo
    <3>10. c.extends \in Refs \cup {Nil}
      BY <3>1, LayersRefer
    <3>11. FileAt(d, opts, (n + 1) + 1) =
             IF c.extends = Nil THEN Nil ELSE LayerFile(FileAt(d, opts, n + 1), c.extends)
      <4>1. FileAt(d, opts, (n + 1) + 1) = NextFile(d, opts, FileAt(d, opts, n + 1), n + 1 = 0)
        BY <1>1, <2>2, FileAtSteps
      <4>2. n + 1 # 0
        OBVIOUS
      <4> QED
        BY <2>2, <2>4, <4>1, <4>2 DEF NextFile
    <3>12. Follows(NextFamily(m, FileAt(d, opts, n + 1), c.extends), d)
      BY <1>1, <2>2, <3>2, <3>8, <3>9, <3>10, <3>11, NextFamilyFollows
    <3> QED
      BY <2>2, <3>3, <3>12
  <2> QED
    BY <2>3, <2>4
<1> QED
  BY <1>10, <1>11, <1>12, <1>13 DEF Reading

(* An edit of what the load has not read yet goes unnoticed. *)
LEMMA EditFollows ==
  ASSUME NEW d, IsDisk(d), NEW e, IsDisk(e), NEW l, LoadOK(l), Reading(l), Follows(l, d),
         \A f \in l.visited \ {l.next} : e[f] = d[f]
  PROVE  Follows(l, e)
<1> DEFINE opts == l.opts
<1>1. opts \in Requests /\ l.next \in Files /\ Agent # Nil /\ Agent \in Files
  BY FilesAssumption DEF LoadOK, Reading, Loads
<1>2. CASE l.phase = "agent"
  BY <1>2 DEF Follows
<1>3. CASE l.phase = "root"
  <2>1. e[Agent] = d[Agent]
    BY <1>3 DEF Follows
  <2>2. RootOf(e, opts) = RootOf(d, opts)
    BY <2>1, RootsAgree
  <2> QED
    BY <1>3, <2>1, <2>2 DEF Follows
<1>4. CASE l.phase = "family"
  <2>1. PICK n \in Nat : AtFamily(l, d, n)
    BY <1>4 DEF Follows
  <2>2. \A f \in UpTo(d, opts, n) : e[f] = d[f]
    BY <2>1 DEF AtFamily
  <2>3. \A i \in 0 .. n : FileAt(d, opts, i) \in UpTo(d, opts, n)
    BY DEF UpTo
  <2>4. \A i \in 0 .. n : /\ FileAt(d, opts, i) # Nil
                          /\ e[FileAt(d, opts, i)] = d[FileAt(d, opts, i)]
    BY <2>1, <2>2, <2>3 DEF AtFamily, Gathered, Begins
  <2>5. \A i \in 0 .. n + 1 : FileAt(e, opts, i) = FileAt(d, opts, i)
    BY <1>1, <2>4, ChainsAgree
  <2>6. \A i \in 0 .. n : FileAt(e, opts, i) = FileAt(d, opts, i)
    BY <2>5
  <2>7. e[Agent] = d[Agent] /\ RootOf(e, opts) = RootOf(d, opts)
    <3>1. FileAt(d, opts, 0) = Agent /\ 0 \in 0 .. n
      BY <1>1, FileAtSteps
    <3>2. e[Agent] = d[Agent]
      BY <2>4, <3>1
    <3> QED
      BY <3>2, RootsAgree
  <2>8. RootOf(d, opts) # Nil => e[RootOf(d, opts)] = d[RootOf(d, opts)]
    BY <2>2 DEF UpTo
  <2>9. UpTo(e, opts, n) = UpTo(d, opts, n)
    <3>1. {FileAt(e, opts, i) : i \in 0 .. n} = {FileAt(d, opts, i) : i \in 0 .. n}
      BY <2>6
    <3> QED
      BY <2>7, <3>1 DEF UpTo
  <2>10. Begins(e, opts, n)
    BY <2>1, <2>4, <2>6, <2>7, <2>8 DEF AtFamily, Gathered, Begins
  <2>11. BaseOf(e, opts) = BaseOf(d, opts)
    BY <2>7, <2>8 DEF BaseOf
  <2>12. [i \in 1 .. n |-> e[FileAt(e, opts, i)]] = [i \in 1 .. n |-> d[FileAt(d, opts, i)]]
    <3>1. \A i \in 1 .. n : e[FileAt(e, opts, i)] = d[FileAt(d, opts, i)]
      BY <2>4, <2>6
    <3> QED
      BY <3>1
  <2>13. Gathered(l, e, n)
    BY <2>1, <2>7, <2>10, <2>11, <2>12 DEF AtFamily, Gathered
  <2>14. FileAt(e, opts, n + 1) = FileAt(d, opts, n + 1)
    BY <2>5
  <2>15. AtFamily(l, e, n)
    BY <2>1, <2>9, <2>13, <2>14 DEF AtFamily
  <2> QED
    BY <1>4, <2>15 DEF Follows
<1> QED
  BY <1>2, <1>3, <1>4 DEF Reading

-----------------------------------------------------------------------------
(* The invariant. *)

(* What differs from when the load began was read before it was edited. *)
EditedBehind ==
  \A f \in Files : disk[f] # before[f] => f \in load.visited \ {load.next}

(* Before the first edit the load follows the only disk there is; after it *)
(* the disk as it is now, if the load had not come to the file yet, or the *)
(* disk as it was, if the load had passed it.                              *)
SeenWhole ==
  /\ edits = 0 => disk = before /\ Follows(load, disk)
  /\ edits = 1 => Follows(load, disk) \/ (Follows(load, before) /\ EditedBehind)

DefinitionInv ==
  /\ IsDisk(disk) /\ IsDisk(before)
  /\ edits \in 0 .. MaxEdits
  /\ LoadOK(load)
  /\ SeenWhole

(* What a load has visited it does not visit again. *)
LEMMA ReadPasses ==
  ASSUME NEW l, LoadOK(l), Reading(l), NEW c \in UNION {Contents[f] : f \in Files}
  PROVE  l.visited \ {l.next} \subseteq AfterRead(l, c).visited \ {AfterRead(l, c).next}
<1>1. l \in Loads /\ l.visited \subseteq Files
  BY DEF LoadOK, Loads
<1>2. ASSUME NEW m \in Loads, m.visited = l.visited, m.next = l.next, NEW phase, NEW file
      PROVE  l.visited \ {l.next} \subseteq
               Visiting(m, phase, file).visited \ {Visiting(m, phase, file).next}
  <2>1. CASE file \in m.visited
    BY <1>2, <2>1 DEF Visiting, Revisits, Failed, Loads
  <2>2. CASE file \notin m.visited
    BY <1>2, <2>2 DEF Visiting, Revisits, Loads
  <2> QED
    BY <2>1, <2>2
<1>3. ASSUME NEW m \in Loads, m.visited = l.visited, m.next = l.next
      PROVE  /\ Merged(m).visited = l.visited /\ Merged(m).next = l.next
             /\ \A code : /\ Failed(m, code).visited = l.visited
                          /\ Failed(m, code).next = l.next
  <2> DEFINE d == Definition(Chain(m))
  <2> HIDE DEF d
  <2> QED
    BY <1>3 DEF Merged, Failed, Loads, d
<1>4. ASSUME NEW m \in Loads, m.visited = l.visited, m.next = l.next, NEW from, NEW ref
      PROVE  l.visited \ {l.next} \subseteq
               NextFamily(m, from, ref).visited \ {NextFamily(m, from, ref).next}
  BY <1>2, <1>3, <1>4 DEF NextFamily
<1>5. CASE ~Readable(c)
  BY <1>1, <1>3, <1>5 DEF AfterRead
<1>6. CASE Readable(c) /\ l.phase = "agent"
  <2> DEFINE a == [l EXCEPT !.agent = c]
  <2>1. a \in Loads /\ a.visited = l.visited /\ a.next = l.next
    BY <1>1, <1>6 DEF Loads, Layers
  <2>2. AfterRead(l, c) = AfterAgent(a)
    BY <1>6 DEF AfterRead
  <2> HIDE DEF a
  <2> QED
    BY <1>2, <1>4, <2>1, <2>2 DEF AfterAgent, FirstFamily
<1>7. CASE Readable(c) /\ l.phase = "root"
  <2> DEFINE b == [l EXCEPT !.base = <<c>>]
  <2>1. <<c>> \in Seq(Layers)
    BY <1>7 DEF Layers
  <2>2. b \in Loads /\ b.visited = l.visited /\ b.next = l.next
    BY <1>1, <2>1 DEF Loads
  <2>3. AfterRead(l, c) = FirstFamily(b)
    BY <1>7 DEF AfterRead
  <2> HIDE DEF b
  <2> QED
    BY <1>4, <2>2, <2>3 DEF FirstFamily
<1>8. CASE Readable(c) /\ l.phase = "family"
  <2> DEFINE m == [l EXCEPT !.families = Append(@, c)]
  <2>1. Append(l.families, c) \in Seq(Layers)
    BY <1>1, <1>8 DEF Layers, Loads
  <2>2. m \in Loads /\ m.visited = l.visited /\ m.next = l.next
    BY <1>1, <2>1 DEF Loads
  <2>3. AfterRead(l, c) = NextFamily(m, l.next, c.extends)
    BY <1>8 DEF AfterRead
  <2> HIDE DEF m
  <2> QED
    BY <1>4, <2>2, <2>3
<1> QED
  BY <1>5, <1>6, <1>7, <1>8 DEF Reading

(* No load is a load too.                                                  *)
LEMMA IdleIsLoad ==
  Idle \in Loads
BY CodesAreResults DEF Idle, Loads, Phases

(* The invariant holds before the first load.                              *)
LEMMA InvInit ==
  Init => DefinitionInv
<1> SUFFICES ASSUME Init PROVE DefinitionInv
  OBVIOUS
<1>1. IsDisk(disk) /\ before = disk /\ edits = 0 /\ load = Idle /\ MaxEdits \in Nat
  BY FilesAssumption DEF Init, IsDisk
<1>2. LoadOK(Idle)
  <2>1. Idle \in Loads
    BY IdleIsLoad
  <2>2. IsFiniteSet({}) /\ MaxLayerDepth \in Nat
    BY FS_EmptySet, FilesAssumption
  <2>3. /\ Idle.phase = "idle" /\ Idle.visited = {} /\ Len(Idle.base) = 0
        /\ Len(Idle.families) = 0
    BY DEF Idle
  <2> QED
    BY <2>1, <2>2, <2>3 DEF LoadOK, Reading
<1>3. Follows(Idle, disk)
  BY DEF Follows, Idle
<1> QED
  BY <1>1, <1>2, <1>3 DEF DefinitionInv, SeenWhole

(* loadDefinition establishes it for the files as they are.                *)
LEMMA InvStart ==
  ASSUME DefinitionInv, NEW opts \in Requests, StartLoad(opts)
  PROVE  DefinitionInv'
<1> DEFINE l == [Idle EXCEPT !.phase = "agent", !.opts = opts, !.next = Agent,
                             !.visited = {Agent}]
<1>1. load' = l /\ before' = disk /\ disk' = disk /\ edits' = edits
  BY DEF StartLoad
<1>2. IsDisk(disk) /\ edits \in 0 .. MaxEdits
  BY DEF DefinitionInv
<1>3. /\ l.phase = "agent" /\ l.opts = opts /\ l.next = Agent /\ l.visited = {Agent}
      /\ l.base = <<>> /\ l.families = <<>> /\ l.result = Awaited
  BY DEF Idle
<1>4. l \in Loads
  BY IdleIsLoad, FilesAssumption DEF Loads, Phases
<1> HIDE DEF l
<1>5. LoadOK(l)
  <2>1. IsFiniteSet({Agent}) /\ MaxLayerDepth \in Nat
    BY FS_Singleton, FilesAssumption
  <2>2. Len(l.base) = 0 /\ Len(l.families) = 0
    BY <1>3
  <2> QED
    BY <1>3, <1>4, <2>1, <2>2 DEF LoadOK, Reading
<1>6. Follows(l, disk)
  BY <1>3 DEF Follows
<1>7. IsDisk(disk)' /\ IsDisk(before)' /\ LoadOK(load)' /\ (edits \in 0 .. MaxEdits)'
  BY <1>1, <1>2, <1>5
<1>8. SeenWhole'
  BY <1>1, <1>6 DEF SeenWhole
<1> QED
  BY <1>7, <1>8 DEF DefinitionInv

(* readLayerYaml keeps it, whichever disk the load follows.                *)
LEMMA InvRead ==
  ASSUME DefinitionInv, ReadLayer
  PROVE  DefinitionInv'
<1> DEFINE f == load.next
           l == AfterRead(load, disk[f])
<1>1. load' = l /\ before' = before /\ disk' = disk /\ edits' = edits /\ Reading(load)
  BY DEF ReadLayer
<1>2. IsDisk(disk) /\ IsDisk(before) /\ edits \in 0 .. MaxEdits /\ LoadOK(load) /\ SeenWhole
  BY DEF DefinitionInv
<1>3. f \in Files
  BY <1>1, <1>2 DEF LoadOK, Loads
<1>4. disk[f] \in UNION {Contents[g] : g \in Files}
  BY <1>2, <1>3 DEF IsDisk
<1>5. LoadOK(l)
  BY <1>1, <1>2, <1>4, ReadKeepsLoads
<1>6. Follows(load, disk) => Follows(l, disk)
  BY <1>1, <1>2, ReadFollows
<1>7. ASSUME Follows(load, before), EditedBehind
      PROVE  Follows(l, before) /\ EditedBehind'
  <2>1. disk[f] = before[f]
    BY <1>3, <1>7 DEF EditedBehind
  <2>2. Follows(AfterRead(load, before[f]), before)
    BY <1>1, <1>2, <1>7, ReadFollows
  <2>3. load.visited \ {load.next} \subseteq l.visited \ {l.next}
    BY <1>1, <1>2, <1>4, ReadPasses
  <2> HIDE DEF l
  <2>4. EditedBehind'
    BY <1>1, <1>7, <2>3 DEF EditedBehind
  <2> QED
    BY <2>1, <2>2, <2>4 DEF l
<1> HIDE DEF l
<1>8. SeenWhole'
  BY <1>1, <1>2, <1>6, <1>7 DEF SeenWhole
<1>9. IsDisk(disk)' /\ IsDisk(before)' /\ LoadOK(load)' /\ (edits \in 0 .. MaxEdits)'
  BY <1>1, <1>2, <1>5
<1> QED
  BY <1>8, <1>9 DEF DefinitionInv

(* An edit keeps it: the file was read before, or will be read as it is    *)
(* now.                                                                    *)
LEMMA InvEdit ==
  ASSUME DefinitionInv, NEW f \in Files, NEW c \in Contents[f], Edit(f, c)
  PROVE  DefinitionInv'
<1>1. /\ load' = load /\ before' = before /\ edits' = edits + 1 /\ Reading(load)
      /\ edits < MaxEdits /\ disk' = [disk EXCEPT ![f] = c]
  BY DEF Edit
<1>2. IsDisk(disk) /\ IsDisk(before) /\ edits \in 0 .. MaxEdits /\ LoadOK(load) /\ SeenWhole
  BY DEF DefinitionInv
<1>3. IsDisk(disk')
  <2>1. c \in UNION {Contents[g] : g \in Files}
    OBVIOUS
  <2>2. disk' \in [Files -> UNION {Contents[g] : g \in Files}]
    BY <1>1, <1>2, <2>1 DEF IsDisk
  <2> QED
    BY <1>1, <1>2, <2>2 DEF IsDisk
<1>4. \A g \in Files : g # f => disk'[g] = disk[g]
  BY <1>1, <1>2 DEF IsDisk
<1>5. edits' # 0 /\ edits' \in 0 .. MaxEdits
  BY <1>1, <1>2, FilesAssumption
<1>6. ASSUME edits' = 1
      PROVE  Follows(load, disk') \/ (Follows(load, before) /\ EditedBehind')
  <2>1. edits = 0 /\ disk = before /\ Follows(load, disk)
    BY <1>1, <1>2, <1>6 DEF SeenWhole
  <2>2. CASE f \in load.visited \ {load.next}
    <3>1. EditedBehind'
      BY <1>1, <1>4, <2>1, <2>2 DEF EditedBehind
    <3> QED
      BY <2>1, <3>1
  <2>3. CASE f \notin load.visited \ {load.next}
    <3>1. load.visited \subseteq Files
      BY <1>2 DEF LoadOK, Loads
    <3>2. \A g \in load.visited \ {load.next} : disk'[g] = disk[g]
      BY <1>4, <2>3, <3>1
    <3>3. Follows(load, disk')
      BY <1>1, <1>2, <1>3, <2>1, <3>2, EditFollows
    <3> QED
      BY <3>3
  <2> QED
    BY <2>2, <2>3
<1>7. SeenWhole'
  BY <1>1, <1>5, <1>6 DEF SeenWhole
<1>8. IsDisk(disk)' /\ IsDisk(before)' /\ LoadOK(load)' /\ (edits \in 0 .. MaxEdits)'
  BY <1>1, <1>2, <1>3, <1>5
<1> QED
  BY <1>7, <1>8 DEF DefinitionInv

(* Every state of the loader satisfies the invariant. *)
THEOREM DefinitionInvariant ==
  Spec => []DefinitionInv
<1>1. Init => DefinitionInv
  BY InvInit
<1>2. DefinitionInv /\ [Next]_vars => DefinitionInv'
  <2> SUFFICES ASSUME DefinitionInv, [Next]_vars PROVE DefinitionInv'
    OBVIOUS
  <2>1. CASE \E opts \in Requests : StartLoad(opts)
    BY <2>1, InvStart
  <2>2. CASE ReadLayer
    BY <2>2, InvRead
  <2>3. CASE \E f \in Files : \E c \in Contents[f] : Edit(f, c)
    BY <2>3, InvEdit
  <2>4. CASE UNCHANGED vars
    BY <2>4 DEF vars, DefinitionInv, SeenWhole, EditedBehind
  <2> QED
    BY <2>1, <2>2, <2>3, <2>4 DEF Next
<1> QED
  BY <1>1, <1>2, PTL DEF Spec

(* The invariant says that the counts of the layers are right.             *)
LEMMA InvGivesType ==
  DefinitionInv => TypeOK
<1> SUFFICES ASSUME DefinitionInv PROVE TypeOK
  OBVIOUS
<1>1. LoadOK(load) /\ IsDisk(disk) /\ edits \in 0 .. MaxEdits
  BY DEF DefinitionInv
<1>2. load \in Loads /\ load.phase \in Phases /\ load.visited \subseteq Files
  BY <1>1 DEF LoadOK, Loads
<1>3. load.phase = "loaded" => Len(Chain(load)) = Cardinality(load.visited)
  <2> SUFFICES ASSUME load.phase = "loaded" PROVE Len(Chain(load)) = Cardinality(load.visited)
    OBVIOUS
  <2>1. /\ load.agent \in Layers /\ load.base \in Seq(Layers) /\ load.families \in Seq(Layers)
        /\ Cardinality(load.visited) = Len(load.base) + Len(load.families) + 1
    BY <1>1 DEF LoadOK, Loads
  <2> QED
    BY <2>1, ChainIsChain
<1>4. Ended <=> load.result # Awaited
  <2>1. Ended => load.result # Awaited
    BY <1>1 DEF LoadOK, Ended
  <2>2. ~Ended => load.result = Awaited
    BY <1>1, <1>2 DEF LoadOK, Ended, Reading, Phases, Idle
  <2> QED
    BY <2>1, <2>2
<1> QED
  BY <1>1, <1>2, <1>3, <1>4 DEF TypeOK, LoadOK, IsDisk, Phases

(* A load holds a root, at most MaxLayerDepth families and an agent, one   *)
(* layer for every file it has visited, and answers once it has ended, for *)
(* any number of edits (resolveLayerChain).                                *)
THEOREM TypeIsOK ==
  Spec => []TypeOK
BY DefinitionInvariant, InvGivesType, PTL

(* The invariant says that a load that has ended saw one disk.             *)
LEMMA InvSeesWhole ==
  DefinitionInv => OneEditIsSeenWhole
<1> SUFFICES ASSUME DefinitionInv, Ended, edits <= 1
             PROVE  \/ Answers(before, load.opts, load.result)
                    \/ Answers(disk, load.opts, load.result)
  BY DEF OneEditIsSeenWhole
<1>1. SeenWhole /\ (edits = 0 \/ edits = 1)
  BY FilesAssumption DEF DefinitionInv
<1>2. Follows(load, disk) \/ Follows(load, before)
  BY <1>1 DEF SeenWhole
<1> QED
  BY <1>2 DEF Follows, Ended

(* A load during which at most one file is edited answers the definition   *)
(* of one disk: that of its beginning or that of its end.  It never mixes  *)
(* layers of both, and fails exactly if that disk has no chain             *)
(* (resolveLayerChain, mergeDefinitionLayers).                             *)
THEOREM OneEditIsSeenWholeHolds ==
  Spec => []OneEditIsSeenWhole
BY DefinitionInvariant, InvSeesWhole, PTL
=============================================================================
