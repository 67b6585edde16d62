--------------------------- MODULE KeyRemapProofs ---------------------------
(***************************************************************************)
(* What one injection does to keys, for every keyboard and every preset:   *)
(* TypeOK, Justified, NoLoss, ComboAtomic and LastEntryWins, from the      *)
(* inductive invariant RemapInv.                                           *)
(*                                                                         *)
(* The properties speak of the virtual device as it is; the proof speaks   *)
(* of what it will be when the first n events of the batch are written.    *)
(* Writing an event shifts this by one (AfterEmitted), reading a key event *)
(* adds a block of events of its codes with its value and ends of frames   *)
(* (RemapForm, GrownAfter), and what a buffer will still say of a key is   *)
(* what the user does with it now (Tracks).                                *)
(***************************************************************************)
EXTENDS KeyRemap, WellFoundedInduction, TLAPS

-----------------------------------------------------------------------------
(* Folding over the entries of a preset.                                   *)

(* The smallest number of a set.                                           *)
LEMMA Least ==
    ASSUME NEW D \in SUBSET Nat, D # {}
    PROVE  \E i \in D : \A j \in 0..(i - 1) : j \notin D
<1>1. PICK i \in D : \A j \in SetLessThan(i, OpToRel(<, Nat), Nat) : j \notin D
  <2>1. IsWellFoundedOn(OpToRel(<, Nat), Nat)
    BY NatLessThanWellFounded
  <2> QED  BY <2>1, WFMin DEF SetLessThan
<1>2. \A j \in 0..(i - 1) : j \in SetLessThan(i, OpToRel(<, Nat), Nat)
  BY DEF SetLessThan, OpToRel
<1> QED  BY <1>1, <1>2

(* The greatest element of a set that FoldLeft takes last.                 *)
LEMMA Greatest ==
    ASSUME NEW n \in Nat, NEW t \in SUBSET (1..n), n \in t
    PROVE  Max(t) = n
<1>1. n \in t /\ \A y \in t : n >= y
  OBVIOUS
<1>2. \A x \in t : (\A y \in t : x >= y) => x = n
  <2> SUFFICES ASSUME NEW x \in t, \A y \in t : x >= y
               PROVE  x = n
    OBVIOUS
  <2>1. x >= n /\ x \in 1..n
    BY <1>1
  <2> QED  BY <2>1
<1> QED  BY <1>1, <1>2 DEF Max

(* What FoldLeft computes along the way, for entries at D.              *)
Folding(entries, D, f) ==
    f = [t \in SUBSET D |->
            IF t = {} THEN <<>> ELSE Insert(f[t \ {Max(t)}], entries[Max(t)])]

(* It can be made for one entry more: those entries are its last ones.     *)
LEMMA FoldingExtends ==
    ASSUME NEW entries, NEW n \in Nat, NEW f, Folding(entries, 1..n, f)
    PROVE  \E g : Folding(entries, 1..(n + 1), g)
<1> DEFINE g == [t \in SUBSET (1..(n + 1)) |->
                    IF t = {} THEN <<>> ELSE Insert(f[t \ {Max(t)}], entries[Max(t)])]
<1>1. \A t \in SUBSET (1..(n + 1)) : t # {} => t \ {Max(t)} \in SUBSET (1..n)
  <2> SUFFICES ASSUME NEW t \in SUBSET (1..(n + 1)), t # {}
               PROVE  t \ {Max(t)} \in SUBSET (1..n)
    OBVIOUS
  <2>1. CASE n + 1 \in t
    <3>1. Max(t) = n + 1
      BY <2>1, Greatest
    <3> QED  BY <3>1
  <2>2. CASE n + 1 \notin t
    <3>1. \A i \in 1..(n + 1) : i # n + 1 => i \in 1..n
      OBVIOUS
    <3> HIDE DEF g
    <3> QED  BY <2>2, <3>1
  <2> QED  BY <2>1, <2>2
<1>2. \A t \in SUBSET (1..n) : g[t] = f[t]
  <2>1. \A t \in SUBSET (1..n) : t \in SUBSET (1..(n + 1))
    OBVIOUS
  <2>2. \A t \in SUBSET (1..n) :
            f[t] = IF t = {} THEN <<>> ELSE Insert(f[t \ {Max(t)}], entries[Max(t)])
    BY DEF Folding
  <2> QED  BY <2>1, <2>2
<1>3. \A t \in SUBSET (1..(n + 1)) : t # {} => g[t \ {Max(t)}] = f[t \ {Max(t)}]
  BY <1>1, <1>2
<1>4. Folding(entries, 1..(n + 1), g)
  BY <1>3 DEF Folding
<1> QED  BY <1>4

(* Such a function exists, so that CHOOSE in FoldLeft finds one.           *)
LEMMA FoldingExists ==
    ASSUME NEW entries, NEW n \in Nat
    PROVE  \E f : Folding(entries, 1..n, f)
<1> DEFINE D == {m \in Nat : ~\E f : Folding(entries, 1..m, f)}
<1>1. 0 \notin D
  <2>1. SUBSET (1..0) = {{}}
    OBVIOUS
  <2>2. Folding(entries, 1..0, [t \in SUBSET (1..0) |-> <<>>])
    BY <2>1 DEF Folding
  <2> QED  BY <2>2
<1>2. CASE D # {}
  <2>1. PICK m \in D : \A j \in 0..(m - 1) : j \notin D
    <3> HIDE DEF D
    <3>1. D \in SUBSET Nat
      BY DEF D
    <3> QED  BY <1>2, <3>1, Least
  <2>2. m \in Nat /\ m # 0 /\ m - 1 \in Nat /\ m - 1 \in 0..(m - 1) /\ (m - 1) + 1 = m
    BY <1>1, <2>1
  <2>3. \E f : Folding(entries, 1..(m - 1), f)
    BY <2>1, <2>2
  <2>4. \E f : Folding(entries, 1..((m - 1) + 1), f)
    BY <2>2, <2>3, FoldingExtends
  <2> QED  BY <2>1, <2>2, <2>4
<1> QED  BY <1>2

(* FoldLeft goes through the entries one by one.                           *)
LEMMA FromPresetFolds ==
    ASSUME NEW entries, NEW S, entries \in Seq(S)
    PROVE  \E f : /\ FromPreset(entries) = f[Len(entries)]
                  /\ f[0] = <<>>
                  /\ \A n \in 1..Len(entries) : f[n] = Insert(f[n - 1], entries[n])
<1> DEFINE N == Len(entries)
           g == CHOOSE f : Folding(entries, DOMAIN entries, f)
           h == [n \in 0..N |-> g[1..n]]
<1>1. N \in Nat /\ DOMAIN entries = 1..N
  OBVIOUS
<1>2. FromPreset(entries) = g[1..N]
  <2>1. FromPreset(entries) =
            (CHOOSE f : f = [t \in SUBSET DOMAIN entries |->
                IF t = {} THEN <<>> ELSE Insert(f[t \ {Max(t)}], entries[Max(t)])])[DOMAIN entries]
    BY DEF FromPreset, FoldLeft, MapThenFoldSet
  <2>2. FromPreset(entries) = g[DOMAIN entries]
    BY <2>1 DEF Folding
  <2> QED  BY <1>1, <2>2
<1>3. Folding(entries, 1..N, g)
  BY <1>1, FoldingExists
<1> HIDE DEF g
<1>4. g[{}] = <<>>
  BY <1>3 DEF Folding
<1>5. ASSUME NEW n \in 1..N
      PROVE  g[1..n] = Insert(g[1..(n - 1)], entries[n])
  <2>1. 1..n \in SUBSET (1..N) /\ 1..n # {} /\ n \in 1..n /\ n \in Nat
    <3>1. n \in Nat /\ 1 <= n /\ n <= N /\ n \in 1..n
      BY <1>1
    <3>2. \A i \in 1..n : i \in 1..N
      BY <1>1, <3>1
    <3> QED  BY <3>1, <3>2
  <2>2. Max(1..n) = n
    BY <2>1, Greatest
  <2>3. (1..n) \ {n} = 1..(n - 1)
    BY <2>1
  <2>4. g[1..n] = Insert(g[(1..n) \ {Max(1..n)}], entries[Max(1..n)])
    BY <1>3, <2>1 DEF Folding
  <2> QED  BY <2>2, <2>3, <2>4
<1>6. /\ h[0] = <<>> /\ h[N] = g[1..N]
      /\ \A n \in 1..N : h[n] = g[1..n] /\ h[n - 1] = g[1..(n - 1)]
  <2>1. 1..0 = {} /\ 0 \in 0..N /\ N \in 0..N
    BY <1>1
  <2>2. \A n \in 1..N : n \in 0..N /\ n - 1 \in 0..N
    BY <1>1
  <2> QED  BY <1>4, <2>1, <2>2
<1> HIDE DEF h
<1>7. \A n \in 1..N : h[n] = Insert(h[n - 1], entries[n])
  BY <1>5, <1>6
<1> QED  BY <1>2, <1>6, <1>7

-----------------------------------------------------------------------------
(* The map that from_preset builds.                                        *)

(* An entry that decides what k is mapped to, as the last of n entries.    *)
Says(entry, k) == Usable(entry) /\ entry.input[1].code = k
Maps(entries, n, k, m) ==
    \/ k \notin DOMAIN m /\ \A j \in 1..n : ~Says(entries[j], k)
    \/ \E i \in 1..n :
        /\ Says(entries[i], k) /\ \A j \in (i + 1)..n : ~Says(entries[j], k)
        /\ k \in DOMAIN m /\ m[k] = Codes(entries[i].output)

(* insert sets what the entry says and leaves the other codes.             *)
LEMMA InsertEffect ==
    ASSUME NEW m, NEW entry, NEW k
    PROVE  /\ Says(entry, k) => /\ k \in DOMAIN Insert(m, entry)
                                /\ Insert(m, entry)[k] = Codes(entry.output)
           /\ ~Says(entry, k) => /\ k \in DOMAIN Insert(m, entry) <=> k \in DOMAIN m
                                 /\ k \in DOMAIN m => Insert(m, entry)[k] = m[k]
<1> DEFINE with == [c \in DOMAIN m \cup {entry.input[1].code} |->
                        IF c = entry.input[1].code THEN Codes(entry.output) ELSE m[c]]
<1>1. Insert(m, entry) = IF Usable(entry) THEN with ELSE m
  BY DEF Insert
<1> QED  BY <1>1 DEF Says

(* One more entry.                                                         *)
LEMMA MapsStep ==
    ASSUME NEW entries, NEW n \in Nat, NEW k, NEW m, Maps(entries, n, k, m)
    PROVE  Maps(entries, n + 1, k, Insert(m, entries[n + 1]))
<1> DEFINE e == entries[n + 1]
<1>1. n + 1 \in 1..(n + 1) /\ \A j \in 1..(n + 1) : j # n + 1 => j \in 1..n
  OBVIOUS
<1>2. CASE Says(e, k)
  <2>1. k \in DOMAIN Insert(m, e) /\ Insert(m, e)[k] = Codes(e.output)
    BY <1>2, InsertEffect
  <2>2. \A j \in ((n + 1) + 1)..(n + 1) : ~Says(entries[j], k)
    OBVIOUS
  <2> QED  BY <1>1, <1>2, <2>1, <2>2 DEF Maps
<1>3. CASE ~Says(e, k)
  <2>1. /\ k \in DOMAIN Insert(m, e) <=> k \in DOMAIN m
        /\ k \in DOMAIN m => Insert(m, e)[k] = m[k]
    BY <1>3, InsertEffect
  <2>2. CASE k \notin DOMAIN m /\ \A j \in 1..n : ~Says(entries[j], k)
    BY <1>1, <1>3, <2>1, <2>2 DEF Maps
  <2>3. CASE \E i \in 1..n : /\ Says(entries[i], k) /\ \A j \in (i + 1)..n : ~Says(entries[j], k)
                             /\ k \in DOMAIN m /\ m[k] = Codes(entries[i].output)
    <3>1. PICK i \in 1..n : /\ Says(entries[i], k) /\ \A j \in (i + 1)..n : ~Says(entries[j], k)
                            /\ k \in DOMAIN m /\ m[k] = Codes(entries[i].output)
      BY <2>3
    <3>2. i \in 1..(n + 1) /\ \A j \in (i + 1)..(n + 1) : j # n + 1 => j \in (i + 1)..n
      OBVIOUS
    <3>3. \A j \in (i + 1)..(n + 1) : ~Says(entries[j], k)
      BY <1>3, <3>1, <3>2
    <3> QED  BY <2>1, <3>1, <3>2, <3>3 DEF Maps
  <2> QED  BY <2>2, <2>3 DEF Maps
<1> QED  BY <1>2, <1>3

(* from_preset maps a code as the last usable entry for it says.           *)
LEMMA FromPresetMaps ==
    ASSUME NEW entries, NEW S, entries \in Seq(S), NEW k
    PROVE  Maps(entries, Len(entries), k, FromPreset(entries))
<1> DEFINE N == Len(entries)
<1>1. PICK f : /\ FromPreset(entries) = f[N] /\ f[0] = <<>>
               /\ \A n \in 1..N : f[n] = Insert(f[n - 1], entries[n])
  BY FromPresetFolds
<1>2. N \in Nat
  OBVIOUS
<1> HIDE DEF N
<1> DEFINE D == {n \in 0..N : ~Maps(entries, n, k, f[n])}
<1>3. 0 \notin D
  BY <1>1 DEF Maps
<1>4. CASE D # {}
  <2>1. D \in SUBSET Nat
    BY <1>2
  <2>2. PICK n \in D : \A j \in 0..(n - 1) : j \notin D
    <3> HIDE DEF D
    <3> QED  BY <1>4, <2>1, Least
  <2>3. n \in Nat /\ n # 0 /\ n <= N
    BY <1>2, <1>3, <2>2
  <2>4. /\ n - 1 \in 0..(n - 1) /\ n - 1 \in 0..N /\ n \in 1..N /\ n - 1 \in Nat
        /\ (n - 1) + 1 = n
    BY <1>2, <2>3
  <2>5. Maps(entries, n - 1, k, f[n - 1])
    BY <2>2, <2>4
  <2>6. Maps(entries, (n - 1) + 1, k, Insert(f[n - 1], entries[(n - 1) + 1]))
    BY <2>4, <2>5, MapsStep
  <2> QED  BY <1>1, <2>2, <2>4, <2>6
<1>5. N \in 0..N
  BY <1>2
<1> QED  BY <1>1, <1>4, <1>5 DEF N

(* What is down when events are written to a device with keys down.        *)
AfterOf(keys, events, n, code) ==
    \/ \E i \in 1..n :
        /\ events[i] = KeyEvent(code, Press)
        /\ \A j \in (i + 1)..n : events[j] # KeyEvent(code, Release)
    \/ code \in keys /\ \A j \in 1..n : events[j] # KeyEvent(code, Release)

(* It takes the first n events only.                                       *)
LEMMA AfterSame ==
    ASSUME NEW keys, NEW R, NEW Q, NEW n \in Nat, NEW code, \A i \in 1..n : R[i] = Q[i]
    PROVE  AfterOf(keys, R, n, code) <=> AfterOf(keys, Q, n, code)
<1>1. \A i \in 1..n : \A j \in (i + 1)..n : j \in 1..n
  OBVIOUS
<1>2. \A i \in 1..n : \A j \in (i + 1)..n : R[j] = Q[j]
  BY <1>1
<1> QED  BY <1>2 DEF AfterOf

(* What a block of events at the end changes: nothing, if none is about    *)
(* the code; else what the events of one kind say, once the first of them  *)
(* is written.                                                             *)
LEMMA AfterAppended ==
    ASSUME NEW S, NEW R \in Seq(S), NEW T \in Seq(S), NEW keys, NEW code,
           NEW n \in Len(R)..(Len(R) + Len(T))
    PROVE  /\ (\A i \in DOMAIN T : T[i] \notin {KeyEvent(code, Press), KeyEvent(code, Release)})
              => (AfterOf(keys, R \o T, n, code) <=> AfterOf(keys, R, Len(R), code))
           /\ \A i \in DOMAIN T :
                /\ T[i] = KeyEvent(code, Press) /\ Len(R) + i <= n
                /\ \A j \in DOMAIN T : T[j] # KeyEvent(code, Release)
                => AfterOf(keys, R \o T, n, code)
           /\ \A i \in DOMAIN T :
                /\ T[i] = KeyEvent(code, Release) /\ Len(R) + i <= n
                /\ \A j \in DOMAIN T : T[j] # KeyEvent(code, Press)
                => ~AfterOf(keys, R \o T, n, code)
<1> DEFINE Q == R \o T
           L == Len(R)
           press == KeyEvent(code, Press)
           release == KeyEvent(code, Release)
<1>1. /\ L \in Nat /\ Len(T) \in Nat /\ n \in Nat /\ L <= n /\ n <= L + Len(T)
      /\ DOMAIN T = 1..Len(T)
      /\ \A i \in 1..L : Q[i] = R[i]
      /\ \A i \in 1..Len(T) : Q[L + i] = T[i]
  OBVIOUS
<1>2. \A i \in (L + 1)..n : Q[i] = T[i - L] /\ i - L \in DOMAIN T
  <2> SUFFICES ASSUME NEW i \in (L + 1)..n
               PROVE  Q[i] = T[i - L] /\ i - L \in DOMAIN T
    OBVIOUS
  <2>1. i - L \in 1..Len(T) /\ L + (i - L) = i
    BY <1>1
  <2> HIDE DEF Q, L
  <2> QED  BY <1>1, <2>1
<1>3. \A i \in DOMAIN T : L + i <= n => L + i \in (L + 1)..n /\ Q[L + i] = T[i]
  BY <1>1
<1> HIDE DEF Q, L, press, release
<1>4. ASSUME \A i \in DOMAIN T : T[i] \notin {press, release}
      PROVE  AfterOf(keys, Q, n, code) <=> AfterOf(keys, R, L, code)
  <2>1. \A i \in (L + 1)..n : Q[i] \notin {press, release}
    BY <1>2, <1>4
  <2>2. ASSUME AfterOf(keys, Q, n, code)
        PROVE  AfterOf(keys, R, L, code)
    <3>1. CASE \E i \in 1..n : Q[i] = press /\ \A j \in (i + 1)..n : Q[j] # release
      <4>1. PICK i \in 1..n : Q[i] = press /\ \A j \in (i + 1)..n : Q[j] # release
        BY <3>1
      <4>2. i \in 1..L
        BY <1>1, <2>1, <4>1
      <4>3. \A j \in (i + 1)..L : j \in (i + 1)..n /\ j \in 1..L
        BY <1>1, <4>2
      <4>4. R[i] = press /\ \A j \in (i + 1)..L : R[j] # release
        BY <1>1, <4>1, <4>2, <4>3
      <4> QED  BY <4>2, <4>4 DEF AfterOf, press, release
    <3>2. CASE code \in keys /\ \A j \in 1..n : Q[j] # release
      <4>1. \A j \in 1..L : j \in 1..n
        BY <1>1
      <4> QED  BY <1>1, <3>2, <4>1 DEF AfterOf, press, release
    <3> QED  BY <2>2, <3>1, <3>2 DEF AfterOf, press, release
  <2>3. ASSUME AfterOf(keys, R, L, code)
        PROVE  AfterOf(keys, Q, n, code)
    <3>1. CASE \E i \in 1..L : R[i] = press /\ \A j \in (i + 1)..L : R[j] # release
      <4>1. PICK i \in 1..L : R[i] = press /\ \A j \in (i + 1)..L : R[j] # release
        BY <3>1
      <4>2. i \in 1..n /\ Q[i] = press
        BY <1>1, <4>1
      <4>3. \A j \in (i + 1)..n : 
            j \in (L + 1)..n \/ (j \in (i + 1)..L /\ j \in 1..L)
        BY <1>1, <4>1
      <4>4. \A j \in (i + 1)..n : Q[j] # release
        BY <1>1, <2>1, <4>1, <4>3
      <4> QED  BY <4>2, <4>4 DEF AfterOf, press, release
    <3>2. CASE code \in keys /\ \A j \in 1..L : R[j] # release
      <4>1. \A j \in 1..n : j \in (L + 1)..n \/ j \in 1..L
        BY <1>1
      <4>2. \A j \in 1..n : Q[j] # release
        BY <1>1, <2>1, <3>2, <4>1
      <4> QED  BY <3>2, <4>2 DEF AfterOf, press, release
    <3> QED  BY <2>3, <3>1, <3>2 DEF AfterOf, press, release
  <2> QED  BY <2>2, <2>3
<1>5. ASSUME NEW i \in DOMAIN T, T[i] = press, L + i <= n, \A j \in DOMAIN T : T[j] # release
      PROVE  AfterOf(keys, Q, n, code)
  <2>1. L + i \in 1..n /\ Q[L + i] = press
    BY <1>1, <1>3, <1>5
  <2>2. \A j \in ((L + i) + 1)..n : j \in (L + 1)..n
    BY <1>1
  <2>3. \A j \in ((L + i) + 1)..n : Q[j] # release
    BY <1>2, <1>5, <2>2
  <2> QED  BY <2>1, <2>3 DEF AfterOf, press, release
<1>6. ASSUME NEW i \in DOMAIN T, T[i] = release, L + i <= n, \A j \in DOMAIN T : T[j] # press
      PROVE  ~AfterOf(keys, Q, n, code)
  <2>1. L + i \in 1..n /\ Q[L + i] = release
    BY <1>1, <1>3, <1>6
  <2>2. ASSUME NEW j \in 1..n, Q[j] = press
        PROVE  L + i \in (j + 1)..n
    <3>1. j \notin (L + 1)..n
      BY <1>2, <1>6, <2>2
    <3> QED  BY <1>1, <2>1, <3>1
  <2> QED  BY <2>1, <2>2 DEF AfterOf, press, release
<1> QED  BY <1>4, <1>5, <1>6 DEF Q, L, press, release

(* Writing the first event leaves the rest to be written.                  *)
LEMMA AfterEmitted ==
    ASSUME NEW S, NEW R \in Seq(S), R # <<>>, NEW keys, NEW code \in Supported,
           NEW n \in 0..(Len(R) - 1), Head(R).value \in {Press, Release, Repeat},
           Head(R) = KeyEvent(Head(R).code, Head(R).value)
    PROVE  AfterOf(Applied(keys, Head(R)), Tail(R), n, code) <=> AfterOf(keys, R, n + 1, code)
<1> DEFINE Q == Tail(R)
           after == Applied(keys, Head(R))
           press == KeyEvent(code, Press)
           release == KeyEvent(code, Release)
<1>1. n \in Nat /\ \A i \in 1..n : Q[i] = R[i + 1] /\ i + 1 \in 1..(n + 1)
  OBVIOUS
<1>2. /\ Head(R) = R[1]
      /\ R[1] = press => code \in after
      /\ R[1] = release => code \notin after
      /\ R[1] \notin {press, release} => (code \in after <=> code \in keys)
      /\ press # release
  BY DEF Applied, KeyEvent, Press, Release, Repeat
<1> HIDE DEF Q, after, press, release
<1>3. ASSUME AfterOf(after, Q, n, code)
      PROVE  AfterOf(keys, R, n + 1, code)
  <2>1. CASE \E i \in 1..n : Q[i] = press /\ \A j \in (i + 1)..n : Q[j] # release
    <3>1. PICK i \in 1..n : Q[i] = press /\ \A j \in (i + 1)..n : Q[j] # release
      BY <2>1
    <3>2. i + 1 \in 1..(n + 1) /\ R[i + 1] = press
      BY <1>1, <3>1
    <3>3. \A j \in ((i + 1) + 1)..(n + 1) : j - 1 \in (i + 1)..n /\ j - 1 \in 1..n /\ (j - 1) + 1 = j
      BY <1>1
    <3>4. \A j \in ((i + 1) + 1)..(n + 1) : R[j] # release
      BY <1>1, <3>1, <3>3
    <3> QED  BY <3>2, <3>4 DEF AfterOf, press, release
  <2>2. CASE code \in after /\ \A j \in 1..n : Q[j] # release
    <3>1. \A j \in 2..(n + 1) : j - 1 \in 1..n /\ (j - 1) + 1 = j
      BY <1>1
    <3>2. \A j \in 2..(n + 1) : R[j] # release
      BY <1>1, <2>2, <3>1
    <3>3. R[1] # release
      BY <1>2, <2>2
    <3>4. CASE R[1] = press
      <4>1. 1 \in 1..(n + 1) /\ \A j \in (1 + 1)..(n + 1) : j \in 2..(n + 1)
        BY <1>1
      <4> QED  BY <3>2, <3>4, <4>1 DEF AfterOf, press, release
    <3>5. CASE R[1] # press
      <4>1. code \in keys
        BY <1>2, <2>2, <3>3, <3>5
      <4>2. \A j \in 1..(n + 1) : j = 1 \/ j \in 2..(n + 1)
        BY <1>1
      <4>3. \A j \in 1..(n + 1) : R[j] # release
        BY <3>2, <3>3, <4>2
      <4> QED  BY <4>1, <4>3 DEF AfterOf, press, release
    <3> QED  BY <3>4, <3>5
  <2> QED  BY <1>3, <2>1, <2>2 DEF AfterOf, press, release
<1>4. ASSUME AfterOf(keys, R, n + 1, code)
      PROVE  AfterOf(after, Q, n, code)
  <2>1. ASSUME NEW i \in 1..(n + 1), R[i] = press, \A j \in (i + 1)..(n + 1) : R[j] # release,
               i # 1
        PROVE  AfterOf(after, Q, n, code)
    <3>1. i - 1 \in 1..n /\ (i - 1) + 1 = i
      BY <1>1, <2>1
    <3>2. \A j \in ((i - 1) + 1)..n : j \in 1..n /\ j + 1 \in (i + 1)..(n + 1)
      BY <1>1, <3>1
    <3>3. Q[i - 1] = press /\ \A j \in ((i - 1) + 1)..n : Q[j] # release
      BY <1>1, <2>1, <3>1, <3>2
    <3> QED  BY <3>1, <3>3 DEF AfterOf, press, release
  <2>2. ASSUME code \in after, \A j \in 2..(n + 1) : R[j] # release
        PROVE  AfterOf(after, Q, n, code)
    <3>1. \A j \in 1..n : j + 1 \in 2..(n + 1)
      BY <1>1
    <3>2. \A j \in 1..n : Q[j] # release
      BY <1>1, <2>2, <3>1
    <3> QED  BY <2>2, <3>2 DEF AfterOf, press, release
  <2>3. CASE \E i \in 1..(n + 1) : R[i] = press /\ \A j \in (i + 1)..(n + 1) : R[j] # release
    <3>1. PICK i \in 1..(n + 1) : R[i] = press /\ \A j \in (i + 1)..(n + 1) : R[j] # release
      BY <2>3
    <3>2. CASE i = 1
      <4>1. code \in after
        BY <1>2, <3>1, <3>2
      <4>2. \A j \in 2..(n + 1) : j \in (i + 1)..(n + 1)
        BY <3>2
      <4> QED  BY <2>2, <3>1, <4>1, <4>2
    <3> QED  BY <2>1, <3>1, <3>2
  <2>4. CASE code \in keys /\ \A j \in 1..(n + 1) : R[j] # release
    <3>1. 1 \in 1..(n + 1) /\ \A j \in 2..(n + 1) : j \in 1..(n + 1)
      BY <1>1
    <3>2. code \in after
      BY <1>2, <2>4, <3>1
    <3> QED  BY <2>2, <2>4, <3>1, <3>2
  <2> QED  BY <1>4, <2>3, <2>4 DEF AfterOf, press, release
<1> QED  BY <1>3, <1>4 DEF Q, after, press, release

(* What is written: no event but SYN_REPORT has NoCode.                    *)
OutCodes == {Resolve(symbol) : symbol \in Known}
Events == Event(Keys \cup OutCodes \cup {NoCode})
HandlerType == preset \in Presets \cup {<<>>} /\ mappings = FromPreset(preset)

LEMMA HandlerIs == <<preset, mappings>> \in Handlers <=> HandlerType
BY DEF Handlers, HandlerType

(* SYN_REPORT has no key's code.                                           *)
LEMMA RealCodes == NoCode \notin Keys \cup OutCodes \cup Supported
BY RemapAssumption DEF Keys, OutCodes

(* A preset maps key codes to sequences of key codes.                      *)
LEMMA MappedTo ==
    ASSUME HandlerType, NEW k \in DOMAIN mappings
    PROVE  k # NoCode /\ mappings[k] \in Seq(OutCodes)
<1>1. preset \in Seq(ToSet(preset))
  <2>1. <<>> \in Seq(ToSet(<<>>))
    OBVIOUS
  <2> QED  BY <2>1, RemapAssumption DEF HandlerType
<1>2. Maps(preset, Len(preset), k, mappings)
  BY <1>1, FromPresetMaps DEF HandlerType
<1>3. PICK i \in 1..Len(preset) : Says(preset[i], k) /\ mappings[k] = Codes(preset[i].output)
  BY <1>2 DEF Maps
<1> DEFINE entry == preset[i]
<1>4. preset \in Presets /\ entry \in ToSet(preset)
  <2>1. preset # <<>>
    BY <1>3
  <2>2. i \in DOMAIN preset
    BY <1>1
  <2> QED  BY <2>1, <2>2 DEF HandlerType, ToSet
<1> HIDE DEF entry
<1>5. entry.input[1].code = k /\ k # NoCode /\ entry.output \in Seq(Known)
  BY <1>3, <1>4, RemapAssumption DEF Says, entry
<1>6. Codes(entry.output) \in Seq(OutCodes)
  <2>1. \A j \in DOMAIN entry.output : Resolve(entry.output[j]) \in OutCodes
    BY <1>5 DEF OutCodes
  <2>2. DOMAIN entry.output = 1..Len(entry.output) /\ Len(entry.output) \in Nat
    BY <1>5
  <2> QED  BY <2>1, <2>2 DEF Codes
<1> QED  BY <1>3, <1>5, <1>6 DEF entry

-----------------------------------------------------------------------------
(* What comes out for one event that was read.                             *)

Block(codes, value) == [i \in DOMAIN codes |-> KeyEvent(codes[i], value)]
Values == {Press, Release, Repeat}

(* A block of events of some codes, and ends of frames after it.           *)
LEMMA BlockShape ==
    ASSUME NEW codes \in Seq(Keys \cup OutCodes), NEW value \in Values, NEW end \in Seq({SynReport})
    PROVE  /\ Block(codes, value) \o end \in Seq(Events)
           /\ Len(Block(codes, value) \o end) = Len(codes) + Len(end)
           /\ \A i \in 1..Len(codes) : (Block(codes, value) \o end)[i] = KeyEvent(codes[i], value)
           /\ \A i \in (Len(codes) + 1)..(Len(codes) + Len(end)) :
                (Block(codes, value) \o end)[i] = SynReport
           /\ \A i \in 1..Len(codes) : KeyEvent(codes[i], value) # SynReport
<1> DEFINE B == Block(codes, value)
<1>1. DOMAIN codes = 1..Len(codes) /\ Len(codes) \in Nat /\ Len(end) \in Nat
  OBVIOUS
<1>2. \A i \in 1..Len(codes) : codes[i] \in Keys \cup OutCodes /\ codes[i] # NoCode
  BY <1>1, RealCodes
<1>3. /\ \A i \in 1..Len(codes) : KeyEvent(codes[i], value) \in Events
      /\ SynReport \in Events
  BY <1>2 DEF Events, Event, Values, KeyEvent, SynReport, Release
<1>4. \A i \in 1..Len(codes) : KeyEvent(codes[i], value) # SynReport
  BY <1>2 DEF KeyEvent, SynReport
<1>5. /\ B \in Seq(Events) /\ Len(B) = Len(codes)
      /\ \A i \in 1..Len(codes) : B[i] = KeyEvent(codes[i], value)
  BY <1>1, <1>3 DEF Block
<1>6. end \in Seq(Events) /\ \A i \in 1..Len(end) : end[i] = SynReport
  BY <1>3
<1> HIDE DEF B
<1>7. /\ B \o end \in Seq(Events) /\ Len(B \o end) = Len(codes) + Len(end)
      /\ \A i \in 1..Len(codes) : (B \o end)[i] = B[i]
      /\ \A i \in 1..Len(end) : (B \o end)[Len(codes) + i] = end[i]
  BY <1>5, <1>6
<1>8. \A i \in (Len(codes) + 1)..(Len(codes) + Len(end)) : (B \o end)[i] = SynReport
  <2> SUFFICES ASSUME NEW i \in (Len(codes) + 1)..(Len(codes) + Len(end))
               PROVE  (B \o end)[i] = SynReport
    OBVIOUS
  <2>1. i - Len(codes) \in 1..Len(end) /\ Len(codes) + (i - Len(codes)) = i
    BY <1>1
  <2> QED  BY <1>6, <1>7, <2>1
<1> QED  BY <1>4, <1>5, <1>7, <1>8 DEF B

(* A key event comes out as events of the codes of its key with its value, *)
(* and then ends of frames; a repeat comes out as a repeat or not at all.  *)
Remapped(e) == RemapInto(mappings, e) \o RemapInto(mappings, SynReport)
Spells(codes, k) ==
    \A c \in Supported : c \in Outputs(k) <=> \E i \in DOMAIN codes : codes[i] = c

(* remap_into spells the codes of the key, in the order it presses or      *)
(* releases them.                                                          *)
LEMMA RemapForm ==
    ASSUME HandlerType, NEW e \in Event(Keys)
    PROVE  \E codes \in Seq(Keys \cup OutCodes), end \in Seq({SynReport}) :
                /\ Remapped(e) = Block(codes, e.value) \o end
                /\ Spells(codes, e.code) \/ (e.value = Repeat /\ codes = <<>>)
<1> DEFINE k == e.code
           v == e.value
           syn == RemapInto(mappings, SynReport)
<1>1. /\ k \in Keys /\ v \in Values /\ e = KeyEvent(k, v)
      /\ SynReport.code = NoCode
      /\ Press # Repeat /\ Press # Release /\ Release # Repeat
  BY DEF Event, Values, KeyEvent, SynReport, Press, Release, Repeat
<1>2. syn = <<SynReport>>
  <2>1. NoCode \notin DOMAIN mappings
    BY MappedTo
  <2> QED  BY <1>1, <2>1 DEF RemapInto
<1>3. <<SynReport>> \in Seq({SynReport}) /\ <<SynReport, SynReport>> \in Seq({SynReport})
  OBVIOUS
<1>4. CASE k \notin DOMAIN mappings
  <2>1. Remapped(e) = <<e>> \o <<SynReport>>
    BY <1>2, <1>4 DEF Remapped, RemapInto
  <2>2. <<k>> \in Seq(Keys \cup OutCodes)
    BY <1>1
  <2>3. Block(<<k>>, v) = <<e>>
    BY <1>1 DEF Block
  <2>4. Spells(<<k>>, k)
    BY <1>4 DEF Spells, Outputs
  <2> QED  BY <1>3, <2>1, <2>2, <2>3, <2>4
<1>5. CASE k \in DOMAIN mappings
  <2> DEFINE codes == mappings[k]
  <2>1. codes \in Seq(OutCodes)
    BY <1>5, MappedTo
  <2>2. codes \in Seq(Keys \cup OutCodes) /\ Len(codes) \in Nat /\ DOMAIN codes = 1..Len(codes)
    BY <2>1
  <2>3. Spells(codes, k)
    BY <1>5 DEF Spells, Outputs
  <2>4. RemapInto(mappings, e) =
            CASE Len(codes) = 1      -> <<KeyEvent(codes[1], v), SynReport>>
              [] Len(codes) # 1 /\ v = Press -> Presses(codes) \o <<SynReport>>
              [] Len(codes) # 1 /\ v = Release -> Releases(Reverse(codes)) \o <<SynReport>>
              [] Len(codes) # 1 /\ v = Repeat -> <<>>
    BY <1>5 DEF RemapInto
  <2> HIDE DEF codes, k, v
  <2>5. \A cs \in Seq(Keys \cup OutCodes) :
            Block(cs, v) \o <<SynReport>> \o <<SynReport>> = Block(cs, v) \o <<SynReport, SynReport>>
    <3>1. \A s \in Seq(Events) : s \o <<SynReport>> \o <<SynReport>> = s \o <<SynReport, SynReport>>
      BY DEF Events
    <3>2. \A cs \in Seq(Keys \cup OutCodes) : Block(cs, v) \in Seq(Events)
      <4> SUFFICES ASSUME NEW cs \in Seq(Keys \cup OutCodes)
                   PROVE  Block(cs, v) \in Seq(Events)
        OBVIOUS
      <4>1. \A i \in 1..Len(cs) : KeyEvent(cs[i], v) \in Events
        BY <1>1 DEF Events, Event, Values, KeyEvent
      <4> QED  BY <4>1 DEF Block
    <3> QED  BY <3>1, <3>2
  <2>6. CASE Len(codes) = 1
    <3>1. RemapInto(mappings, e) = <<KeyEvent(codes[1], v), SynReport>>
      BY <2>4, <2>6
    <3>2. Block(codes, v) = <<KeyEvent(codes[1], v)>>
      BY <2>2, <2>6 DEF Block
    <3>3. Remapped(e) = Block(codes, v) \o <<SynReport, SynReport>>
      BY <1>2, <3>1, <3>2 DEF Remapped
    <3> QED  BY <1>3, <2>2, <2>3, <3>3 DEF v, k
  <2>7. CASE Len(codes) # 1 /\ v = Press
    <3>1. RemapInto(mappings, e) = Presses(codes) \o <<SynReport>>
      BY <1>1, <2>4, <2>7
    <3>2. Remapped(e) = Block(codes, v) \o <<SynReport, SynReport>>
      BY <1>2, <2>2, <2>5, <2>7, <3>1 DEF Remapped, Presses, Block
    <3> QED  BY <1>3, <2>2, <2>3, <3>2 DEF v, k
  <2>8. CASE Len(codes) # 1 /\ v = Release
    <3> DEFINE cs == Reverse(codes)
    <3>1. RemapInto(mappings, e) = Releases(cs) \o <<SynReport>>
      BY <1>1, <2>4, <2>8
    <3>2. cs \in Seq(Keys \cup OutCodes) /\ DOMAIN cs = DOMAIN codes
      BY <2>2 DEF Reverse
    <3>3. \A c : (\E i \in DOMAIN codes : codes[i] = c) <=> \E i \in DOMAIN cs : cs[i] = c
      <4>1. \A i \in 1..Len(codes) : /\ (Len(codes) - i) + 1 \in 1..Len(codes)
                                     /\ (Len(codes) - ((Len(codes) - i) + 1)) + 1 = i
        BY <2>2
      <4>2. \A i \in 1..Len(codes) : cs[i] = codes[(Len(codes) - i) + 1]
        BY <2>2 DEF Reverse
      <4> HIDE DEF cs
      <4> QED  BY <2>2, <3>2, <4>1, <4>2
    <3> HIDE DEF cs
    <3>4. Spells(cs, k)
      BY <2>3, <3>3 DEF Spells
    <3>5. Remapped(e) = Block(cs, v) \o <<SynReport, SynReport>>
      BY <1>2, <2>5, <2>8, <3>1, <3>2 DEF Remapped, Releases, Block
    <3> QED  BY <1>3, <3>2, <3>4, <3>5 DEF v, k
  <2>9. CASE Len(codes) # 1 /\ v = Repeat
    <3>1. RemapInto(mappings, e) = <<>>
      BY <1>1, <2>4, <2>9
    <3>2. Block(<<>>, v) = <<>> /\ <<>> \in Seq(Keys \cup OutCodes)
      BY DEF Block
    <3>3. Remapped(e) = Block(<<>>, v) \o <<SynReport>>
      BY <1>2, <3>1, <3>2 DEF Remapped
    <3> QED  BY <1>3, <2>9, <3>2, <3>3 DEF v, k
  <2> QED  BY <1>1, <2>6, <2>7, <2>8, <2>9 DEF Values
<1> QED  BY <1>4, <1>5

(* Its events are written events.                                          *)
LEMMA RemapTypes ==
    ASSUME HandlerType, NEW e \in Event(Keys)
    PROVE  RemapInto(mappings, e) \in Seq(Events) /\ RemapInto(mappings, SynReport) \in Seq(Events)
<1> DEFINE k == e.code
           v == e.value
           codes == mappings[k]
<1>1. /\ k \in Keys /\ v \in Values /\ e \in Events /\ SynReport \in Events
      /\ SynReport.code = NoCode
  BY DEF Event, Events, Values, KeyEvent, SynReport, Release
<1>2. RemapInto(mappings, SynReport) \in Seq(Events)
  <2>1. NoCode \notin DOMAIN mappings
    BY MappedTo
  <2>2. RemapInto(mappings, SynReport) = <<SynReport>>
    BY <1>1, <2>1 DEF RemapInto
  <2> HIDE DEF k, v, codes
  <2> QED  BY <1>1, <2>2
<1>3. CASE k \notin DOMAIN mappings
  <2>1. RemapInto(mappings, e) = <<e>>
    BY <1>3 DEF RemapInto
  <2> HIDE DEF k, v, codes
  <2> QED  BY <1>1, <1>2, <2>1
<1>4. CASE k \in DOMAIN mappings
  <2>1. codes \in Seq(OutCodes)
    BY <1>4, MappedTo
  <2>2. RemapInto(mappings, e) =
            CASE Len(codes) = 1      -> <<KeyEvent(codes[1], v), SynReport>>
              [] Len(codes) # 1 /\ v = Press -> Presses(codes) \o <<SynReport>>
              [] Len(codes) # 1 /\ v = Release -> Releases(Reverse(codes)) \o <<SynReport>>
              [] Len(codes) # 1 /\ v = Repeat -> <<>>
    BY <1>4 DEF RemapInto
  <2>3. Press # Repeat /\ Press # Release /\ Release # Repeat
    BY DEF Press, Release, Repeat
  <2>4. \A c \in OutCodes : \A w \in Values : KeyEvent(c, w) \in Events
    BY DEF Events, Event, Values, KeyEvent
  <2> HIDE DEF codes, k, v
  <2>5. \A cs \in Seq(OutCodes) : Presses(cs) \in Seq(Events) /\ Releases(cs) \in Seq(Events)
    <3> SUFFICES ASSUME NEW cs \in Seq(OutCodes)
                 PROVE  Presses(cs) \in Seq(Events) /\ Releases(cs) \in Seq(Events)
      OBVIOUS
    <3>1. \A i \in 1..Len(cs) : KeyEvent(cs[i], Press) \in Events /\ KeyEvent(cs[i], Release) \in Events
      BY <2>4 DEF Values
    <3>2. DOMAIN cs = 1..Len(cs) /\ Len(cs) \in Nat
      OBVIOUS
    <3> QED  BY <3>1, <3>2 DEF Presses, Releases
  <2>6. Reverse(codes) \in Seq(OutCodes)
    BY <2>1 DEF Reverse
  <2>7. \A s \in Seq(Events) : s \o <<SynReport>> \in Seq(Events)
    BY <1>1
  <2>8. Len(codes) = 1 => <<KeyEvent(codes[1], v), SynReport>> \in Seq(Events)
    <3>1. Len(codes) = 1 => KeyEvent(codes[1], v) \in Events
      BY <1>1, <2>1, <2>4
    <3> QED  BY <1>1, <3>1
  <2>9. Presses(codes) \o <<SynReport>> \in Seq(Events)
        /\ Releases(Reverse(codes)) \o <<SynReport>> \in Seq(Events)
    <3>1. Presses(codes) \in Seq(Events) /\ Releases(Reverse(codes)) \in Seq(Events)
      BY <2>1, <2>5, <2>6
    <3> QED  BY <2>7, <3>1
  <2> DEFINE A == RemapInto(mappings, e)
             P == Presses(codes) \o <<SynReport>>
             Q == Releases(Reverse(codes)) \o <<SynReport>>
             O == <<KeyEvent(codes[1], v), SynReport>>
  <2>10. A \in Seq(Events)
    <3>1. A = CASE Len(codes) = 1 -> O [] Len(codes) # 1 /\ v = Press -> P
                [] Len(codes) # 1 /\ v = Release -> Q [] Len(codes) # 1 /\ v = Repeat -> <<>>
      BY <2>2
    <3>2. (Len(codes) = 1 => O \in Seq(Events)) /\ P \in Seq(Events) /\ Q \in Seq(Events)
          /\ <<>> \in Seq(Events)
      BY <2>8, <2>9
    <3>3. v = Press \/ v = Release \/ v = Repeat
      BY <1>1 DEF Values
    <3> HIDE DEF A, O, P, Q
    <3> QED  BY <2>3, <3>1, <3>2, <3>3
  <2> QED  BY <1>2, <2>10
<1> QED  BY <1>3, <1>4

(* What a batch is after an event was remapped into it.                    *)
Grown(events, e) == events \o Remapped(e)

(* What is down after a batch that has grown by an event: for a code that  *)
(* the key does not have, or a repeat, what was down before; for one it    *)
(* has, what the event says, from the end of its frame on.                 *)
LEMMA GrownAfter ==
    ASSUME HandlerType, NEW R \in Seq(Events), NEW e \in Event(Keys), NEW keys, NEW c \in Supported
    PROVE  /\ Grown(R, e) \in Seq(Events) /\ Len(Grown(R, e)) >= Len(R)
           /\ \A n \in 1..Len(R) : Grown(R, e)[n] = R[n]
           /\ Pending(Grown(R, e), KeyEvent(c, Press)) =>
                Pending(R, KeyEvent(c, Press)) \/ c \in Outputs(e.code)
           /\ \A n \in Len(R)..Len(Grown(R, e)) :
                /\ c \notin Outputs(e.code) \/ e.value = Repeat =>
                    (AfterOf(keys, Grown(R, e), n, c) <=> AfterOf(keys, R, Len(R), c))
                /\ /\ c \in Outputs(e.code)
                   /\ n = Len(Grown(R, e)) \/ (n > Len(R) /\ Grown(R, e)[n] = SynReport)
                   => /\ e.value = Press => AfterOf(keys, Grown(R, e), n, c)
                      /\ e.value = Release => ~AfterOf(keys, Grown(R, e), n, c)
<1> DEFINE v == e.value
           L == Len(R)
<1>1. v \in Values /\ Press # Repeat /\ Press # Release /\ Release # Repeat
  BY DEF Event, Values, Press, Release, Repeat
<1>2. PICK codes \in Seq(Keys \cup OutCodes), end \in Seq({SynReport}) :
        /\ Remapped(e) = Block(codes, v) \o end
        /\ Spells(codes, e.code) \/ (v = Repeat /\ codes = <<>>)
  BY RemapForm
<1> DEFINE T == Remapped(e)
           m == Len(codes)
<1>3. /\ T \in Seq(Events) /\ Len(T) = m + Len(end)
      /\ \A i \in 1..m : T[i] = KeyEvent(codes[i], v) /\ T[i] # SynReport
      /\ \A i \in (m + 1)..(m + Len(end)) : T[i] = SynReport
      /\ DOMAIN codes = 1..m
  <2>1. /\ Block(codes, v) \o end \in Seq(Events)
        /\ Len(Block(codes, v) \o end) = Len(codes) + Len(end)
        /\ \A i \in 1..Len(codes) : (Block(codes, v) \o end)[i] = KeyEvent(codes[i], v)
        /\ \A i \in (Len(codes) + 1)..(Len(codes) + Len(end)) :
            (Block(codes, v) \o end)[i] = SynReport
        /\ \A i \in 1..Len(codes) : KeyEvent(codes[i], v) # SynReport
    <3> HIDE DEF v
    <3> QED  BY <1>1, BlockShape
  <2>2. DOMAIN codes = 1..Len(codes)
    OBVIOUS
  <2> HIDE DEF v
  <2> QED  BY <1>2, <2>1, <2>2
<1>4. m \in Nat /\ Len(end) \in Nat /\ L \in Nat
  OBVIOUS
<1> HIDE DEF T, m, v
<1>5. /\ R \o T \in Seq(Events) /\ Len(R \o T) = L + Len(T)
      /\ \A n \in 1..L : (R \o T)[n] = R[n]
      /\ \A i \in 1..Len(T) : (R \o T)[L + i] = T[i]
  <2>1. T \in Seq(Events)
    BY <1>3
  <2> QED  BY <2>1
<1>6. Grown(R, e) = R \o T
  BY DEF Grown, T
<1>7. Len(T) \in Nat /\ DOMAIN T = 1..Len(T) /\ \A i \in 1..Len(T) : i \in 1..m \/ i \in (m + 1)..(m + Len(end))
  BY <1>3, <1>4
(* Which keys the events are about.                                        *)
<1>8. ASSUME NEW i \in DOMAIN T, NEW w \in {Press, Release}, T[i] = KeyEvent(c, w)
      PROVE  v = w /\ c \in Outputs(e.code)
  <2>1. SynReport # KeyEvent(c, w)
    BY RealCodes DEF SynReport, KeyEvent
  <2>2. i \in 1..m
    BY <1>3, <1>7, <1>8, <2>1
  <2>3. codes[i] = c /\ v = w
    <3>1. KeyEvent(codes[i], v) = KeyEvent(c, w)
      BY <1>3, <1>8, <2>2
    <3> QED  BY <3>1 DEF KeyEvent
  <2>4. Spells(codes, e.code)
    BY <1>1, <1>2, <2>3
  <2> QED  BY <1>3, <2>2, <2>3, <2>4 DEF Spells
<1>9. ASSUME NEW n \in L..(L + Len(T)), c \notin Outputs(e.code) \/ v = Repeat
      PROVE  AfterOf(keys, R \o T, n, c) <=> AfterOf(keys, R, L, c)
  <2>1. \A i \in DOMAIN T : T[i] \notin {KeyEvent(c, Press), KeyEvent(c, Release)}
    BY <1>1, <1>8, <1>9
  <2> QED  BY <1>3, <2>1, AfterAppended
<1>10. ASSUME NEW n \in L..(L + Len(T)), c \in Outputs(e.code), v # Repeat,
              n = L + Len(T) \/ (n > L /\ (R \o T)[n] = SynReport)
       PROVE  /\ v = Press => AfterOf(keys, R \o T, n, c)
              /\ v = Release => ~AfterOf(keys, R \o T, n, c)
  <2>1. PICK i \in 1..m : codes[i] = c
    BY <1>2, <1>3, <1>10 DEF Spells
  <2>2. i \in DOMAIN T /\ T[i] = KeyEvent(c, v)
    BY <1>3, <1>4, <1>7, <2>1
  <2>3. L + i <= n
    <3>1. CASE n = L + Len(T)
      BY <1>3, <1>4, <2>1, <3>1
    <3>2. CASE n > L /\ (R \o T)[n] = SynReport
      <4>1. n - L \in 1..Len(T) /\ L + (n - L) = n
        BY <1>4, <1>7, <3>2
      <4>2. T[n - L] = SynReport
        BY <1>5, <3>2, <4>1
      <4>3. n - L \notin 1..m
        BY <1>3, <4>2
      <4> QED  BY <1>4, <2>1, <4>1, <4>3
    <3> QED  BY <1>10, <3>1, <3>2
  <2>4. v = Press => \A j \in DOMAIN T : T[j] # KeyEvent(c, Release)
    BY <1>1, <1>8
  <2>5. v = Release => \A j \in DOMAIN T : T[j] # KeyEvent(c, Press)
    BY <1>1, <1>8
  <2>6. T \in Seq(Events) /\ n \in Len(R)..(Len(R) + Len(T))
    BY <1>3, <1>10
  <2>7. /\ T[i] = KeyEvent(c, Press) /\ Len(R) + i <= n
           /\ (\A j \in DOMAIN T : T[j] # KeyEvent(c, Release))
           => AfterOf(keys, R \o T, n, c)
        /\ T[i] = KeyEvent(c, Release) /\ Len(R) + i <= n
           /\ (\A j \in DOMAIN T : T[j] # KeyEvent(c, Press))
           => ~AfterOf(keys, R \o T, n, c)
    BY <2>2, <2>6, AfterAppended
  <2>8. Len(R) + i <= n
    BY <2>3
  <2> QED  BY <2>2, <2>4, <2>5, <2>7, <2>8
<1>11. Len(R \o T) >= L
  BY <1>4, <1>5, <1>7
<1>12. \A n \in L..(L + Len(T)) :
        /\ c \notin Outputs(e.code) \/ v = Repeat =>
            (AfterOf(keys, R \o T, n, c) <=> AfterOf(keys, R, L, c))
        /\ c \in Outputs(e.code) /\ (n = L + Len(T) \/ (n > L /\ (R \o T)[n] = SynReport))
           => /\ v = Press => AfterOf(keys, R \o T, n, c)
              /\ v = Release => ~AfterOf(keys, R \o T, n, c)
  BY <1>1, <1>9, <1>10
<1>13. ASSUME Pending(R \o T, KeyEvent(c, Press)), c \notin Outputs(e.code)
       PROVE  Pending(R, KeyEvent(c, Press))
  <2>1. PICK n \in 1..(L + Len(T)) : (R \o T)[n] = KeyEvent(c, Press)
    BY <1>5, <1>13 DEF Pending
  <2>2. CASE n \in 1..L
    BY <1>5, <2>1, <2>2 DEF Pending
  <2>3. CASE n \notin 1..L
    <3>1. n - L \in 1..Len(T) /\ L + (n - L) = n
      BY <1>4, <1>7, <2>3
    <3>2. T[n - L] = KeyEvent(c, Press)
      BY <1>5, <2>1, <3>1
    <3> QED  BY <1>7, <1>8, <1>13, <3>1, <3>2
  <2> QED  BY <2>2, <2>3
<1> QED  BY <1>5, <1>6, <1>11, <1>12, <1>13 DEF v

-----------------------------------------------------------------------------
(* Buffers.                                                                *)

(* A buffer with one more event.                                           *)
LEMMA AppendedEvents ==
    ASSUME NEW S, NEW events \in Seq(S), NEW e \in S, NEW x
    PROVE  /\ Append(events, e) \in Seq(S) /\ Append(events, e) # <<>>
           /\ Pending(Append(events, e), x) <=> Pending(events, x) \/ x = e
<1>1. /\ Append(events, e) \in Seq(S) /\ Len(Append(events, e)) = Len(events) + 1
      /\ \A i \in 1..Len(events) : Append(events, e)[i] = events[i]
      /\ Append(events, e)[Len(events) + 1] = e /\ Len(events) \in Nat
  OBVIOUS
<1>2. /\ DOMAIN events = 1..Len(events) /\ DOMAIN Append(events, e) = 1..(Len(events) + 1)
      /\ \A i \in 1..(Len(events) + 1) : i \in 1..Len(events) \/ i = Len(events) + 1
      /\ \A i \in 1..Len(events) : i \in 1..(Len(events) + 1)
      /\ Len(events) + 1 \in 1..(Len(events) + 1)
  BY <1>1
<1> DEFINE longer == Append(events, e)
<1> HIDE DEF longer
<1>3. Pending(longer, x) <=> Pending(events, x) \/ x = e
  BY <1>1, <1>2 DEF Pending, longer
<1> QED  BY <1>1, <1>3 DEF longer

(* A buffer without its first event.                                       *)
LEMMA RemainingEvents ==
    ASSUME NEW S, NEW events \in Seq(S), events # <<>>
    PROVE  /\ Head(events) \in S /\ Tail(events) \in Seq(S)
           /\ Len(events) # 1 => Tail(events) # <<>>
           /\ Head(events) = events[1] /\ 1 \in DOMAIN events
           /\ \A x : Pending(events, x) => x = Head(events) \/ Pending(Tail(events), x)
           /\ \A x : (\E j \in DOMAIN events : j > 1 /\ events[j] = x) => Pending(Tail(events), x)
<1> DEFINE rest == Tail(events)
           N == Len(events)
<1>1. /\ rest \in Seq(S) /\ Len(rest) = N - 1 /\ N \in Nat /\ N >= 1
      /\ \A i \in 1..(N - 1) : rest[i] = events[i + 1]
      /\ DOMAIN events = 1..N /\ DOMAIN rest = 1..(N - 1) /\ Head(events) = events[1]
      /\ Head(events) \in S
  OBVIOUS
<1>2. N # 1 => rest # <<>>
  BY <1>1
<1> HIDE DEF rest, N
<1>3. \A j \in 2..N : j - 1 \in 1..(N - 1) /\ (j - 1) + 1 = j
  BY <1>1
<1>4. ASSUME NEW j \in DOMAIN events, j > 1
      PROVE  Pending(rest, events[j])
  <2>1. j - 1 \in DOMAIN rest /\ rest[j - 1] = events[j]
    BY <1>1, <1>3, <1>4
  <2> QED  BY <2>1 DEF Pending
<1>5. \A x : Pending(events, x) => x = Head(events) \/ Pending(rest, x)
  <2>1. \A j \in DOMAIN events : j = 1 \/ j > 1
    BY <1>1
  <2> QED  BY <1>1, <1>4, <2>1 DEF Pending
<1>6. \A x : (\E j \in DOMAIN events : j > 1 /\ events[j] = x) => Pending(rest, x)
  BY <1>4
<1> QED  BY <1>1, <1>2, <1>5, <1>6 DEF rest, N

(* BufferShape for one reader.                                             *)
Tracks(events, held, codes) ==
    \A i \in DOMAIN events : \A k \in codes :
        /\ events[i] = KeyEvent(k, Press) =>
            k \in held \/ \E j \in DOMAIN events : j > i /\ events[j] = KeyEvent(k, Release)
        /\ events[i] = KeyEvent(k, Release) =>
            k \notin held \/ \E j \in DOMAIN events : j > i /\ events[j] = KeyEvent(k, Press)

(* A press is appended for a key that gets held, a release for one that is *)
(* let go.                                                                 *)
LEMMA TracksAppended ==
    ASSUME NEW S, NEW events \in Seq(S), NEW held, NEW codes, Tracks(events, held, codes),
           NEW k, NEW value \in Values, KeyEvent(k, value) \in S, NEW after,
           value = Press => after = held \cup {k},
           value = Release => after = held \ {k},
           value = Repeat => after = held
    PROVE  Tracks(Append(events, KeyEvent(k, value)), after, codes)
<1> DEFINE e == KeyEvent(k, value)
           longer == Append(events, e)
           N == Len(events)
<1>1. /\ longer \in Seq(S) /\ Len(longer) = N + 1 /\ N \in Nat
      /\ \A i \in 1..N : longer[i] = events[i]
      /\ longer[N + 1] = e
      /\ DOMAIN events = 1..N /\ DOMAIN longer = 1..(N + 1)
  OBVIOUS
<1>2. /\ \A i \in 1..(N + 1) : i \in 1..N \/ i = N + 1
      /\ \A i \in 1..N : i \in 1..(N + 1) /\ N + 1 > i
      /\ N + 1 \in 1..(N + 1)
  BY <1>1
<1>3. \A a, b, v, w : KeyEvent(a, v) = KeyEvent(b, w) <=> a = b /\ v = w
  BY DEF KeyEvent
<1>4. Press # Release /\ Press # Repeat /\ Release # Repeat
  BY DEF Press, Release, Repeat
<1> HIDE DEF longer, N
<1>5. ASSUME NEW i \in 1..N, NEW a \in codes, longer[i] = KeyEvent(a, Press)
      PROVE  a \in after \/ \E j \in DOMAIN longer : j > i /\ longer[j] = KeyEvent(a, Release)
  <2>1. a \in held \/ \E j \in DOMAIN events : j > i /\ events[j] = KeyEvent(a, Release)
    BY <1>1, <1>5 DEF Tracks
  <2>2. CASE a \in held
    <3>1. CASE a = k /\ value = Release
      BY <1>1, <1>2, <3>1
    <3>2. CASE ~(a = k /\ value = Release)
      BY <2>2, <3>2 DEF Values
    <3> QED  BY <3>1, <3>2
  <2>3. CASE \E j \in DOMAIN events : j > i /\ events[j] = KeyEvent(a, Release)
    BY <1>1, <1>2, <2>3
  <2> QED  BY <2>1, <2>2, <2>3
<1>6. ASSUME NEW i \in 1..N, NEW a \in codes, longer[i] = KeyEvent(a, Release)
      PROVE  a \notin after \/ \E j \in DOMAIN longer : j > i /\ longer[j] = KeyEvent(a, Press)
  <2>1. a \notin held \/ \E j \in DOMAIN events : j > i /\ events[j] = KeyEvent(a, Press)
    BY <1>1, <1>6 DEF Tracks
  <2>2. CASE a \notin held
    <3>1. CASE a = k /\ value = Press
      BY <1>1, <1>2, <3>1
    <3>2. CASE ~(a = k /\ value = Press)
      BY <2>2, <3>2 DEF Values
    <3> QED  BY <3>1, <3>2
  <2>3. CASE \E j \in DOMAIN events : j > i /\ events[j] = KeyEvent(a, Press)
    BY <1>1, <1>2, <2>3
  <2> QED  BY <2>1, <2>2, <2>3
<1>7. ASSUME NEW a \in codes
      PROVE  /\ longer[N + 1] = KeyEvent(a, Press) => a \in after
             /\ longer[N + 1] = KeyEvent(a, Release) => a \notin after
  BY <1>1, <1>3, <1>4
<1>8. Tracks(longer, after, codes)
  BY <1>1, <1>2, <1>5, <1>6, <1>7 DEF Tracks
<1> QED  BY <1>8 DEF longer

(* Reading an event leaves this as it is: it looks at later events only.   *)
LEMMA TracksRest ==
    ASSUME NEW S, NEW events \in Seq(S), events # <<>>, NEW held, NEW codes,
           Tracks(events, held, codes)
    PROVE  Tracks(Tail(events), held, codes)
<1> DEFINE rest == Tail(events)
           N == Len(events)
<1>1. /\ rest \in Seq(S) /\ N \in Nat /\ N >= 1
      /\ \A i \in 1..(N - 1) : rest[i] = events[i + 1]
      /\ DOMAIN events = 1..N /\ DOMAIN rest = 1..(N - 1)
  OBVIOUS
<1> HIDE DEF rest, N
<1>2. \A i \in 1..(N - 1) : i + 1 \in 1..N
  BY <1>1
<1>3. \A i \in 1..(N - 1) : \A j \in 1..N : j > i + 1 =>
            j - 1 \in 1..(N - 1) /\ j - 1 > i /\ (j - 1) + 1 = j
  BY <1>1
<1>4. ASSUME NEW i \in 1..(N - 1), NEW x, \E j \in DOMAIN events : j > i + 1 /\ events[j] = x
      PROVE  \E j \in DOMAIN rest : j > i /\ rest[j] = x
  <2>1. PICK j \in 1..N : j > i + 1 /\ events[j] = x
    BY <1>1, <1>4
  <2>2. rest[j - 1] = x
    BY <1>1, <1>3, <2>1
  <2> QED  BY <1>1, <1>3, <2>1, <2>2
<1>5. Tracks(rest, held, codes)
  <2> SUFFICES ASSUME NEW i \in 1..(N - 1), NEW k \in codes
               PROVE  /\ rest[i] = KeyEvent(k, Press) =>
                        k \in held \/ \E j \in DOMAIN rest : j > i /\ rest[j] = KeyEvent(k, Release)
                      /\ rest[i] = KeyEvent(k, Release) =>
                        k \notin held \/ \E j \in DOMAIN rest : j > i /\ rest[j] = KeyEvent(k, Press)
    BY <1>1 DEF Tracks
  <2>1. i + 1 \in DOMAIN events /\ rest[i] = events[i + 1]
    BY <1>1, <1>2
  <2> QED  BY <1>4, <2>1 DEF Tracks
<1> QED  BY <1>5 DEF rest

(* A key event by the user reaches the reader's buffer.                    *)
Typed(r, k, value) ==
    /\ \A q \in Readers :
        buffer'[q] = IF q = r /\ r \in opened THEN Append(buffer[r], KeyEvent(k, value))
                     ELSE buffer[q]
    /\ buffer' \in [Readers -> Seq(Event(Keys))]
    /\ \A q \in Readers : buffer'[q] \in Seq(Event(KeysOf[q]))
    /\ KeyEvent(k, value) \in Event(KeysOf[r])

(* Buffered in terms of the new buffers.                                   *)
LEMMA BufferedEffect ==
    ASSUME KeyType, NEW r \in Readers, NEW k \in KeysOf[r], NEW value \in Values,
           Buffered(r, k, value)
    PROVE  Typed(r, k, value)
<1> DEFINE e == KeyEvent(k, value)
<1>1. e \in Event(KeysOf[r]) /\ e \in Event(Keys)
  <2>1. k \in Keys
    BY DEF Keys
  <2> QED  BY <2>1 DEF Event, KeyEvent, Values
<1>2. /\ buffer \in [Readers -> Seq(Event(Keys))]
      /\ \A q \in Readers : buffer[q] \in Seq(Event(KeysOf[q]))
  BY DEF KeyType
<1> HIDE DEF e
<1>3. Append(buffer[r], e) \in Seq(Event(Keys)) /\ Append(buffer[r], e) \in Seq(Event(KeysOf[r]))
  BY <1>1, <1>2
<1>4. buffer' = IF r \in opened THEN [buffer EXCEPT ![r] = Append(@, e)] ELSE buffer
  BY DEF Buffered, e
<1>5. \A q \in Readers :
        buffer'[q] = IF q = r /\ r \in opened THEN Append(buffer[r], e) ELSE buffer[q]
  BY <1>2, <1>4
<1>6. buffer' \in [Readers -> Seq(Event(Keys))]
  BY <1>2, <1>3, <1>4
<1>7. \A q \in Readers : buffer'[q] \in Seq(Event(KeysOf[q]))
  BY <1>2, <1>3, <1>5
<1> QED  BY <1>1, <1>5, <1>6, <1>7 DEF Typed, e

(* What the user's keys do.                                                *)
UserKey(r, k, value) ==
    /\ k \in KeysOf[r] /\ Typed(r, k, value)
    /\ \A q \in Readers \ {r} : caught'[q] = caught[q]
    /\ value = Press => caught'[r] = IF r \in opened THEN caught[r] \cup {k} ELSE caught[r]
    /\ value = Release => caught'[r] = caught[r] \ {k}
    /\ value = Repeat => caught'[r] = caught[r] /\ r \in opened
    /\ UNCHANGED <<opened, phase, handlerVars, ready, remapped, outVars>>

(* Every step of the user is such a step, and keeps the types of the keys. *)
LEMMA UserEffect ==
    ASSUME KeyType, User
    PROVE  KeyType' /\ \E r \in Readers, k \in Keys, value \in Values : UserKey(r, k, value)
<1>0. PICK r \in Readers : \E k \in KeysOf[r] : PressKey(r, k) \/ ReleaseKey(r, k) \/ RepeatKey(r, k)
  BY DEF User
<1>1. PICK k \in KeysOf[r] : PressKey(r, k) \/ ReleaseKey(r, k) \/ RepeatKey(r, k)
  BY <1>0
<1>2. k \in Keys /\ Press \in Values /\ Release \in Values /\ Repeat \in Values
      /\ Press # Repeat /\ Press # Release /\ Release # Repeat
  BY DEF Keys, Values, Press, Release, Repeat
<1>3. /\ down \in [Readers -> SUBSET Keys] /\ caught \in [Readers -> SUBSET Keys]
      /\ \A q \in Readers : caught[q] \subseteq down[q] /\ down[q] \subseteq KeysOf[q]
  BY DEF KeyType
<1>4. CASE PressKey(r, k)
  <2>1. Typed(r, k, Press)
    BY <1>2, <1>4, BufferedEffect DEF PressKey
  <2>2. /\ down' = [down EXCEPT ![r] = @ \cup {k}]
        /\ caught' = IF r \in opened THEN [caught EXCEPT ![r] = @ \cup {k}] ELSE caught
        /\ UNCHANGED <<opened, phase, handlerVars, ready, remapped, outVars>>
    BY <1>4 DEF PressKey
  <2>3. /\ {down', caught'} \subseteq [Readers -> SUBSET Keys]
        /\ \A q \in Readers : caught'[q] \subseteq down'[q] /\ down'[q] \subseteq KeysOf[q]
    BY <1>2, <1>3, <2>2
  <2>4. UserKey(r, k, Press)
    BY <1>2, <1>3, <2>1, <2>2 DEF UserKey
  <2> QED  BY <1>2, <2>1, <2>3, <2>4 DEF KeyType, Typed
<1>5. CASE ReleaseKey(r, k)
  <2>1. Typed(r, k, Release)
    BY <1>2, <1>5, BufferedEffect DEF ReleaseKey
  <2>2. /\ down' = [down EXCEPT ![r] = @ \ {k}]
        /\ caught' = [caught EXCEPT ![r] = @ \ {k}]
        /\ UNCHANGED <<opened, phase, handlerVars, ready, remapped, outVars>>
    BY <1>5 DEF ReleaseKey
  <2>3. /\ {down', caught'} \subseteq [Readers -> SUBSET Keys]
        /\ \A q \in Readers : caught'[q] \subseteq down'[q] /\ down'[q] \subseteq KeysOf[q]
    BY <1>2, <1>3, <2>2
  <2>4. UserKey(r, k, Release)
    BY <1>2, <1>3, <2>1, <2>2 DEF UserKey
  <2> QED  BY <1>2, <2>1, <2>3, <2>4 DEF KeyType, Typed
<1>6. CASE RepeatKey(r, k)
  <2>1. Typed(r, k, Repeat)
    BY <1>2, <1>6, BufferedEffect DEF RepeatKey
  <2>2. UNCHANGED <<down, caught, opened, phase, handlerVars, ready, remapped, outVars>>
    BY <1>6 DEF RepeatKey
  <2>3. UserKey(r, k, Repeat)
    BY <1>2, <1>6, <2>1, <2>2 DEF UserKey, RepeatKey
  <2> QED  BY <1>2, <1>3, <2>1, <2>2, <2>3 DEF KeyType, Typed
<1> QED  BY <1>1, <1>4, <1>5, <1>6

(* What Fetch takes out of a buffer.                                       *)
LEMMA FetchEffect ==
    ASSUME TypeOK, PhaseShape, NEW r \in Readers, Fetch(r)
    PROVE  /\ buffer[r] # <<>> /\ buffer[r] \in Seq(Event(KeysOf[r]))
           /\ Head(buffer[r]) \in Event(KeysOf[r]) /\ Head(buffer[r]) \in Event(Keys)
           /\ remapped' = Grown(remapped, Head(buffer[r])) /\ remapped' \in Seq(Events)
           /\ \A q \in Readers : buffer'[q] = IF q = r THEN Tail(buffer[r]) ELSE buffer[q]
           /\ buffer' \in [Readers -> Seq(Event(Keys))]
           /\ \A q \in Readers : buffer'[q] \in Seq(Event(KeysOf[q]))
           /\ UNCHANGED <<down, caught, opened, phase, handlerVars, outVars>>
           /\ phase = "fetch" /\ ready' \subseteq ready
           /\ \A q \in ready' : buffer'[q] # <<>>
<1>1. /\ buffer \in [Readers -> Seq(Event(Keys))]
      /\ \A q \in Readers : buffer[q] \in Seq(Event(KeysOf[q]))
      /\ remapped \in Seq(Events) /\ HandlerType
      /\ ready \subseteq Readers
  BY HandlerIs DEF TypeOK, KeyType, RunType, Events, OutCodes
<1>2. /\ phase = "fetch" /\ r \in ready
      /\ remapped' = remapped \o RemapInto(mappings, Head(buffer[r])) \o RemapInto(mappings, SynReport)
      /\ buffer' = [buffer EXCEPT ![r] = Tail(@)]
      /\ ready' = IF Len(buffer[r]) = 1 THEN ready \ {r} ELSE ready
      /\ UNCHANGED <<down, caught, opened, phase, handlerVars, outVars>>
  BY DEF Fetch
<1>3. buffer[r] # <<>> /\ \A q \in ready : buffer[q] # <<>>
  BY <1>2 DEF PhaseShape
<1>4. /\ Head(buffer[r]) \in Event(KeysOf[r]) /\ Tail(buffer[r]) \in Seq(Event(KeysOf[r]))
      /\ Head(buffer[r]) \in Event(Keys) /\ Tail(buffer[r]) \in Seq(Event(Keys))
      /\ Len(buffer[r]) # 1 => Tail(buffer[r]) # <<>>
  BY <1>1, <1>3, RemainingEvents
<1>5. /\ \A q \in Readers : buffer'[q] = IF q = r THEN Tail(buffer[r]) ELSE buffer[q]
      /\ buffer' \in [Readers -> Seq(Event(Keys))]
  BY <1>1, <1>2, <1>4
<1>6. \A q \in Readers : buffer'[q] \in Seq(Event(KeysOf[q]))
  BY <1>1, <1>4, <1>5
<1>7. ready' \subseteq ready /\ \A q \in ready' : buffer'[q] # <<>>
  BY <1>1, <1>2, <1>3, <1>4, <1>5
<1>8. remapped' = Grown(remapped, Head(buffer[r])) /\ remapped' \in Seq(Events)
  <2> DEFINE e == Head(buffer[r])
             A == RemapInto(mappings, e)
             B == RemapInto(mappings, SynReport)
  <2>1. A \in Seq(Events) /\ B \in Seq(Events)
    BY <1>1, <1>4, RemapTypes
  <2>2. remapped' = remapped \o A \o B
    BY <1>2
  <2> HIDE DEF A, B, e
  <2>3. remapped \o A \o B = remapped \o (A \o B) /\ remapped \o A \o B \in Seq(Events)
    BY <1>1, <2>1
  <2> QED  BY <2>2, <2>3 DEF Grown, Remapped, A, B, e
<1> QED  BY <1>1, <1>2, <1>3, <1>4, <1>5, <1>6, <1>7, <1>8

-----------------------------------------------------------------------------
(* The steps that take nothing from a buffer and write nothing: some leave *)
(* the keys alone, some reset them.                                        *)
Quiet ==
    /\ UNCHANGED <<caught, buffer, mappings, vdown, remapped>>
    /\ shown' = shown \/ (remapped = <<>> /\ shown' = vdown)
    /\ phase = "closing" => phase' = "closing"
Reset ==
    /\ vdown' = {} /\ shown' = {} /\ remapped' = <<>>
    /\ phase' = "closing" \/ \A r \in Readers : caught'[r] = {}

(* Every other step is a user's, Fetch or Emit.                            *)
LEMMA NextKinds ==
    ASSUME KeyType, PhaseShape, [Next]_vars
    PROVE  User \/ (\E r \in Readers : Fetch(r)) \/ Emit \/ Quiet \/ Reset
<1>1. CASE User
  BY <1>1
<1>2. ASSUME NEW r \in Readers, Open(r)
      PROVE  Quiet
  BY <1>2 DEF Open, Quiet, keyVars, handlerVars, outVars
<1>3. ASSUME NEW r \in Readers, CloseReader(r)
      PROVE  Reset
  BY <1>3 DEF CloseReader, Reset, PhaseShape, outVars
<1>4. CASE CreateWriter
  BY <1>4 DEF CreateWriter, Quiet, keyVars, handlerVars, outVars
<1>5. CASE Poll
  BY <1>5 DEF Poll, Quiet, keyVars, handlerVars, outVars, PhaseShape
<1>6. CASE FetchedAll
  BY <1>6 DEF FetchedAll, Quiet, keyVars, handlerVars, outVars
<1>7. CASE EmitEnds
  BY <1>7 DEF EmitEnds, Quiet, keyVars, handlerVars, outVars
<1>8. CASE Closed
  BY <1>8 DEF Closed, Reset, keyVars, outVars, PhaseShape
<1>9. CASE Stop
  BY <1>9 DEF Stop, Reset
<1>10. ASSUME NEW entries \in Presets, Start(entries)
       PROVE  Reset
  BY <1>10 DEF Start, Reset, keyVars, outVars, PhaseShape
<1>11. CASE UNCHANGED vars
  BY <1>11 DEF vars, Quiet, keyVars, handlerVars, outVars
<1> QED
  BY <1>1, <1>2, <1>3, <1>4, <1>5, <1>6, <1>7, <1>8, <1>9, <1>10, <1>11 DEF Next, Run

-----------------------------------------------------------------------------
(* Each step keeps the types and the phases' shape.                        *)

(* Types and phases.                                                       *)
LEMMA TypeStep ==
    ASSUME TypeOK, PhaseShape, [Next]_vars
    PROVE  TypeOK' /\ PhaseShape'
<1>0. KeyType /\ RunType
  BY DEF TypeOK
<1>1. CASE User
  <2>1. KeyType'
    BY <1>0, <1>1, UserEffect
  <2>2. PICK r \in Readers, k \in Keys, value \in Values : UserKey(r, k, value)
    BY <1>0, <1>1, UserEffect
  <2>3. UNCHANGED <<opened, phase, preset, mappings, ready, remapped, vdown, shown>>
    BY <2>2 DEF UserKey, handlerVars, outVars
  <2>4. RunType'
    BY <1>0, <2>3 DEF RunType
  <2>5. /\ \A q \in ready : buffer'[q] # <<>>
        /\ \A q \in Readers \ opened : caught'[q] = {} /\ buffer'[q] = <<>>
    <3>1. ready \subseteq Readers /\ buffer \in [Readers -> Seq(Event(Keys))]
          /\ KeyEvent(k, value) \in Event(Keys)
          /\ \A q \in Readers : caught[q] \subseteq Keys
      BY <1>0, <2>2 DEF RunType, KeyType, Event, KeyEvent, Values
    <3>2. Append(buffer[r], KeyEvent(k, value)) # <<>>
      BY <3>1, AppendedEvents
    <3>3. \A q \in Readers :
            buffer'[q] = IF q = r /\ r \in opened THEN Append(buffer[r], KeyEvent(k, value))
                         ELSE buffer[q]
      BY <2>2 DEF UserKey, Typed
    <3>4. \A q \in Readers \ opened : caught'[q] \subseteq caught[q]
      BY <2>2 DEF UserKey, Values
    <3> QED  BY <3>1, <3>2, <3>3, <3>4 DEF PhaseShape
  <2>6. PhaseShape'
    BY <2>3, <2>5 DEF PhaseShape
  <2> QED  BY <2>1, <2>4, <2>6 DEF TypeOK
<1>2. ASSUME NEW r \in Readers, Fetch(r)
      PROVE  TypeOK' /\ PhaseShape'
  <2>1. /\ buffer' \in [Readers -> Seq(Event(Keys))]
        /\ \A q \in Readers : buffer'[q] \in Seq(Event(KeysOf[q]))
        /\ UNCHANGED <<down, caught, opened, phase, handlerVars, outVars>>
        /\ phase = "fetch" /\ ready' \subseteq ready /\ remapped' \in Seq(Events)
        /\ \A q \in ready' : buffer'[q] # <<>>
        /\ \A q \in Readers : buffer'[q] = IF q = r THEN Tail(buffer[r]) ELSE buffer[q]
        /\ buffer[r] # <<>>
    BY <1>2, FetchEffect
  <2>2. KeyType'
    BY <1>0, <2>1 DEF KeyType
  <2>3. RunType'
    BY <1>0, <2>1 DEF RunType, handlerVars, outVars, Events, OutCodes
  <2>4. PhaseShape'
    BY <2>1 DEF PhaseShape, handlerVars, outVars
  <2> QED  BY <2>2, <2>3, <2>4 DEF TypeOK
<1>3. CASE Emit
  <2>1. KeyType'
    BY <1>0, <1>3 DEF Emit, KeyType, keyVars
  <2>2. remapped' \in Seq(Events)
    BY <1>0, <1>3 DEF Emit, RunType, Events, OutCodes
  <2>3. vdown' \subseteq Supported /\ shown' \subseteq Supported
    BY <1>0, <1>3 DEF Emit, RunType, Applied
  <2>4. RunType'
    BY <1>0, <1>3, <2>2, <2>3 DEF Emit, RunType, keyVars, handlerVars, Events, OutCodes
  <2>5. PhaseShape'
    BY <1>3 DEF Emit, PhaseShape, keyVars, handlerVars
  <2> QED  BY <2>1, <2>4, <2>5 DEF TypeOK
<1>4. ASSUME NEW r \in Readers, Open(r)
      PROVE  TypeOK' /\ PhaseShape'
  BY <1>0, <1>4 DEF Open, TypeOK, KeyType, RunType, PhaseShape, keyVars, handlerVars, outVars
<1>5. ASSUME NEW r \in Readers, CloseReader(r)
      PROVE  TypeOK' /\ PhaseShape'
  <2>1. /\ buffer' = [buffer EXCEPT ![r] = <<>>] /\ caught' = [caught EXCEPT ![r] = {}]
        /\ opened' = opened \ {r} /\ phase = "closing"
        /\ UNCHANGED <<down, phase, preset, mappings, ready, remapped, vdown, shown>>
    BY <1>5 DEF CloseReader, handlerVars, outVars
  <2>2. <<>> \in Seq(Event(Keys)) /\ <<>> \in Seq(Event(KeysOf[r]))
    OBVIOUS
  <2>3. KeyType'
    BY <1>0, <2>1, <2>2 DEF KeyType
  <2>4. ready = {}
    BY <2>1 DEF PhaseShape
  <2>5. RunType'
    BY <1>0, <2>1, <2>4 DEF RunType
  <2>6. PhaseShape'
    BY <1>0, <2>1, <2>4 DEF PhaseShape, KeyType
  <2> QED  BY <2>3, <2>5, <2>6 DEF TypeOK
<1>6. CASE CreateWriter
  BY <1>0, <1>6 DEF CreateWriter, TypeOK, KeyType, RunType, PhaseShape, keyVars, handlerVars, outVars
<1>7. CASE Poll
  <2>1. KeyType'
    BY <1>0, <1>7 DEF Poll, KeyType, keyVars
  <2>2. RunType'
    <3>1. <<>> \in Seq(Events)
      OBVIOUS
    <3> QED  BY <1>0, <1>7, <3>1 DEF Poll, RunType, keyVars, handlerVars, outVars, Events, OutCodes
  <2>3. PhaseShape'
    BY <1>7 DEF Poll, PhaseShape, keyVars, handlerVars, outVars
  <2> QED  BY <2>1, <2>2, <2>3 DEF TypeOK
<1>8. CASE FetchedAll
  BY <1>0, <1>8 DEF FetchedAll, TypeOK, KeyType, RunType, PhaseShape, keyVars, handlerVars, outVars
<1>9. CASE EmitEnds
  BY <1>0, <1>9 DEF EmitEnds, TypeOK, KeyType, RunType, PhaseShape, keyVars, handlerVars, outVars
<1>10. CASE Closed
  BY <1>0, <1>10 DEF Closed, TypeOK, KeyType, RunType, PhaseShape, keyVars, handlerVars, outVars
<1>11. CASE Stop
  BY <1>0, <1>11 DEF Stop, TypeOK, KeyType, RunType, PhaseShape, keyVars, handlerVars, outVars
<1>12. ASSUME NEW entries \in Presets, Start(entries)
       PROVE  TypeOK' /\ PhaseShape'
  <2>1. <<preset, mappings>>' \in Handlers
    BY <1>12 DEF Start, Handlers
  <2> QED
    BY <1>0, <1>12, <2>1 DEF Start, TypeOK, KeyType, RunType, PhaseShape, keyVars, handlerVars, outVars
<1>13. CASE UNCHANGED vars
  BY <1>0, <1>13 DEF vars, TypeOK, KeyType, RunType, PhaseShape, keyVars, handlerVars, outVars
<1> QED
  BY <1>1, <1>2, <1>3, <1>4, <1>5, <1>6, <1>7, <1>8, <1>9, <1>10, <1>11, <1>12, <1>13 DEF Next, Run

(* The buffers go on telling what is held.                                 *)
LEMMA BufferIsTracks ==
    BufferShape <=> \A r \in Readers : Tracks(buffer[r], caught[r], KeysOf[r])
BY DEF BufferShape, Later, Tracks

(* A user's event is appended, Fetch takes the first one, and closing a    *)
(* reader clears both.                                                     *)
LEMMA BufferStep ==
    ASSUME TypeOK, PhaseShape, BufferShape, [Next]_vars
    PROVE  BufferShape'
<1>0. /\ KeyType
      /\ \A q \in Readers : Tracks(buffer[q], caught[q], KeysOf[q])
      /\ \A q \in Readers : buffer[q] \in Seq(Event(KeysOf[q]))
  BY BufferIsTracks DEF TypeOK, KeyType
<1>1. SUFFICES \A q \in Readers : Tracks(buffer'[q], caught'[q], KeysOf[q])
  BY DEF BufferShape, Later, Tracks
<1>2. CASE User
  <2>1. PICK r \in Readers, k \in Keys, value \in Values : UserKey(r, k, value)
    BY <1>0, <1>2, UserEffect
  <2> DEFINE e == KeyEvent(k, value)
  <2>2. /\ \A q \in Readers :
            buffer'[q] = IF q = r /\ r \in opened THEN Append(buffer[r], e) ELSE buffer[q]
        /\ \A q \in Readers \ {r} : caught'[q] = caught[q]
        /\ value = Press => caught'[r] = IF r \in opened THEN caught[r] \cup {k} ELSE caught[r]
        /\ value = Release => caught'[r] = caught[r] \ {k}
        /\ value = Repeat => caught'[r] = caught[r] /\ r \in opened
        /\ e \in Event(KeysOf[r])
    BY <2>1 DEF UserKey, Typed
  <2>3. CASE r \in opened
    <3> HIDE DEF e
    <3>1. Tracks(Append(buffer[r], e), caught'[r], KeysOf[r])
      BY <1>0, <2>2, <2>3, TracksAppended DEF e
    <3> QED  BY <1>0, <2>2, <2>3, <3>1
  <2>4. CASE r \notin opened
    <3>1. caught[r] = {}
      BY <2>4 DEF PhaseShape
    <3>2. caught'[r] = caught[r]
      BY <2>2, <2>4, <3>1 DEF Values
    <3> QED  BY <1>0, <2>2, <2>4, <3>2
  <2> QED  BY <2>3, <2>4
<1>3. ASSUME NEW r \in Readers, Fetch(r)
      PROVE  \A q \in Readers : Tracks(buffer'[q], caught'[q], KeysOf[q])
  <2>1. /\ buffer[r] # <<>> /\ caught' = caught
        /\ \A q \in Readers : buffer'[q] = IF q = r THEN Tail(buffer[r]) ELSE buffer[q]
    BY <1>3, FetchEffect
  <2>2. Tracks(Tail(buffer[r]), caught[r], KeysOf[r])
    BY <1>0, <2>1, TracksRest
  <2> QED  BY <1>0, <2>1, <2>2
<1>4. ASSUME NEW r \in Readers, CloseReader(r)
      PROVE  \A q \in Readers : Tracks(buffer'[q], caught'[q], KeysOf[q])
  <2>1. \A q \in Readers : IF q = r THEN buffer'[q] = <<>>
                           ELSE buffer'[q] = buffer[q] /\ caught'[q] = caught[q]
    BY <1>0, <1>4 DEF CloseReader, KeyType
  <2>2. Tracks(<<>>, caught'[r], KeysOf[r])
    BY DEF Tracks
  <2> QED  BY <1>0, <2>1, <2>2
<1>5. CASE UNCHANGED <<caught, buffer>>
  BY <1>0, <1>5
<1>6. User \/ (\E r \in Readers : Fetch(r) \/ CloseReader(r)) \/ UNCHANGED <<caught, buffer>>
  BY DEF Next, Run, Open, CreateWriter, Poll, FetchedAll, Emit, EmitEnds, Closed, Stop, Start, vars, keyVars
<1> QED  BY <1>2, <1>3, <1>4, <1>5, <1>6

-----------------------------------------------------------------------------
(* What the steps do to what is down after the batch.                      *)

(* After and Finally, now and after a step, in terms of AfterOf.           *)
LEMMA AfterIs ==
    ASSUME NEW n, NEW c
    PROVE  /\ After(n, c) <=> AfterOf(vdown, remapped, n, c)
           /\ After(n, c)' <=> AfterOf(vdown', remapped', n, c)
           /\ Finally(c) <=> AfterOf(vdown, remapped, Len(remapped), c)
           /\ Finally(c)' <=> AfterOf(vdown', remapped', Len(remapped'), c)
BY DEF Finally, After, AfterOf

(* Before the first event: what is down.                                   *)
LEMMA AfterNothing ==
    ASSUME NEW keys, NEW R, NEW c
    PROVE  AfterOf(keys, R, 0, c) <=> c \in keys
BY DEF AfterOf

(* The codes of a key depend on the mappings only.                         *)
LEMMA SameCodes ==
    ASSUME mappings' = mappings
    PROVE  /\ \A k : Outputs(k)' = Outputs(k)
           /\ \A c : Producers(c)' = Producers(c)
           /\ \A r, k : Own(r, k)' = Own(r, k)
<1>1. \A k : Outputs(k)' = Outputs(k)
  BY DEF Outputs
<1>2. \A c : Producers(c)' = Producers(c)
  BY <1>1 DEF Producers
<1>3. \A r, k : Own(r, k)' = Own(r, k)
  BY <1>1, <1>2 DEF Own
<1> QED  BY <1>1, <1>2, <1>3

(* A code of its own is produced by no other key.                          *)
LEMMA OwnCodes ==
    ASSUME NEW r \in Readers, NEW k \in KeysOf[r]
    PROVE  /\ \A c \in Outputs(k) : c \in Supported /\ <<r, k>> \in Producers(c)
           /\ \A c \in Own(r, k) : c \in Supported /\ c \in Outputs(k)
           /\ \A c \in Own(r, k) : \A q \in Readers : \A x \in KeysOf[q] :
                c \in Outputs(x) => q = r /\ x = k
<1>1. \A q \in Readers : \A x \in KeysOf[q] : \A c \in Outputs(x) : <<q, x>> \in Producers(c)
  <2> SUFFICES ASSUME NEW q \in Readers, NEW x \in KeysOf[q], NEW c \in Outputs(x)
               PROVE  <<q, x>> \in Producers(c)
    OBVIOUS
  <2>1. <<q, x>> \in Readers \X Keys /\ <<q, x>>[1] = q /\ <<q, x>>[2] = x
    BY DEF Keys
  <2> QED  BY <2>1 DEF Producers
<1>2. \A c \in Outputs(k) : c \in Supported
  BY DEF Outputs
<1>3. \A c \in Own(r, k) : c \in Outputs(k) /\ Producers(c) = {<<r, k>>}
  BY DEF Own
<1>4. \A c \in Own(r, k) : \A q \in Readers : \A x \in KeysOf[q] :
        c \in Outputs(x) => <<q, x>> = <<r, k>>
  BY <1>1, <1>3
<1> QED  BY <1>1, <1>2, <1>3, <1>4

Read(r) == Head(buffer[r])

(* GrownAfter for a step of Fetch.                                         *)
LEMMA FetchedAfter ==
    ASSUME TypeOK, PhaseShape, NEW r \in Readers, Fetch(r), NEW c \in Supported
    PROVE  /\ Len(remapped) \in Nat /\ Len(remapped') \in Nat /\ Len(remapped') >= Len(remapped)
           /\ \A n \in 0..Len(remapped) : After(n, c)' <=> After(n, c)
           /\ \A n \in 1..Len(remapped) : remapped'[n] = remapped[n]
           /\ Pending(remapped', KeyEvent(c, Press)) =>
                Pending(remapped, KeyEvent(c, Press)) \/ c \in Outputs(Read(r).code)
           /\ \A n \in Len(remapped)..Len(remapped') :
                /\ c \notin Outputs(Read(r).code) \/ Read(r).value = Repeat =>
                    (After(n, c)' <=> Finally(c))
                /\ /\ c \in Outputs(Read(r).code)
                   /\ n = Len(remapped') \/ (n > Len(remapped) /\ remapped'[n] = SynReport)
                   => /\ Read(r).value = Press => After(n, c)'
                      /\ Read(r).value = Release => ~After(n, c)'
<1> DEFINE R == remapped
           e == Read(r)
<1>1. /\ HandlerType /\ R \in Seq(Events) /\ e \in Event(Keys)
      /\ remapped' = Grown(R, e) /\ vdown' = vdown
  <2>1. HandlerType /\ R \in Seq(Events)
    BY HandlerIs DEF TypeOK, RunType, Events, OutCodes
  <2> QED  BY <2>1, FetchEffect DEF Read, outVars
<1>2. /\ Grown(R, e) \in Seq(Events) /\ Len(Grown(R, e)) >= Len(R)
      /\ \A n \in 1..Len(R) : Grown(R, e)[n] = R[n]
      /\ Pending(Grown(R, e), KeyEvent(c, Press)) =>
            Pending(R, KeyEvent(c, Press)) \/ c \in Outputs(e.code)
      /\ \A n \in Len(R)..Len(Grown(R, e)) :
            /\ c \notin Outputs(e.code) \/ e.value = Repeat =>
                (AfterOf(vdown, Grown(R, e), n, c) <=> AfterOf(vdown, R, Len(R), c))
            /\ /\ c \in Outputs(e.code)
               /\ n = Len(Grown(R, e)) \/ (n > Len(R) /\ Grown(R, e)[n] = SynReport)
               => /\ e.value = Press => AfterOf(vdown, Grown(R, e), n, c)
                  /\ e.value = Release => ~AfterOf(vdown, Grown(R, e), n, c)
  <2> HIDE DEF R, e
  <2> QED  BY <1>1, GrownAfter
<1> HIDE DEF e
<1>3. Len(R) \in Nat /\ Len(remapped') \in Nat
  BY <1>1, <1>2
<1>4. \A n \in 0..Len(R) : After(n, c)' <=> After(n, c)
  <2> SUFFICES ASSUME NEW n \in 0..Len(R)
               PROVE  After(n, c)' <=> After(n, c)
    OBVIOUS
  <2>1. n \in Nat /\ \A i \in 1..n : remapped'[i] = R[i]
    BY <1>1, <1>2, <1>3
  <2>2. AfterOf(vdown, remapped', n, c) <=> AfterOf(vdown, R, n, c)
    BY <2>1, AfterSame
  <2> QED  BY <1>1, <2>2, AfterIs
<1>5. \A n : After(n, c)' <=> AfterOf(vdown, Grown(R, e), n, c)
  BY <1>1, AfterIs
<1>6. Finally(c) <=> AfterOf(vdown, R, Len(R), c)
  BY AfterIs
<1> QED  BY <1>1, <1>2, <1>3, <1>4, <1>5, <1>6 DEF e

(* AfterEmitted for a step of Emit.                                        *)
LEMMA EmittedAfter ==
    ASSUME TypeOK, Emit, NEW c \in Supported
    PROVE  /\ Len(remapped) \in Nat /\ Len(remapped) >= 1 /\ Len(remapped') = Len(remapped) - 1
           /\ \A n \in 0..Len(remapped') : After(n, c)' <=> After(n + 1, c)
           /\ Finally(c)' <=> Finally(c)
           /\ \A n \in 1..Len(remapped') : remapped'[n] = remapped[n + 1]
           /\ Head(remapped) = remapped[1]
<1>1. /\ remapped \in Seq(Events) /\ remapped # <<>> /\ remapped' = Tail(remapped)
      /\ vdown' = Applied(vdown, Head(remapped))
  BY DEF TypeOK, RunType, Events, OutCodes, Emit
<1>2. /\ Len(remapped) \in Nat /\ Len(remapped) >= 1 /\ Len(remapped') = Len(remapped) - 1
      /\ \A n \in 1..Len(remapped') : remapped'[n] = remapped[n + 1]
      /\ Head(remapped) = remapped[1] /\ Head(remapped) \in Events
  BY <1>1
<1>3. /\ Head(remapped).value \in {Press, Release, Repeat}
      /\ Head(remapped) = KeyEvent(Head(remapped).code, Head(remapped).value)
  BY <1>2 DEF Events, Event, KeyEvent
<1>4. \A n \in 0..Len(remapped') : After(n, c)' <=> After(n + 1, c)
  <2> SUFFICES ASSUME NEW n \in 0..Len(remapped')
               PROVE  After(n, c)' <=> After(n + 1, c)
    OBVIOUS
  <2>1. n \in 0..(Len(remapped) - 1)
    BY <1>2
  <2>2. AfterOf(Applied(vdown, Head(remapped)), Tail(remapped), n, c)
            <=> AfterOf(vdown, remapped, n + 1, c)
    BY <1>1, <1>3, <2>1, AfterEmitted
  <2> QED  BY <1>1, <2>2, AfterIs
<1>5. Finally(c)' <=> Finally(c)
  <2>1. Len(remapped') \in 0..Len(remapped') /\ Len(remapped') + 1 = Len(remapped)
    BY <1>2
  <2>2. Len(remapped') \in 0..(Len(remapped) - 1)
    BY <1>2
  <2>3. AfterOf(Applied(vdown, Head(remapped)), Tail(remapped), Len(remapped'), c)
            <=> AfterOf(vdown, remapped, Len(remapped') + 1, c)
    BY <1>1, <1>3, <2>2, AfterEmitted
  <2> QED  BY <1>1, <2>1, <2>3, AfterIs
<1> QED  BY <1>2, <1>4, <1>5

-----------------------------------------------------------------------------
(* What holds of the batch is kept.                                        *)

(* What a step of the user leaves in the buffers.                          *)
LEMMA UserAfter ==
    ASSUME TypeOK, PhaseShape, User
    PROVE  /\ UNCHANGED <<mappings, phase, vdown, shown, remapped>>
           /\ \A q \in Readers : \A x : Pending(buffer[q], x) => Pending(buffer'[q], x)
           /\ \A q \in Readers : \A x \in caught[q] :
                x \in caught'[q] \/ Pending(buffer'[q], KeyEvent(x, Release))
           /\ \A q \in Readers : \A x \in caught'[q] :
                x \in caught[q] \/ Pending(buffer'[q], KeyEvent(x, Press))
<1>1. PICK r \in Readers, k \in Keys, value \in Values : UserKey(r, k, value)
  BY UserEffect DEF TypeOK
<1>2. /\ k \in KeysOf[r]
      /\ \A q \in Readers \ {r} : caught'[q] = caught[q]
      /\ value = Press => caught'[r] = IF r \in opened THEN caught[r] \cup {k} ELSE caught[r]
      /\ value = Release => caught'[r] = caught[r] \ {k}
      /\ value = Repeat => caught'[r] = caught[r] /\ r \in opened
      /\ UNCHANGED <<mappings, phase, vdown, shown, remapped>>
      /\ \A q \in Readers :
            buffer'[q] = IF q = r /\ r \in opened THEN Append(buffer[r], KeyEvent(k, value))
                         ELSE buffer[q]
      /\ KeyEvent(k, value) \in Event(KeysOf[r])
  BY <1>1 DEF UserKey, Typed, handlerVars, outVars
<1>3. buffer[r] \in Seq(Event(KeysOf[r]))
  BY DEF TypeOK, KeyType
<1>4. \A x : Pending(Append(buffer[r], KeyEvent(k, value)), x)
                <=> Pending(buffer[r], x) \/ x = KeyEvent(k, value)
  BY <1>2, <1>3, AppendedEvents
<1>5. r \notin opened => caught[r] = {}
  BY DEF PhaseShape
<1>6. \A q \in Readers : \A x : Pending(buffer[q], x) => Pending(buffer'[q], x)
  BY <1>2, <1>4
<1>7. \A q \in Readers : \A x \in caught[q] :
        x \in caught'[q] \/ Pending(buffer'[q], KeyEvent(x, Release))
  BY <1>2, <1>4, <1>5 DEF Values
<1>8. \A q \in Readers : \A x \in caught'[q] :
        x \in caught[q] \/ Pending(buffer'[q], KeyEvent(x, Press))
  BY <1>2, <1>4, <1>5 DEF Values
<1> QED  BY <1>2, <1>6, <1>7, <1>8

(* What Fetch leaves in the buffers.                                       *)
LEMMA FetchedRest ==
    ASSUME TypeOK, PhaseShape, BufferShape, NEW r \in Readers, Fetch(r)
    PROVE  /\ UNCHANGED <<mappings, caught, phase, vdown, shown>>
           /\ Read(r).code \in KeysOf[r] /\ Read(r).value \in Values
           /\ Read(r) = KeyEvent(Read(r).code, Read(r).value)
           /\ \A q \in Readers : \A x : Pending(buffer[q], x) =>
                Pending(buffer'[q], x) \/ (q = r /\ x = Read(r))
           /\ Read(r).value = Press => \/ Read(r).code \in caught[r]
                                       \/ Pending(buffer'[r], KeyEvent(Read(r).code, Release))
           /\ Read(r).value = Release => \/ Read(r).code \notin caught[r]
                                         \/ Pending(buffer'[r], KeyEvent(Read(r).code, Press))
<1>1. /\ buffer[r] # <<>> /\ buffer[r] \in Seq(Event(KeysOf[r]))
      /\ Read(r) \in Event(KeysOf[r])
      /\ \A q \in Readers : buffer'[q] = IF q = r THEN Tail(buffer[r]) ELSE buffer[q]
      /\ UNCHANGED <<mappings, caught, phase, vdown, shown>>
  BY FetchEffect DEF Read, handlerVars, outVars
<1>2. /\ Read(r) = buffer[r][1] /\ 1 \in DOMAIN buffer[r]
      /\ \A x : Pending(buffer[r], x) => x = Read(r) \/ Pending(Tail(buffer[r]), x)
      /\ \A x : (\E j \in DOMAIN buffer[r] : j > 1 /\ buffer[r][j] = x)
                    => Pending(Tail(buffer[r]), x)
  BY <1>1, RemainingEvents DEF Read
<1>3. /\ Read(r).code \in KeysOf[r] /\ Read(r).value \in Values
      /\ Read(r) = KeyEvent(Read(r).code, Read(r).value)
  BY <1>1 DEF Event, Values, KeyEvent
<1>4. \A q \in Readers : \A x : Pending(buffer[q], x) =>
            Pending(buffer'[q], x) \/ (q = r /\ x = Read(r))
  BY <1>1, <1>2
<1>5. /\ buffer[r][1] = KeyEvent(Read(r).code, Press) =>
            Read(r).code \in caught[r] \/ Later(r, 1, KeyEvent(Read(r).code, Release))
      /\ buffer[r][1] = KeyEvent(Read(r).code, Release) =>
            Read(r).code \notin caught[r] \/ Later(r, 1, KeyEvent(Read(r).code, Press))
  BY <1>2, <1>3 DEF BufferShape
<1>6. \A x : Later(r, 1, x) => Pending(buffer'[r], x)
  BY <1>1, <1>2 DEF Later
<1> QED  BY <1>1, <1>2, <1>3, <1>4, <1>5, <1>6

(* What the batch does to all codes that only one key produces.            *)
LEMMA FetchedFinally ==
    ASSUME TypeOK, PhaseShape, NEW r \in Readers, Fetch(r), NEW c \in Supported
    PROVE  /\ c \notin Outputs(Read(r).code) \/ Read(r).value = Repeat =>
                (Finally(c)' <=> Finally(c))
           /\ c \in Outputs(Read(r).code) /\ Read(r).value = Press => Finally(c)'
           /\ c \in Outputs(Read(r).code) /\ Read(r).value = Release => ~Finally(c)'
<1>1. /\ Len(remapped) \in Nat /\ Len(remapped') \in Nat /\ Len(remapped') >= Len(remapped)
      /\ \A n \in Len(remapped)..Len(remapped') :
            /\ c \notin Outputs(Read(r).code) \/ Read(r).value = Repeat =>
                (After(n, c)' <=> Finally(c))
            /\ /\ c \in Outputs(Read(r).code)
               /\ n = Len(remapped') \/ (n > Len(remapped) /\ remapped'[n] = SynReport)
               => /\ Read(r).value = Press => After(n, c)'
                  /\ Read(r).value = Release => ~After(n, c)'
  BY FetchedAfter
<1>2. PICK n \in Len(remapped)..Len(remapped') : n = Len(remapped')
  BY <1>1
<1>3. Finally(c)' <=> After(n, c)'
  BY <1>2, AfterIs
<1> QED  BY <1>1, <1>2, <1>3

(* Nothing is written and nothing read.                                    *)
LEMMA AfterUnchanged ==
    ASSUME UNCHANGED <<mappings, vdown, remapped>>
    PROVE  /\ \A n, c : After(n, c)' <=> After(n, c)
           /\ \A c : Finally(c)' <=> Finally(c)
BY DEF After, Finally

(* After a reset nothing is down and nothing will be.                      *)
LEMMA NothingAfter ==
    ASSUME Reset
    PROVE  DOMAIN remapped' = {} /\ \A c : ~Finally(c)'
<1>1. vdown' = {} /\ remapped' = <<>> /\ Len(remapped') = 0 /\ DOMAIN remapped' = {}
  BY DEF Reset
<1> QED  BY <1>1, AfterIs, AfterNothing

(* A key that is down is one of a held key.                                *)
Backed(p) == p[2] \in caught[p[1]] \/ Pending(buffer[p[1]], KeyEvent(p[2], Release))

(* A key event that is read makes its key the one that justifies its codes *)
(* when it is a press; when it is a release, the codes are no longer down. *)
LEMMA JustStep ==
    ASSUME TypeOK, PhaseShape, BufferShape, JustShape, [Next]_vars
    PROVE  JustShape'
<1>1. \A c \in Supported :
        /\ c \in vdown \/ Pending(remapped, KeyEvent(c, Press)) => Producers(c) # {}
        /\ Finally(c) => \E p \in Producers(c) : Backed(p)
  BY DEF JustShape, Backed
<1>2. SUFFICES ASSUME NEW c \in Supported
               PROVE  /\ c \in vdown' \/ Pending(remapped', KeyEvent(c, Press)) =>
                            Producers(c)' # {}
                      /\ Finally(c)' => \E p \in Producers(c)' : Backed(p)'
  BY DEF JustShape, Backed
<1>3. CASE Reset
  BY <1>3, NothingAfter DEF Reset, Pending
<1>4. CASE Quiet
  <2>1. UNCHANGED <<caught, buffer, mappings, vdown, remapped>>
    BY <1>4 DEF Quiet
  <2>2. Producers(c)' = Producers(c) /\ \A p : Backed(p)' <=> Backed(p)
    BY <2>1, SameCodes DEF Backed
  <2>3. Finally(c)' <=> Finally(c)
    BY <2>1, AfterUnchanged
  <2> QED  BY <1>1, <2>1, <2>2, <2>3
<1>5. CASE User
  <2>1. UNCHANGED <<mappings, vdown, remapped>>
    BY <1>5, UserAfter
  <2>2. Producers(c)' = Producers(c)
    BY <2>1, SameCodes
  <2>3. Finally(c)' <=> Finally(c)
    BY <2>1, AfterUnchanged
  <2>4. \A p \in Producers(c) : Backed(p) => Backed(p)'
    <3>1. \A p \in Producers(c) : p[1] \in Readers
      BY DEF Producers
    <3> QED  BY <1>5, <3>1, UserAfter DEF Backed
  <2> QED  BY <1>1, <2>1, <2>2, <2>3, <2>4
<1>6. ASSUME NEW r \in Readers, Fetch(r)
      PROVE  /\ c \in vdown' \/ Pending(remapped', KeyEvent(c, Press)) => Producers(c)' # {}
             /\ Finally(c)' => \E p \in Producers(c)' : Backed(p)'
  <2>1. /\ Pending(remapped', KeyEvent(c, Press)) =>
            Pending(remapped, KeyEvent(c, Press)) \/ c \in Outputs(Read(r).code)
        /\ c \notin Outputs(Read(r).code) \/ Read(r).value = Repeat => (Finally(c)' <=> Finally(c))
        /\ c \in Outputs(Read(r).code) /\ Read(r).value = Release => ~Finally(c)'
    BY <1>6, FetchedAfter, FetchedFinally
  <2>2. /\ UNCHANGED <<mappings, caught, vdown>>
        /\ Read(r).code \in KeysOf[r] /\ Read(r).value \in Values
        /\ Read(r) = KeyEvent(Read(r).code, Read(r).value)
        /\ \A q \in Readers : \A x : Pending(buffer[q], x) =>
                Pending(buffer'[q], x) \/ (q = r /\ x = Read(r))
        /\ Read(r).value = Press => \/ Read(r).code \in caught[r]
                                    \/ Pending(buffer'[r], KeyEvent(Read(r).code, Release))
    BY <1>6, FetchedRest
  <2>3. Producers(c)' = Producers(c)
    BY <2>2, SameCodes
  <2>4. c \in Outputs(Read(r).code) => <<r, Read(r).code>> \in Producers(c)
    BY <2>2, OwnCodes
  <2>5. c \in vdown' \/ Pending(remapped', KeyEvent(c, Press)) => Producers(c) # {}
    BY <1>1, <2>1, <2>2, <2>4
  <2>6. ASSUME Finally(c)'
        PROVE  \E p \in Producers(c) : Backed(p)'
    <3>1. /\ c \notin Outputs(Read(r).code) \/ Read(r).value = Repeat => Finally(c)
          /\ c \in Outputs(Read(r).code) => Read(r).value # Release
      BY <2>1, <2>6
    <3>2. CASE c \notin Outputs(Read(r).code) \/ Read(r).value = Repeat
      <4>1. PICK p \in Producers(c) : Backed(p)
        BY <1>1, <3>1, <3>2
      <4>2. p[1] \in Readers /\ c \in Outputs(p[2])
        BY DEF Producers
      <4>3. KeyEvent(p[2], Release) # Read(r)
        <5>1. Release # Repeat
          BY DEF Release, Repeat
        <5>2. KeyEvent(p[2], Release).code = p[2] /\ KeyEvent(p[2], Release).value = Release
          BY DEF KeyEvent
        <5> QED  BY <3>2, <4>2, <5>1, <5>2
      <4>4. Backed(p)'
        BY <2>2, <4>1, <4>2, <4>3 DEF Backed
      <4> QED  BY <4>4
    <3>3. CASE c \in Outputs(Read(r).code) /\ Read(r).value = Press
      <4>1. PICK k \in KeysOf[r] : k = Read(r).code
        BY <2>2
      <4>2. <<r, k>> \in Producers(c) /\ <<r, k>>[1] = r /\ <<r, k>>[2] = k
        BY <2>4, <3>3, <4>1
      <4>3. k \in caught[r] \/ Pending(buffer'[r], KeyEvent(k, Release))
        BY <2>2, <3>3, <4>1
      <4>4. Backed(<<r, k>>)'
        BY <2>2, <4>2, <4>3 DEF Backed
      <4> QED  BY <4>2, <4>4
    <3> QED  BY <2>2, <3>1, <3>2, <3>3 DEF Values
  <2> QED  BY <2>3, <2>5, <2>6
<1>7. CASE Emit
  <2>1. Finally(c)' <=> Finally(c)
    BY <1>7, EmittedAfter
  <2>2. UNCHANGED <<caught, buffer, mappings>>
    BY <1>7 DEF Emit, keyVars, handlerVars
  <2>3. Producers(c)' = Producers(c) /\ \A p : Backed(p)' <=> Backed(p)
    BY <2>2, SameCodes DEF Backed
  <2>4. /\ remapped \in Seq(Events) /\ remapped # <<>> /\ remapped' = Tail(remapped)
        /\ vdown' = Applied(vdown, Head(remapped))
    BY <1>7 DEF TypeOK, RunType, Events, OutCodes, Emit
  <2>5. \A x : Pending(remapped', x) => Pending(remapped, x)
    <3>1. \A n \in DOMAIN remapped' : n + 1 \in DOMAIN remapped /\ remapped'[n] = remapped[n + 1]
      BY <2>4
    <3> QED  BY <3>1 DEF Pending
  <2>6. c \in vdown' => c \in vdown \/ Pending(remapped, KeyEvent(c, Press))
    <3>1. Head(remapped) \in Events /\ 1 \in DOMAIN remapped /\ Head(remapped) = remapped[1]
      BY <2>4
    <3>2. CASE Head(remapped) = KeyEvent(c, Press)
      BY <3>1, <3>2 DEF Pending
    <3>3. CASE Head(remapped) # KeyEvent(c, Press)
      <4>1. ~(Head(remapped).code = c /\ Head(remapped).value = Press)
        BY <3>1, <3>3 DEF Events, Event, KeyEvent
      <4> QED  BY <2>4, <4>1 DEF Applied
    <3> QED  BY <3>2, <3>3
  <2> QED  BY <1>1, <2>1, <2>3, <2>5, <2>6
<1> QED  BY <1>3, <1>4, <1>5, <1>6, <1>7, NextKinds DEF TypeOK

(* A held key has its codes down when the batch is written.                *)
LEMMA HeldStep ==
    ASSUME TypeOK, PhaseShape, BufferShape, HeldShape, [Next]_vars
    PROVE  HeldShape'
<1>1. \A q \in Readers : caught[q] \subseteq KeysOf[q]
  BY DEF TypeOK, KeyType
<1>2. CASE Reset
  BY <1>2 DEF Reset, HeldShape
<1>3. CASE Quiet
  <2>1. UNCHANGED <<caught, buffer, mappings, vdown, remapped>>
        /\ (phase = "closing" => phase' = "closing")
    BY <1>3 DEF Quiet
  <2>2. \A q, x : Own(q, x)' = Own(q, x)
    BY <2>1, SameCodes
  <2>3. \A c : Finally(c)' <=> Finally(c)
    BY <2>1, AfterUnchanged
  <2> QED  BY <2>1, <2>2, <2>3 DEF HeldShape
<1>4. CASE User
  <2>1. UNCHANGED <<mappings, phase, vdown, remapped>>
    BY <1>4, UserAfter
  <2>2. \A q, x : Own(q, x)' = Own(q, x)
    BY <2>1, SameCodes
  <2>3. \A c : Finally(c)' <=> Finally(c)
    BY <2>1, AfterUnchanged
  <2>4. /\ \A q \in Readers : \A x : Pending(buffer[q], x) => Pending(buffer'[q], x)
        /\ \A q \in Readers : \A x \in caught'[q] :
                x \in caught[q] \/ Pending(buffer'[q], KeyEvent(x, Press))
    BY <1>4, UserAfter
  <2> QED  BY <2>1, <2>2, <2>3, <2>4 DEF HeldShape
<1>5. CASE Emit
  <2>1. UNCHANGED <<caught, buffer, mappings, phase>>
    BY <1>5 DEF Emit, keyVars, handlerVars
  <2>2. \A q, x : Own(q, x)' = Own(q, x)
    BY <2>1, SameCodes
  <2>3. \A c \in Supported : Finally(c)' <=> Finally(c)
    BY <1>5, EmittedAfter
  <2>4. \A q \in Readers : \A x \in caught[q] : \A c \in Own(q, x) : c \in Supported
    BY <1>1, OwnCodes
  <2> QED  BY <2>1, <2>2, <2>3, <2>4 DEF HeldShape
<1>6. ASSUME NEW r \in Readers, Fetch(r)
      PROVE  HeldShape'
  <2>1. /\ UNCHANGED <<mappings, caught, phase>>
        /\ Read(r).code \in KeysOf[r] /\ Read(r).value \in Values
        /\ Read(r) = KeyEvent(Read(r).code, Read(r).value)
        /\ \A q \in Readers : \A x : Pending(buffer[q], x) =>
                Pending(buffer'[q], x) \/ (q = r /\ x = Read(r))
        /\ Read(r).value = Release => \/ Read(r).code \notin caught[r]
                                      \/ Pending(buffer'[r], KeyEvent(Read(r).code, Press))
    BY <1>6, FetchedRest
  <2>2. \A q, x : Own(q, x)' = Own(q, x)
    BY <2>1, SameCodes
  <2>3. SUFFICES ASSUME phase # "closing", NEW q \in Readers, NEW x \in caught[q],
                        ~Pending(buffer'[q], KeyEvent(x, Press)), NEW c \in Own(q, x)
                 PROVE  Finally(c)'
    BY <2>1, <2>2 DEF HeldShape
  <2>4. /\ x \in KeysOf[q] /\ c \in Supported /\ c \in Outputs(x)
        /\ c \in Outputs(Read(r).code) => r = q /\ Read(r).code = x
    <3>1. x \in KeysOf[q]
      BY <1>1, <2>1, <2>3
    <3>2. /\ \A a \in Own(q, x) : a \in Supported /\ a \in Outputs(x)
          /\ \A a \in Own(q, x) : \A p \in Readers : \A y \in KeysOf[p] :
                a \in Outputs(y) => p = q /\ y = x
      BY <3>1, OwnCodes
    <3> QED  BY <2>1, <2>3, <3>1, <3>2
  <2>5. /\ c \notin Outputs(Read(r).code) \/ Read(r).value = Repeat => (Finally(c)' <=> Finally(c))
        /\ c \in Outputs(Read(r).code) /\ Read(r).value = Press => Finally(c)'
    BY <1>6, <2>4, FetchedFinally
  <2>6. CASE Pending(buffer[q], KeyEvent(x, Press))
    <3>1. q = r /\ KeyEvent(x, Press) = Read(r)
      BY <2>1, <2>3, <2>6
    <3>2. Read(r).code = x /\ Read(r).value = Press
      BY <3>1 DEF KeyEvent
    <3> QED  BY <2>4, <2>5, <3>2
  <2>7. CASE ~Pending(buffer[q], KeyEvent(x, Press))
    <3>1. Finally(c)
      BY <2>3, <2>7 DEF HeldShape
    <3>2. c \in Outputs(Read(r).code) => Read(r).value # Release
      BY <2>1, <2>3, <2>4
    <3> QED  BY <2>1, <2>5, <3>1, <3>2 DEF Values
  <2> QED  BY <2>6, <2>7
<1> QED  BY <1>2, <1>3, <1>4, <1>5, <1>6, NextKinds DEF TypeOK

(* FrameShape for two codes of a key.                                      *)
Together(c, d) ==
    /\ c \in shown => d \in shown
    /\ \A n \in DOMAIN remapped :
        remapped[n] = SynReport /\ After(n, c) => After(n, d)
    /\ Finally(c) => Finally(d)

(* The codes only one key produces are in the same events of the batch, so *)
(* they are down together at each end of a frame.                          *)
LEMMA FrameStep ==
    ASSUME TypeOK, PhaseShape, BufferShape, FrameShape, [Next]_vars
    PROVE  FrameShape'
<1>1. \A r \in Readers : \A k \in KeysOf[r] : \A c, d \in Own(r, k) : Together(c, d)
  BY DEF FrameShape, Together
<1>2. SUFFICES \A r \in Readers : \A k \in KeysOf[r] : \A c, d \in Own(r, k)' : Together(c, d)'
  BY DEF FrameShape, Together
<1>3. CASE Reset
  <2>1. shown' = {}
    BY <1>3 DEF Reset
  <2>2. DOMAIN remapped' = {} /\ \A c : ~Finally(c)'
    BY <1>3, NothingAfter
  <2>3. \A c, d : Together(c, d)'
    BY <2>1, <2>2 DEF Together
  <2> QED  BY <2>3
<1>4. CASE Quiet
  <2>1. /\ UNCHANGED <<mappings, vdown, remapped>>
        /\ shown' = shown \/ (remapped = <<>> /\ shown' = vdown)
    BY <1>4 DEF Quiet
  <2>2. \A q, x : Own(q, x)' = Own(q, x)
    BY <2>1, SameCodes
  <2>3. /\ \A n, c : After(n, c)' <=> After(n, c)
        /\ \A c : Finally(c)' <=> Finally(c)
    BY <2>1, AfterUnchanged
  <2>4. remapped = <<>> => \A c : Finally(c) <=> c \in vdown
    <3>1. Len(<<>>) = 0
      OBVIOUS
    <3> QED  BY <3>1, AfterIs, AfterNothing
  <2>5. \A c, d : Together(c, d) => Together(c, d)'
    BY <2>1, <2>3, <2>4 DEF Together
  <2> QED  BY <1>1, <2>2, <2>5
<1>5. CASE User
  <2>1. UNCHANGED <<mappings, vdown, shown, remapped>>
    BY <1>5, UserAfter
  <2>2. \A q, x : Own(q, x)' = Own(q, x)
    BY <2>1, SameCodes
  <2>3. /\ \A n, c : After(n, c)' <=> After(n, c)
        /\ \A c : Finally(c)' <=> Finally(c)
    BY <2>1, AfterUnchanged
  <2>4. \A c, d : Together(c, d) => Together(c, d)'
    BY <2>1, <2>3 DEF Together
  <2> QED  BY <1>1, <2>2, <2>4
<1>6. CASE Emit
  <2>1. /\ mappings' = mappings
        /\ shown' = IF Head(remapped) = SynReport THEN vdown ELSE shown
        /\ vdown' = Applied(vdown, Head(remapped))
        /\ remapped' \in Seq(Events)
    BY <1>6 DEF Emit, handlerVars, TypeOK, RunType, Events, OutCodes
  <2>2. \A q, x : Own(q, x)' = Own(q, x)
    BY <2>1, SameCodes
  <2>3. ASSUME NEW r \in Readers, NEW k \in KeysOf[r], NEW c \in Own(r, k), NEW d \in Own(r, k)
        PROVE  Together(c, d)'
    <3>1. c \in Supported /\ d \in Supported /\ Together(c, d)
      BY <1>1, <2>3, OwnCodes
    <3>2. /\ Len(remapped) \in Nat /\ Len(remapped) >= 1 /\ Len(remapped') = Len(remapped) - 1
          /\ \A n \in 1..Len(remapped') : remapped'[n] = remapped[n + 1]
          /\ Head(remapped) = remapped[1]
      BY <1>6, <3>1, EmittedAfter
    <3>3. /\ \A n \in 0..Len(remapped') : After(n, c)' <=> After(n + 1, c)
          /\ \A n \in 0..Len(remapped') : After(n, d)' <=> After(n + 1, d)
          /\ Finally(c)' <=> Finally(c)
          /\ Finally(d)' <=> Finally(d)
      BY <1>6, <3>1, EmittedAfter
    <3>4. DOMAIN remapped = 1..Len(remapped) /\ DOMAIN remapped' = 1..Len(remapped')
      BY <2>1 DEF TypeOK, RunType
    <3>5. c \in shown' => d \in shown'
      <4>1. CASE Head(remapped) = SynReport
        <5>1. vdown' = vdown
          <6>1. SynReport.code \notin Supported
            BY RealCodes DEF SynReport, KeyEvent
          <6> QED  BY <2>1, <4>1, <6>1 DEF Applied
        <5>2. 0 \in 0..Len(remapped') /\ 0 + 1 = 1 /\ 1 \in 1..Len(remapped)
          BY <3>2
        <5>3. (After(0, c)' <=> After(1, c)) /\ (After(0, d)' <=> After(1, d))
          BY <3>3, <5>2
        <5>4. (After(0, c)' <=> c \in vdown) /\ (After(0, d)' <=> d \in vdown)
          BY <5>1, AfterIs, AfterNothing
        <5>5. After(1, c) => After(1, d)
          BY <3>1, <3>2, <3>4, <4>1, <5>2 DEF Together
        <5> QED  BY <2>1, <4>1, <5>3, <5>4, <5>5
      <4>2. CASE Head(remapped) # SynReport
        BY <2>1, <3>1, <4>2 DEF Together
      <4> QED  BY <4>1, <4>2
    <3>6. ASSUME NEW n \in 1..Len(remapped'), remapped'[n] = SynReport, After(n, c)'
          PROVE  After(n, d)'
      <4>1. n \in 0..Len(remapped') /\ n + 1 \in 1..Len(remapped)
        BY <3>2
      <4>2. remapped[n + 1] = SynReport /\ After(n + 1, c)
        BY <3>2, <3>3, <3>6, <4>1
      <4>3. After(n + 1, d)
        BY <3>1, <3>4, <4>1, <4>2 DEF Together
      <4> QED  BY <3>3, <4>1, <4>3
    <3> QED  BY <3>1, <3>3, <3>4, <3>5, <3>6 DEF Together
  <2> QED  BY <2>2, <2>3
<1>7. ASSUME NEW r \in Readers, Fetch(r)
      PROVE  \A q \in Readers : \A x \in KeysOf[q] : \A c, d \in Own(q, x)' : Together(c, d)'
  <2>1. UNCHANGED <<mappings, shown>> /\ Read(r).code \in KeysOf[r] /\ Read(r).value \in Values
    BY <1>7, FetchedRest
  <2>2. \A q, x : Own(q, x)' = Own(q, x)
    BY <2>1, SameCodes
  <2>3. ASSUME NEW q \in Readers, NEW x \in KeysOf[q], NEW c \in Own(q, x), NEW d \in Own(q, x)
        PROVE  Together(c, d)'
    <3>1. /\ c \in Supported /\ d \in Supported /\ Together(c, d)
          /\ c \in Outputs(Read(r).code) <=> d \in Outputs(Read(r).code)
      <4>1. /\ c \in Supported /\ d \in Supported /\ c \in Outputs(x) /\ d \in Outputs(x)
            /\ c \in Outputs(Read(r).code) => q = r /\ Read(r).code = x
            /\ d \in Outputs(Read(r).code) => q = r /\ Read(r).code = x
        <5>1. /\ \A a \in Own(q, x) : a \in Supported /\ a \in Outputs(x)
              /\ \A a \in Own(q, x) : \A p \in Readers : \A y \in KeysOf[p] :
                    a \in Outputs(y) => p = q /\ y = x
          BY <2>3, OwnCodes
        <5> QED  BY <2>1, <2>3, <5>1
      <4> QED  BY <1>1, <4>1
    <3>2. /\ Len(remapped) \in Nat /\ Len(remapped') \in Nat /\ Len(remapped') >= Len(remapped)
          /\ \A n \in 0..Len(remapped) : After(n, c)' <=> After(n, c)
          /\ \A n \in 1..Len(remapped) : remapped'[n] = remapped[n]
          /\ \A n \in Len(remapped)..Len(remapped') :
            /\ c \notin Outputs(Read(r).code) \/ Read(r).value = Repeat =>
                (After(n, c)' <=> Finally(c))
            /\ /\ c \in Outputs(Read(r).code)
               /\ n = Len(remapped') \/ (n > Len(remapped) /\ remapped'[n] = SynReport)
               => /\ Read(r).value = Press => After(n, c)'
                  /\ Read(r).value = Release => ~After(n, c)'
      BY <1>7, <3>1, FetchedAfter
    <3>3. /\ \A n \in 0..Len(remapped) : After(n, d)' <=> After(n, d)
          /\ \A n \in Len(remapped)..Len(remapped') :
            /\ d \notin Outputs(Read(r).code) \/ Read(r).value = Repeat =>
                (After(n, d)' <=> Finally(d))
            /\ /\ d \in Outputs(Read(r).code)
               /\ n = Len(remapped') \/ (n > Len(remapped) /\ remapped'[n] = SynReport)
               => /\ Read(r).value = Press => After(n, d)'
                  /\ Read(r).value = Release => ~After(n, d)'
      BY <1>7, <3>1, FetchedAfter
    <3>4. DOMAIN remapped = 1..Len(remapped) /\ DOMAIN remapped' = 1..Len(remapped')
      <4>1. remapped \in Seq(Events) /\ remapped' \in Seq(Events)
        BY <1>7, FetchEffect DEF TypeOK, RunType, Events, OutCodes
      <4> QED  BY <4>1
    <3>5. c \in shown' => d \in shown'
      BY <2>1, <3>1 DEF Together
    <3>6. ASSUME NEW n \in 1..Len(remapped'), remapped'[n] = SynReport, After(n, c)'
          PROVE  After(n, d)'
      <4>1. CASE n <= Len(remapped)
        <5>1. n \in 0..Len(remapped) /\ n \in 1..Len(remapped)
          BY <3>2, <4>1
        <5>2. remapped[n] = SynReport /\ After(n, c)
          BY <3>2, <3>6, <5>1
        <5>3. After(n, d)
          BY <3>1, <3>4, <5>1, <5>2 DEF Together
        <5> QED  BY <3>3, <5>1, <5>3
      <4>2. CASE n > Len(remapped)
        <5>1. n \in Len(remapped)..Len(remapped')
          BY <3>2, <4>2
        <5>2. CASE c \notin Outputs(Read(r).code) \/ Read(r).value = Repeat
          <6>1. Finally(c)
            BY <3>2, <3>6, <5>1, <5>2
          <6>2. Finally(d)
            BY <3>1, <6>1 DEF Together
          <6> QED  BY <3>1, <3>3, <5>1, <5>2, <6>2
        <5>3. CASE c \in Outputs(Read(r).code) /\ Read(r).value # Repeat
          <6>1. Read(r).value = Press
            BY <2>1, <3>2, <3>6, <4>2, <5>1, <5>3 DEF Values
          <6> QED  BY <3>1, <3>3, <3>6, <4>2, <5>1, <5>3, <6>1
        <5> QED  BY <5>2, <5>3
      <4> QED  BY <3>2, <4>1, <4>2
    <3>7. Finally(c)' => Finally(d)'
      <4>1. /\ c \notin Outputs(Read(r).code) \/ Read(r).value = Repeat => (Finally(c)' <=> Finally(c))
            /\ c \in Outputs(Read(r).code) /\ Read(r).value = Release => ~Finally(c)'
        BY <1>7, <3>1, FetchedFinally
      <4>2. /\ d \notin Outputs(Read(r).code) \/ Read(r).value = Repeat => (Finally(d)' <=> Finally(d))
            /\ d \in Outputs(Read(r).code) /\ Read(r).value = Press => Finally(d)'
        BY <1>7, <3>1, FetchedFinally
      <4> QED  BY <2>1, <3>1, <4>1, <4>2 DEF Together, Values
    <3> QED  BY <3>4, <3>5, <3>6, <3>7 DEF Together
  <2> QED  BY <2>2, <2>3
<1> QED  BY <1>1, <1>3, <1>4, <1>5, <1>6, <1>7, NextKinds DEF TypeOK

-----------------------------------------------------------------------------
(* Nothing is held, buffered, mapped or down.                              *)
LEMMA InitInv == Init => RemapInv
<1> SUFFICES ASSUME Init PROVE RemapInv
  OBVIOUS
<1>1. /\ \A r \in Readers : down[r] = {} /\ caught[r] = {} /\ buffer[r] = <<>>
      /\ down \in [Readers -> SUBSET Keys] /\ caught \in [Readers -> SUBSET Keys]
      /\ opened = {} /\ phase = "off" /\ preset = <<>> /\ mappings = FromPreset(preset)
      /\ ready = {} /\ remapped = <<>> /\ vdown = {} /\ shown = {}
  BY DEF Init
<1>2. KeyType
  <2>1. \A S : <<>> \in Seq(S)
    OBVIOUS
  <2>2. buffer \in [Readers -> Seq(Event(Keys))]
    BY <2>1 DEF Init
  <2> QED  BY <1>1, <2>1, <2>2 DEF KeyType
<1>3. RunType
  <2>1. <<>> \in Seq(Event(Keys \cup {Resolve(symbol) : symbol \in Known} \cup {NoCode}))
    OBVIOUS
  <2> QED  BY <1>1, <2>1, HandlerIs DEF RunType, HandlerType
<1>4. PhaseShape
  BY <1>1 DEF PhaseShape
<1>5. BufferShape
  BY <1>1 DEF BufferShape
<1>6. /\ Len(remapped) = 0 /\ DOMAIN remapped = {}
      /\ \A c : ~Finally(c) /\ ~After(0, c)
  <2>1. Len(remapped) = 0 /\ DOMAIN remapped = {}
    BY <1>1
  <2> QED  BY <1>1, <2>1, AfterIs, AfterNothing
<1>7. JustShape /\ HeldShape /\ FrameShape
  BY <1>1, <1>6 DEF JustShape, HeldShape, FrameShape, Pending
<1> QED  BY <1>2, <1>3, <1>4, <1>5, <1>7 DEF RemapInv, TypeOK

(* The inductive invariant holds in every reachable state.                 *)
THEOREM RemapInvariant == Spec => []RemapInv
<1>1. Init => RemapInv
  BY InitInv
<1>2. RemapInv /\ [Next]_vars => RemapInv'
  BY TypeStep, BufferStep, JustStep, HeldStep, FrameStep DEF RemapInv
<1> QED  BY <1>1, <1>2, PTL DEF Spec

(* The state has its types; what is down on the virtual device is          *)
(* something it was created with.                                          *)
THEOREM TypeCorrect == Spec => []TypeOK
<1>1. RemapInv => TypeOK
  BY DEF RemapInv
<1> QED  BY <1>1, RemapInvariant, PTL

(* No ghost keys: a code that is down on the virtual device is one of a    *)
(* key that is held, or its release is buffered or in the batch            *)
(* (remap_into, emit).                                                     *)
THEOREM NoGhostKeys == Spec => []Justified
<1>1. RemapInv => Justified
  <2> SUFFICES ASSUME RemapInv, NEW code \in vdown
               PROVE  \E p \in Producers(code) :
                        \/ Backed(p) \/ Pending(remapped, KeyEvent(code, Release))
    BY DEF Justified, Backed
  <2>1. code \in Supported /\ Len(remapped) \in Nat /\ DOMAIN remapped = 1..Len(remapped)
    BY DEF RemapInv, TypeOK, RunType
  <2>2. Finally(code) => \E p \in Producers(code) : Backed(p)
    BY <2>1 DEF RemapInv, JustShape, Backed
  <2>3. Producers(code) # {}
    BY <2>1 DEF RemapInv, JustShape
  <2>4. CASE Finally(code)
    BY <2>2, <2>4
  <2>5. CASE ~Finally(code)
    <3>1. Pending(remapped, KeyEvent(code, Release))
      BY <2>1, <2>5 DEF Finally, After, Pending
    <3> QED  BY <2>3, <3>1
  <2> QED  BY <2>4, <2>5
<1> QED  BY <1>1, RemapInvariant, PTL

(* No lost keys: between two rounds of run, a held key whose press was     *)
(* read has down every code that no other key produces.                    *)
THEOREM NoLostKeys == Spec => []NoLoss
<1>1. RemapInv => NoLoss
  <2> SUFFICES ASSUME RemapInv, phase = "poll", NEW r \in Readers, NEW k \in caught[r],
                      ~Pending(buffer[r], KeyEvent(k, Press)), NEW code \in Own(r, k)
               PROVE  code \in vdown
    BY DEF NoLoss
  <2>1. Finally(code)
    BY DEF RemapInv, HeldShape
  <2>2. remapped = <<>> /\ Len(<<>>) = 0
    BY DEF RemapInv, PhaseShape
  <2> QED  BY <2>1, <2>2, AfterIs, AfterNothing
<1> QED  BY <1>1, RemapInvariant, PTL

(* A combination is pressed and released within one frame of the virtual   *)
(* device: the desktop never sees a part of it.                            *)
THEOREM CombosAtomic == Spec => []ComboAtomic
<1>1. RemapInv => ComboAtomic
  BY DEF RemapInv, FrameShape, ComboAtomic
<1> QED  BY <1>1, RemapInvariant, PTL

(* from_preset maps a key as its last usable entry says, and entries that  *)
(* cannot be used change nothing.                                          *)
THEOREM LastEntryDecides == Spec => []LastEntryWins
<1>1. RemapInv => LastEntryWins
  <2> SUFFICES ASSUME RemapInv, NEW k \in Keys
               PROVE  LET usable == {i \in DOMAIN preset : Usable(preset[i]) /\ preset[i].input[1].code = k}
                      IN  IF usable = {} THEN k \notin DOMAIN mappings
                          ELSE mappings[k] = Codes(preset[CHOOSE i \in usable : \A j \in usable : j <= i].output)
    BY DEF LastEntryWins
  <2> DEFINE usable == {i \in DOMAIN preset : Usable(preset[i]) /\ preset[i].input[1].code = k}
             last == CHOOSE i \in usable : \A j \in usable : j <= i
             N == Len(preset)
  <2>1. preset \in Seq(ToSet(preset)) /\ mappings = FromPreset(preset)
    <3>1. <<>> \in Seq(ToSet(<<>>))
      OBVIOUS
    <3> QED  BY <3>1, HandlerIs, RemapAssumption DEF RemapInv, TypeOK, RunType, HandlerType
  <2>2. Maps(preset, N, k, mappings)
    BY <2>1, FromPresetMaps
  <2>3. N \in Nat /\ DOMAIN preset = 1..N
    BY <2>1
  <2> HIDE DEF N
  <2>4. usable = {i \in 1..N : Says(preset[i], k)}
    BY <2>3 DEF Says
  <2> HIDE DEF usable
  <2>5. ASSUME NEW i \in 1..N, Says(preset[i], k), \A j \in (i + 1)..N : ~Says(preset[j], k),
               mappings[k] = Codes(preset[i].output)
        PROVE  usable # {} /\ mappings[k] = Codes(preset[last].output)
    <3>1. i \in usable /\ \A j \in usable : j \in 1..N
      BY <2>4, <2>5
    <3>2. \A j \in usable : j <= i
      <4> SUFFICES ASSUME NEW j \in usable, ~(j <= i)
                   PROVE  FALSE
        OBVIOUS
      <4>1. j \in (i + 1)..N
        BY <2>3, <3>1
      <4> QED  BY <2>4, <2>5, <4>1
    <3>3. \A j \in usable : (\A l \in usable : l <= j) => j = i
      <4> SUFFICES ASSUME NEW j \in usable, \A l \in usable : l <= j
                   PROVE  j = i
        OBVIOUS
      <4>1. i <= j /\ j <= i /\ i \in Nat /\ j \in Nat
        BY <2>3, <3>1, <3>2
      <4> QED  BY <4>1
    <3>4. last = i
      BY <3>1, <3>2, <3>3
    <3> QED  BY <2>5, <3>1, <3>4
  <2>6. IF usable = {} THEN k \notin DOMAIN mappings
        ELSE mappings[k] = Codes(preset[last].output)
    BY <2>2, <2>4, <2>5 DEF Maps
  <2> QED  BY <2>6 DEF usable
<1> QED  BY <1>1, RemapInvariant, PTL
=============================================================================
