--------------------------- MODULE PipelineProofs ---------------------------
(***************************************************************************)
(* Proofs about FramePipeline, for any devices, field widths, payloads and *)
(* bounds: PipelineInv is inductive, and what follows from it.             *)
(***************************************************************************)
EXTENDS PipelineInvariant, SequenceFacts, FiniteSetTheorems

-----------------------------------------------------------------------------
(* Selecting from a sequence *)

Rank(I, k) == Cardinality({j \in I : j <= k})

(* Lemma: the indices of a set are ranked from one to their number.          *)
LEMMA Ranked ==
    ASSUME NEW n \in Nat, NEW I \in SUBSET (1..n)
    PROVE  /\ IsFiniteSet(I) /\ Cardinality(I) \in Nat
           /\ \A k \in I : Rank(I, k) \in 1..Cardinality(I)
           /\ \A k, l \in I : k < l => Rank(I, k) < Rank(I, l)
           /\ \A r \in 1..Cardinality(I) : \E k \in I : Rank(I, k) = r
<1>1. IsFiniteSet(I) /\ Cardinality(I) \in Nat
  <2>1. IsFiniteSet(1..n)
    BY FS_Interval
  <2> QED
    BY <2>1, FS_Subset, FS_CardinalityType
<1>2. ASSUME NEW k \in I
      PROVE  IsFiniteSet({j \in I : j <= k}) /\ Rank(I, k) \in 1..Cardinality(I)
  <2> DEFINE Below == {j \in I : j <= k}
  <2>1. Below \in SUBSET I /\ k \in Below
    OBVIOUS
  <2>2. IsFiniteSet(Below) /\ Cardinality(Below) <= Cardinality(I)
    BY <1>1, <2>1, FS_Subset
  <2>3. Cardinality(Below) \in Nat /\ Cardinality(Below) # 0
    BY <2>1, <2>2, FS_CardinalityType, FS_EmptySet
  <2>4. Rank(I, k) = Cardinality(Below)
    BY DEF Rank
  <2> HIDE DEF Below
  <2>5. Cardinality(Below) \in 1..Cardinality(I)
    BY <1>1, <2>2, <2>3
  <2> QED
    BY <2>2, <2>4, <2>5 DEF Below
<1>3. ASSUME NEW k \in I, NEW l \in I, k < l
      PROVE  Rank(I, k) < Rank(I, l)
  <2> DEFINE A == {j \in I : j <= k}
             B == {j \in I : j <= l}
  <2>1. A \in SUBSET B /\ l \in B /\ l \notin A
    <3>1. \A j \in I : j \in Int
      OBVIOUS
    <3>2. \A j \in I : j <= k => j <= l
      BY <3>1, <1>3
    <3>3. ~(l <= k)
      BY <3>1, <1>3
    <3>4. \A j \in A : j \in B
      BY <3>2
    <3>5. l <= l
      BY <3>1
    <3> QED
      BY <3>3, <3>4, <3>5
  <2>2. IsFiniteSet(B)
    BY <1>2
  <2>3. Cardinality(A) <= Cardinality(B) /\ Cardinality(A) # Cardinality(B)
    BY <2>1, <2>2, FS_Subset
  <2> QED
    BY <1>2, <2>3 DEF Rank
<1>4. \A r \in 1..Cardinality(I) : \E k \in I : Rank(I, k) = r
  <2> DEFINE rank == [k \in I |-> Rank(I, k)]
             T == 1..Cardinality(I)
  <2>1. rank \in [I -> T]
    <3>1. \A k \in I : Rank(I, k) \in 1..Cardinality(I)
      BY <1>2
    <3> QED
      BY <3>1
  <2>2. \A k, l \in I : rank[k] = rank[l] => k = l
    <3>1. SUFFICES ASSUME NEW k \in I, NEW l \in I, k # l PROVE rank[k] # rank[l]
      OBVIOUS
    <3>2. k < l \/ l < k
      BY <3>1
    <3>3. Rank(I, k) \in Nat /\ Rank(I, l) \in Nat
      <4>1. Rank(I, k) \in 1..Cardinality(I) /\ Rank(I, l) \in 1..Cardinality(I)
        BY <1>2
      <4> QED
        BY <4>1, <1>1
    <3>4. Rank(I, k) # Rank(I, l)
      BY <1>3, <3>2, <3>3
    <3> QED
      BY <3>4
  <2>3. rank \in Injection(I, T)
    BY <2>1, <2>2 DEF Injection, IsInjective
  <2>4. IsFiniteSet(T) /\ Cardinality(T) = Cardinality(I)
    BY <1>1, FS_Interval
  <2>5. rank \in Surjection(I, T)
    BY <2>3, <2>4, FS_Injection
  <2> QED
    BY <2>5 DEF Surjection
<1>5. \A k \in I : Rank(I, k) \in 1..Cardinality(I)
  BY <1>2
<1> QED
  BY <1>1, <1>3, <1>4, <1>5

(* g tells where the elements of At(seq, I) come from.                       *)
Origin(g, seq, I) ==
    /\ g \in [DOMAIN At(seq, I) -> I]
    /\ \A m, n \in DOMAIN At(seq, I) : m < n => g[m] < g[n]
    /\ \A k \in I : \E n \in DOMAIN At(seq, I) : g[n] = k
    /\ \A n \in DOMAIN At(seq, I) : At(seq, I)[n] = seq[g[n]]

(* Lemma: At is the elements of a sequence at the given indices, one after   *)
(* the other, in ascending order.                                            *)
LEMMA Selected ==
    ASSUME NEW T, NEW seq \in Seq(T), NEW I \in SUBSET (DOMAIN seq)
    PROVE  At(seq, I) \in Seq(T) /\ \E g : Origin(g, seq, I)
<1> DEFINE N == Cardinality(I)
           g == [r \in 1..N |-> CHOOSE k \in I : Rank(I, k) = r]
<1>1. Len(seq) \in Nat /\ DOMAIN seq = 1..Len(seq) /\ \A k \in DOMAIN seq : seq[k] \in T
  OBVIOUS
<1>2. /\ N \in Nat
      /\ \A k \in I : Rank(I, k) \in 1..N
      /\ \A k, l \in I : k < l => Rank(I, k) < Rank(I, l)
      /\ \A r \in 1..N : \E k \in I : Rank(I, k) = r
  <2>1. I \in SUBSET (1..Len(seq))
    BY <1>1
  <2> HIDE DEF N
  <2>2. N = Cardinality(I)
    BY DEF N
  <2> QED
    BY <1>1, <2>1, <2>2, Ranked
<1>3. At(seq, I) = [r \in 1..N |-> seq[g[r]]]
  BY DEF At, Rank
<1>4. \A r \in 1..N : g[r] \in I /\ Rank(I, g[r]) = r
  BY <1>2
<1>5. ASSUME NEW m \in 1..N, NEW n \in 1..N, m < n PROVE g[m] < g[n]
  <2>1. g[m] \in I /\ g[n] \in I /\ Rank(I, g[m]) = m /\ Rank(I, g[n]) = n
    BY <1>4
  <2>2. g[m] \in Nat /\ g[n] \in Nat
    BY <2>1, <1>1
  <2>3. CASE g[n] < g[m]
    BY <2>1, <2>3, <1>2, <1>5
  <2>4. CASE g[n] = g[m]
    BY <2>1, <2>4, <1>5
  <2> QED
    BY <2>2, <2>3, <2>4
<1>6. ASSUME NEW k \in I PROVE \E n \in 1..N : g[n] = k
  <2> DEFINE n == Rank(I, k)
  <2>1. n \in 1..N
    BY <1>2
  <2>2. g[n] \in I /\ Rank(I, g[n]) = Rank(I, k)
    BY <2>1, <1>4
  <2>3. g[n] \in Nat /\ k \in Nat
    BY <2>2, <1>1
  <2>4. g[n] = k
    <3>1. ~(g[n] < k) /\ ~(k < g[n])
      <4> HIDE DEF g, n
      <4>1. Rank(I, k) \in Nat
        BY <1>2
      <4> QED
        BY <4>1, <2>2, <1>2
    <3> QED
      BY <3>1, <2>3
  <2> QED
    BY <2>1, <2>4
<1>7. DOMAIN At(seq, I) = 1..N /\ At(seq, I) \in Seq(T)
  <2>1. \A r \in 1..N : seq[g[r]] \in T
    BY <1>1, <1>4
  <2> HIDE DEF g, N
  <2>2. [r \in 1..N |-> seq[g[r]]] \in [1..N -> T]
    BY <2>1
  <2>3. [1..N -> T] \subseteq Seq(T)
    BY <1>2
  <2> QED
    BY <1>3, <2>2, <2>3
<1>8. g \in [DOMAIN At(seq, I) -> I]
  BY <1>4, <1>7
<1>9. \A n \in 1..N : At(seq, I)[n] = seq[g[n]]
  BY <1>3
<1>10. Origin(g, seq, I)
  <2> HIDE DEF g, N
  <2> QED
    BY <1>5, <1>6, <1>7, <1>8, <1>9 DEF Origin
<1> QED
  BY <1>7, <1>10

(* Lemma: numbers that ascend within bounds are no more than fit there.      *)
LEMMA Room ==
    ASSUME NEW a \in Int, NEW b \in Int, a <= b,
           NEW lo \in Int, NEW hi \in Int, NEW f,
           \A k \in a..b : f[k] \in lo..hi,
           \A j, k \in a..b : j < k => f[j] < f[k]
    PROVE  b - a <= hi - lo
<1> DEFINE g == [k \in a..b |-> f[k]]
<1>1. g \in [a..b -> lo..hi]
  OBVIOUS
<1>2. \A j, k \in a..b : g[j] = g[k] => j = k
  <2>1. SUFFICES ASSUME NEW j \in a..b, NEW k \in a..b, j < k PROVE f[j] # f[k]
    OBVIOUS
  <2> QED
    BY <2>1
<1>3. g \in Injection(a..b, lo..hi)
  BY <1>1, <1>2 DEF Injection, IsInjective
<1>4. Cardinality(a..b) <= Cardinality(lo..hi)
  BY <1>3, FS_Injection, FS_Interval
<1>5. a \in a..b /\ lo <= hi
  <2>1. a \in a..b
    OBVIOUS
  <2>2. f[a] \in lo..hi
    BY <2>1
  <2> QED
    BY <2>1, <2>2
<1>6. Cardinality(a..b) = b - a + 1 /\ Cardinality(lo..hi) = hi - lo + 1
  BY <1>5, FS_Interval
<1> QED
  BY <1>4, <1>6

(* The first n values of f ascend and are those of an interval.              *)
Fills(f, n, lo, hi) ==
    /\ \A k \in 1..n : f[k] \in lo..hi
    /\ \A j, k \in 1..n : j < k => f[j] < f[k]
    /\ \A x \in lo..hi : \E k \in 1..n : f[k] = x

(* Lemma: numbers that ascend and fill an interval are consecutive.          *)
LEMMA Consecutive ==
    ASSUME NEW n \in Nat, NEW lo \in Int, NEW hi \in Int, lo <= hi + 1,
           NEW f, Fills(f, n, lo, hi)
    PROVE  n = hi - lo + 1 /\ \A k \in 1..n : f[k] = lo + k - 1
<1> USE DEF Fills
<1> DEFINE g == [k \in 1..n |-> f[k]]
<1>1. g \in Surjection(1..n, lo..hi)
  BY DEF Surjection
<1>2. Cardinality(lo..hi) <= Cardinality(1..n)
  BY <1>1, FS_Surjection, FS_Interval
<1>3. Cardinality(1..n) = n /\ Cardinality(lo..hi) = hi - lo + 1
  BY FS_Interval
<1>4. hi - lo + 1 <= n
  BY <1>2, <1>3
<1>5. CASE n = 0
  BY <1>4, <1>5
<1>6. CASE n > 0
  <2>1. n - 1 <= hi - lo
    <3>1. 1 \in Int /\ n \in Int /\ 1 <= n
      BY <1>6
    <3> QED
      BY ONLY <3>1, lo \in Int, hi \in Int, Room,
         \A k \in 1..n : f[k] \in lo..hi,
         \A j, k \in 1..n : j < k => f[j] < f[k]
  <2>2. ASSUME NEW k \in 1..n PROVE f[k] = lo + k - 1
    <3>1. f[k] \in lo..hi
      OBVIOUS
    <3>2. \A j \in 1..k : f[j] \in lo..f[k]
      BY <3>1
    <3>3. \A i, j \in 1..k : i < j => f[i] < f[j]
      OBVIOUS
    <3>4. k - 1 <= f[k] - lo
      <4>1. 1 \in Int /\ k \in Int /\ 1 <= k /\ lo \in Int /\ f[k] \in Int
        BY <3>1
      <4> QED
        BY ONLY <4>1, <3>2, <3>3, Room
    <3>5. \A j \in k..n : f[j] \in f[k]..hi
      BY <3>1
    <3>6. \A i, j \in k..n : i < j => f[i] < f[j]
      OBVIOUS
    <3>7. n - k <= hi - f[k]
      <4>1. n \in Int /\ k \in Int /\ k <= n /\ hi \in Int /\ f[k] \in Int
        BY <3>1
      <4> QED
        BY ONLY <4>1, <3>5, <3>6, Room
    <3> QED
      BY <3>1, <3>4, <3>7, <1>4
  <2> QED
    BY <1>4, <2>1, <2>2
<1> QED
  BY <1>5, <1>6

-----------------------------------------------------------------------------
(* Packages, frames and entries *)

(* Lemma: a header has a length.                                             *)
LEMMA Lengths == HeaderBytes \in Nat /\ CrcBytes = 4 /\ MaxPayloadBytes \in Nat
<1>1. \A bits \in 1..32 : BitsToBytes(bits) \in Nat
  BY DEF BitsToBytes
<1>2. \A field \in {"packageId", "messageId", "connId", "fragmentId",
                    "fragmentsCount", "priority"} : BitsToBytes(BitWidth[field]) \in Nat
  BY <1>1, PipelineAssumption
<1>3. /\ BitsToBytes(BitWidth["packageId"]) \in Nat /\ BitsToBytes(BitWidth["messageId"]) \in Nat
      /\ BitsToBytes(BitWidth["connId"]) \in Nat /\ BitsToBytes(BitWidth["fragmentId"]) \in Nat
      /\ BitsToBytes(BitWidth["fragmentsCount"]) \in Nat
      /\ BitsToBytes(BitWidth["priority"]) \in Nat
  BY <1>2
<1> QED
  BY <1>3, PipelineAssumption
  DEF HeaderBytes, FormatBytes, RequireAckBytes, PayloadLengthBytes, CrcBytes

(* Lemma: what the transport layer makes of a package can be encoded, and    *)
(* has room for the CRC.                                                     *)
LEMMA Made ==
    ASSUME NEW p \in Package
    PROVE  /\ Serialized(p) \in Frame /\ Serialized(p).package = p
           /\ WithCrc(Serialized(p)) \in Frame /\ WithCrc(Serialized(p)).package = p
           /\ EnsureEncodable(Serialized(p))
           /\ WithCrc(Serialized(p)).bytes <= MaxFrameBytesWithCrc
           /\ WithCrc(Serialized(p)).bytes = HeaderBytes + p.payload + CrcBytes
           /\ p.payload \in 0..MaxPayloadBytes
<1>1. p.payload \in 0..MaxPayloadBytes
  BY PipelineAssumption DEF Package
<1>2. /\ Serialized(p) = [package |-> p, bytes |-> HeaderBytes + p.payload]
      /\ WithCrc(Serialized(p)) = [package |-> p, bytes |-> HeaderBytes + p.payload + CrcBytes]
  BY DEF Serialized, WithCrc
<1>3. /\ MaxFrameBytesWithoutCrc = HeaderBytes + MaxPayloadBytes
      /\ MaxFrameBytesWithCrc = HeaderBytes + MaxPayloadBytes + CrcBytes
  BY DEF MaxFrameBytesWithCrc, MaxFrameBytesWithoutCrc
<1>4. /\ HeaderBytes + p.payload \in HeaderBytes..(HeaderBytes + MaxPayloadBytes)
      /\ HeaderBytes + p.payload \in 0..(HeaderBytes + MaxPayloadBytes + CrcBytes)
      /\ HeaderBytes + p.payload + CrcBytes \in 0..(HeaderBytes + MaxPayloadBytes + CrcBytes)
  BY <1>1, Lengths
<1>5. /\ Serialized(p).bytes = HeaderBytes + p.payload /\ Serialized(p).package = p
      /\ WithCrc(Serialized(p)).bytes = HeaderBytes + p.payload + CrcBytes
      /\ WithCrc(Serialized(p)).package = p
  BY <1>2
<1>6. Serialized(p) \in Frame /\ WithCrc(Serialized(p)) \in Frame
  BY <1>2, <1>3, <1>4 DEF Frame
<1>7. EnsureEncodable(Serialized(p))
  BY <1>3, <1>4, <1>5 DEF EnsureEncodable
<1>8. WithCrc(Serialized(p)).bytes <= MaxFrameBytesWithCrc
  BY <1>3, <1>4, <1>5, Lengths
<1> QED
  BY <1>1, <1>5, <1>6, <1>7, <1>8

(* Lemma: the types of the fields of packages, frames and entries.           *)
LEMMA Fields ==
    /\ \A p \in Package : p.from \in Device /\ p.life \in Nat /\ p.number \in Nat
    /\ \A f \in Frame : f.package \in Package /\ f.bytes \in Nat
    /\ \A e \in Entry : e.senderId \in Device /\ e.frame \in Frame /\ e.deliveredTo \subseteq Device
<1>1. MaxFrameBytesWithCrc \in Nat
  BY Lengths DEF MaxFrameBytesWithCrc, MaxFrameBytesWithoutCrc
<1> QED
  BY <1>1 DEF Package, Frame, Entry

(* Lemma: what a leaving device leaves of the medium: the entries of the     *)
(* others, in their order, without its mark.                                 *)
LEMMA EntriesLeft ==
    ASSUME TypeOK, NEW d \in Device, Leave(d)
    PROVE  /\ entries' \in Seq(Entry)
           /\ \E g \in [DOMAIN entries' -> {k \in DOMAIN entries : entries[k].senderId # d}] :
                /\ \A m, n \in DOMAIN entries' : m < n => g[m] < g[n]
                /\ \A k \in DOMAIN entries : entries[k].senderId # d =>
                       \E n \in DOMAIN entries' : g[n] = k
                /\ \A n \in DOMAIN entries' :
                       /\ entries'[n].senderId = entries[g[n]].senderId
                       /\ entries'[n].frame = entries[g[n]].frame
                       /\ entries'[n].deliveredTo = entries[g[n]].deliveredTo \ {d}
<1> DEFINE I == {k \in DOMAIN entries : entries[k].senderId # d}
           kept == At(entries, I)
<1>1. entries \in Seq(Entry)
  BY DEF TypeOK
<1>2. kept \in Seq(Entry) /\ \E g : Origin(g, entries, I)
  <2>1. I \in SUBSET (DOMAIN entries)
    OBVIOUS
  <2> HIDE DEF I
  <2> QED
    BY <1>1, <2>1, Selected
<1>3. PICK g : Origin(g, entries, I)
  BY <1>2
<1>4. entries' = [k \in DOMAIN kept |-> [kept[k] EXCEPT !.deliveredTo = @ \ {d}]]
  BY DEF Leave, Forget
<1>o. /\ g \in [DOMAIN kept -> I]
      /\ \A m, n \in DOMAIN kept : m < n => g[m] < g[n]
      /\ \A k \in I : \E n \in DOMAIN kept : g[n] = k
      /\ \A n \in DOMAIN kept : kept[n] = entries[g[n]]
  BY <1>3 DEF Origin
<1> HIDE DEF kept
<1>5. DOMAIN entries' = DOMAIN kept
  BY <1>4
<1>6. ASSUME NEW n \in DOMAIN kept
      PROVE  /\ entries'[n] \in Entry
             /\ entries'[n].senderId = entries[g[n]].senderId
             /\ entries'[n].frame = entries[g[n]].frame
             /\ entries'[n].deliveredTo = entries[g[n]].deliveredTo \ {d}
  <2>1. kept[n] \in Entry /\ kept[n] = entries[g[n]]
    BY <1>2, <1>o
  <2>2. entries'[n] = [kept[n] EXCEPT !.deliveredTo = kept[n].deliveredTo \ {d}]
    BY <1>4
  <2> QED
    BY <2>1, <2>2 DEF Entry
<1>7. entries' \in Seq(Entry)
  <2>1. DOMAIN kept = 1..Len(kept) /\ Len(kept) \in Nat
    BY <1>2
  <2>2. entries' \in [1..Len(kept) -> Entry]
    BY <1>4, <1>6, <2>1
  <2> QED
    BY <2>1, <2>2
<1> QED
  BY <1>o, <1>5, <1>6, <1>7

(* Lemma: what a pass leaves on the medium: the entries that not all others  *)
(* have taken now, in their order, with its mark.                            *)
LEMMA EntriesKept ==
    ASSUME TypeOK, NEW d \in Device, TakeFromMedium(d)
    PROVE  /\ entries' \in Seq(Entry)
           /\ \E g \in [DOMAIN entries' -> {k \in DOMAIN entries : ~TakenByAll(d, entries[k])}] :
                /\ \A m, n \in DOMAIN entries' : m < n => g[m] < g[n]
                /\ \A k \in DOMAIN entries : ~TakenByAll(d, entries[k]) =>
                       \E n \in DOMAIN entries' : g[n] = k
                /\ \A n \in DOMAIN entries' :
                       /\ entries'[n].senderId = entries[g[n]].senderId
                       /\ entries'[n].frame = entries[g[n]].frame
                       /\ entries'[n].deliveredTo =
                              IF entries[g[n]].senderId # d
                              THEN entries[g[n]].deliveredTo \cup {d}
                              ELSE entries[g[n]].deliveredTo
<1> DEFINE I == {k \in DOMAIN entries : ~TakenByAll(d, entries[k])}
           kept == At(entries, I)
<1>1. entries \in Seq(Entry)
  BY DEF TypeOK
<1>2. kept \in Seq(Entry) /\ \E g : Origin(g, entries, I)
  <2>1. I \in SUBSET (DOMAIN entries)
    OBVIOUS
  <2> HIDE DEF I
  <2> QED
    BY <1>1, <2>1, Selected
<1>3. PICK g : Origin(g, entries, I)
  BY <1>2
<1>4. entries' = [k \in DOMAIN kept |->
          IF NewFor(d, kept[k]) THEN [kept[k] EXCEPT !.deliveredTo = @ \cup {d}] ELSE kept[k]]
  BY DEF TakeFromMedium
<1>o. /\ g \in [DOMAIN kept -> I]
      /\ \A m, n \in DOMAIN kept : m < n => g[m] < g[n]
      /\ \A k \in I : \E n \in DOMAIN kept : g[n] = k
      /\ \A n \in DOMAIN kept : kept[n] = entries[g[n]]
  BY <1>3 DEF Origin
<1> HIDE DEF kept
<1>5. DOMAIN entries' = DOMAIN kept
  BY <1>4
<1>6. ASSUME NEW n \in DOMAIN kept
      PROVE  /\ entries'[n] \in Entry
             /\ entries'[n].senderId = entries[g[n]].senderId
             /\ entries'[n].frame = entries[g[n]].frame
             /\ entries'[n].deliveredTo = IF entries[g[n]].senderId # d
                                          THEN entries[g[n]].deliveredTo \cup {d}
                                          ELSE entries[g[n]].deliveredTo
  <2>1. kept[n] \in Entry /\ kept[n] = entries[g[n]]
    BY <1>2, <1>o
  <2>2. entries'[n] = IF NewFor(d, kept[n])
                      THEN [kept[n] EXCEPT !.deliveredTo = kept[n].deliveredTo \cup {d}]
                      ELSE kept[n]
    BY <1>4
  <2>3. CASE NewFor(d, kept[n])
    BY <2>1, <2>2, <2>3 DEF Entry, NewFor
  <2>4. CASE ~NewFor(d, kept[n])
    <3>1. entries'[n] = kept[n]
      BY <2>2, <2>4
    <3>2. kept[n].senderId # d => kept[n].deliveredTo \cup {d} = kept[n].deliveredTo
      BY <2>4 DEF NewFor
    <3> QED
      BY <2>1, <3>1, <3>2
  <2> QED
    BY <2>3, <2>4
<1>7. entries' \in Seq(Entry)
  <2>1. DOMAIN kept = 1..Len(kept) /\ Len(kept) \in Nat
    BY <1>2
  <2>2. entries' \in [1..Len(kept) -> Entry]
    BY <1>4, <1>6, <2>1
  <2> QED
    BY <2>1, <2>2
<1>8. /\ g \in [DOMAIN entries' -> I]
      /\ \A m, n \in DOMAIN entries' : m < n => g[m] < g[n]
      /\ \A k \in DOMAIN entries : ~TakenByAll(d, entries[k]) =>
             \E n \in DOMAIN entries' : g[n] = k
  BY <1>o, <1>5
<1>9. ASSUME NEW n \in DOMAIN entries'
      PROVE  /\ entries'[n].senderId = entries[g[n]].senderId
             /\ entries'[n].frame = entries[g[n]].frame
             /\ entries'[n].deliveredTo = IF entries[g[n]].senderId # d
                                          THEN entries[g[n]].deliveredTo \cup {d}
                                          ELSE entries[g[n]].deliveredTo
  BY <1>5, <1>6
<1> QED
  BY <1>7, <1>8, <1>9, Zenon

(* Lemma: what a pass takes from the medium: what is new for the device, in  *)
(* its order; it goes on to deliver if there is anything.                    *)
LEMMA FramesTaken ==
    ASSUME TypeOK, NEW d \in Device, TakeFromMedium(d)
    PROVE  /\ framesToDeliver'[d] \in Seq(Frame)
           /\ physicalWorker'[d] = IF framesToDeliver'[d] = <<>> THEN "idle" ELSE "delivering"
           /\ \E g \in [DOMAIN framesToDeliver'[d] -> {k \in DOMAIN entries : NewFor(d, entries[k])}] :
                /\ \A m, n \in DOMAIN framesToDeliver'[d] : m < n => g[m] < g[n]
                /\ \A k \in DOMAIN entries : NewFor(d, entries[k]) =>
                       \E n \in DOMAIN framesToDeliver'[d] : g[n] = k
                /\ \A n \in DOMAIN framesToDeliver'[d] :
                       framesToDeliver'[d][n] = entries[g[n]].frame
<1> DEFINE I == {k \in DOMAIN entries : NewFor(d, entries[k])}
           taken == At(entries, I)
<1>1. entries \in Seq(Entry)
  BY DEF TypeOK
<1>2. taken \in Seq(Entry) /\ \E g : Origin(g, entries, I)
  <2>1. I \in SUBSET (DOMAIN entries)
    OBVIOUS
  <2> HIDE DEF I
  <2> QED
    BY <1>1, <2>1, Selected
<1>3. PICK g : Origin(g, entries, I)
  BY <1>2
<1>o. /\ g \in [DOMAIN taken -> I]
      /\ \A m, n \in DOMAIN taken : m < n => g[m] < g[n]
      /\ \A k \in I : \E n \in DOMAIN taken : g[n] = k
      /\ \A n \in DOMAIN taken : taken[n] = entries[g[n]]
  BY <1>3 DEF Origin
<1>4. /\ framesToDeliver' = [framesToDeliver EXCEPT ![d] = [k \in DOMAIN taken |-> taken[k].frame]]
      /\ physicalWorker' = [physicalWorker EXCEPT ![d] =
             IF taken = <<>> THEN "idle" ELSE "delivering"]
  BY DEF TakeFromMedium
<1> HIDE DEF taken
<1>5. framesToDeliver'[d] = [k \in DOMAIN taken |-> taken[k].frame]
  BY <1>4 DEF TypeOK
<1>6. DOMAIN framesToDeliver'[d] = DOMAIN taken
  BY <1>5
<1>7. framesToDeliver'[d] \in Seq(Frame)
  <2>1. DOMAIN taken = 1..Len(taken) /\ Len(taken) \in Nat
    BY <1>2
  <2>2. \A n \in DOMAIN taken : taken[n].frame \in Frame
    BY <1>2, Fields
  <2>3. framesToDeliver'[d] \in [1..Len(taken) -> Frame]
    BY <1>5, <2>1, <2>2
  <2> QED
    BY <2>1, <2>3
<1>8. taken = <<>> <=> framesToDeliver'[d] = <<>>
  BY <1>2, <1>6, <1>7
<1>9. physicalWorker'[d] = IF taken = <<>> THEN "idle" ELSE "delivering"
  BY <1>4 DEF TypeOK
<1>10. \A n \in DOMAIN taken : framesToDeliver'[d][n] = entries[g[n]].frame
  BY <1>5, <1>o
<1> QED
  BY <1>o, <1>6, <1>7, <1>8, <1>9, <1>10

-----------------------------------------------------------------------------
(* What of a sender is on the medium *)

(* Lemma: what a device has sent is what it pushed and has not queued.       *)
LEMMA SentType ==
    ASSUME TypeOK, QueuesInOrder, NEW s \in Device
    PROVE  /\ Sent(s) \in Nat /\ pushed[s] \in Nat
           /\ Sent(s) + Len(framesWithCrc[s]) + Len(outgoingFrames[s]) + Len(outgoingPackages[s])
                  = pushed[s]
           /\ Len(framesWithCrc[s]) \in Nat /\ Len(outgoingFrames[s]) \in Nat
           /\ Len(outgoingPackages[s]) \in Nat
<1> DEFINE a == Len(outgoingPackages[s])
           b == Len(outgoingFrames[s])
           c == Len(framesWithCrc[s])
<1>1. pushed[s] \in Nat /\ a \in Nat /\ b \in Nat /\ c \in Nat
  BY DEF TypeOK
<1>2. Queued(s) <= pushed[s]
  BY DEF QueuesInOrder, QueueInOrder
<1>3. Queued(s) = a + b + c
  BY DEF Queued
<1>4. Sent(s) = pushed[s] - Queued(s)
  BY DEF Sent
<1>5. Sent(s) \in Nat /\ Sent(s) + c + b + a = pushed[s]
  <2> HIDE DEF a, b, c
  <2> QED
    BY <1>1, <1>2, <1>3, <1>4
<1> QED
  BY <1>1, <1>5

(* Lemma: the number of an entry.                                            *)
LEMMA NumberType ==
    ASSUME TypeOK, NEW k \in DOMAIN entries
    PROVE  /\ NumberOf(k) \in Nat /\ entries[k] \in Entry /\ entries[k].senderId \in Device
           /\ entries[k].frame \in Frame /\ entries[k].frame.package \in Package
           /\ entries[k].deliveredTo \subseteq participants
<1>1. entries[k] \in Entry
  BY DEF TypeOK
<1> QED
  BY <1>1, Fields DEF NumberOf, TypeOK

(* Lemma: the entries of a sender are no more than it has sent; unless it    *)
(* has stopped, they are what it sent last.                                  *)
LEMMA EntriesCount ==
    ASSUME TypeOK, QueuesInOrder, MediumInOrder, NEW s \in Device
    PROVE  /\ Len(EntriesOf(s)) \in 0..Sent(s)
           /\ NoGap /\ physicalWorker[s] # "stopped" =>
                  \A k \in DOMAIN entries : entries[k].senderId = s =>
                      NumberOf(k) \in (Sent(s) - Len(EntriesOf(s)) + 1)..Sent(s)
           /\ NoGap /\ physicalWorker[s] # "stopped" =>
                  \A n \in (Sent(s) - Len(EntriesOf(s)) + 1)..Sent(s) :
                      \E k \in DOMAIN entries : entries[k].senderId = s /\ NumberOf(k) = n
<1> DEFINE I == {k \in DOMAIN entries : entries[k].senderId = s}
           N == Len(EntriesOf(s))
<1>1. EntriesOf(s) = At(entries, I)
  BY DEF EntriesOf
<1>2. EntriesOf(s) \in Seq(Entry) /\ \E g : Origin(g, entries, I)
  <2>1. I \in SUBSET (DOMAIN entries) /\ entries \in Seq(Entry)
    BY DEF TypeOK
  <2> HIDE DEF I
  <2> QED
    BY <1>1, <2>1, Selected
<1>3. PICK g : Origin(g, entries, I)
  BY <1>2
<1>4. N \in Nat /\ DOMAIN EntriesOf(s) = 1..N
  BY <1>2
<1>5. /\ g \in [1..N -> I]
      /\ \A m, n \in 1..N : m < n => g[m] < g[n]
      /\ \A k \in I : \E n \in 1..N : g[n] = k
  BY <1>1, <1>3, <1>4 DEF Origin
<1>6. Sent(s) \in Nat
  BY SentType
<1> DEFINE f == [n \in 1..N |-> NumberOf(g[n])]
<1>7. \A n \in 1..N : g[n] \in DOMAIN entries /\ entries[g[n]].senderId = s
  BY <1>5
<1>8. \A n \in 1..N : f[n] \in 1..Sent(s)
  BY <1>7 DEF MediumInOrder
<1>9. \A m, n \in 1..N : m < n => f[m] < f[n]
  BY <1>5, <1>7 DEF MediumInOrder
<1> HIDE DEF N
<1>10. N \in 0..Sent(s)
  <2>1. CASE N = 0
    BY <2>1, <1>6
  <2>2. CASE N > 0
    <3>1. 1 \in Int /\ N \in Int /\ 1 <= N /\ Sent(s) \in Int
      BY <2>2, <1>4, <1>6
    <3> HIDE DEF f
    <3>2. N - 1 <= Sent(s) - 1
      BY ONLY <3>1, <1>8, <1>9, Room
    <3> QED
      BY <1>4, <1>6, <3>1, <3>2
  <2> QED
    BY <1>4, <2>1, <2>2
<1>11. ASSUME NoGap, physicalWorker[s] # "stopped"
       PROVE  /\ \A n \in 1..N : f[n] \in (Sent(s) - N + 1)..Sent(s)
              /\ \A x \in (Sent(s) - N + 1)..Sent(s) : \E n \in 1..N : f[n] = x
  <2>1. CASE N = 0
    BY <2>1, <1>6
  <2>2. CASE N > 0
    <3> DEFINE lo == f[1]
    <3>1. 1 \in 1..N /\ lo \in 1..Sent(s)
      BY <2>2, <1>4, <1>8
    <3>2. \A n \in 1..N : f[n] \in lo..Sent(s)
      <4>1. \A n \in 1..N : n = 1 \/ 1 < n
        BY <1>4
      <4> HIDE DEF f
      <4> QED
        BY <3>1, <4>1, <1>8, <1>9
    <3>3. \A x \in lo..Sent(s) : \E n \in 1..N : f[n] = x
      <4>1. SUFFICES ASSUME NEW x \in lo..Sent(s) PROVE \E n \in 1..N : f[n] = x
        OBVIOUS
      <4>2. g[1] \in DOMAIN entries /\ entries[g[1]].senderId = s /\ lo = NumberOf(g[1])
        BY <1>7, <3>1
      <4>3. PICK j \in DOMAIN entries : entries[j].senderId = s /\ NumberOf(j) = x
        BY <1>11, <4>1, <4>2 DEF NoGap
      <4>4. PICK n \in 1..N : g[n] = j
        BY <1>5, <4>3
      <4> QED
        BY <4>3, <4>4
    <3>4. lo \in Int /\ Sent(s) \in Int /\ lo <= Sent(s) + 1
      BY <1>6, <3>1
    <3> HIDE DEF f, lo
    <3>5. N = Sent(s) - lo + 1
      <4>1. N \in Nat
        BY <1>4
      <4>2. Fills(f, N, lo, Sent(s))
        BY <1>9, <3>2, <3>3 DEF Fills
      <4> QED
        BY ONLY <4>1, <4>2, <3>4, Consecutive
    <3>6. lo = Sent(s) - N + 1
      BY <1>4, <3>4, <3>5
    <3> QED
      BY <3>2, <3>3, <3>6
  <2> QED
    BY <1>4, <2>1, <2>2
<1>12. ASSUME NoGap, physicalWorker[s] # "stopped", NEW k \in DOMAIN entries,
              entries[k].senderId = s
       PROVE  NumberOf(k) \in (Sent(s) - N + 1)..Sent(s)
  <2>1. PICK n \in 1..N : g[n] = k
    BY <1>5, <1>12
  <2>2. f[n] = NumberOf(k)
    BY <2>1
  <2> HIDE DEF f
  <2> QED
    BY <1>11, <1>12, <2>2
<1>13. ASSUME NoGap, physicalWorker[s] # "stopped", NEW x \in (Sent(s) - N + 1)..Sent(s)
       PROVE  \E k \in DOMAIN entries : entries[k].senderId = s /\ NumberOf(k) = x
  <2>1. PICK n \in 1..N : f[n] = x
    BY <1>11, <1>13
  <2> QED
    BY <2>1, <1>7
<1> QED
  BY <1>10, <1>12, <1>13 DEF N

-----------------------------------------------------------------------------
(* The types *)

(* Lemma: appending to, and cutting, one of the queues of the devices.       *)
LEMMA QueueType ==
    ASSUME NEW T, NEW q \in [Device -> Seq(T)], NEW d \in Device
    PROVE  /\ \A e \in T : [q EXCEPT ![d] = Append(@, e)] \in [Device -> Seq(T)]
           /\ q[d] # <<>> => /\ Head(q[d]) \in T
                             /\ [q EXCEPT ![d] = Tail(@)] \in [Device -> Seq(T)]
           /\ [q EXCEPT ![d] = <<>>] \in [Device -> Seq(T)]
<1>1. q[d] \in Seq(T)
  OBVIOUS
<1>2. \A e \in T : Append(q[d], e) \in Seq(T)
  BY <1>1
<1>3. q[d] # <<>> => Head(q[d]) \in T /\ Tail(q[d]) \in Seq(T)
  BY <1>1, HeadTail
<1>4. <<>> \in Seq(T)
  OBVIOUS
<1> QED
  BY <1>2, <1>3, <1>4


LEMMA TypeDevices ==
    ASSUME PipelineInv, NEW d \in Device, Join(d) \/ Leave(d)
    PROVE  TypeOK'
<1> USE DEF PipelineInv
<1>1. CASE Join(d)
  <2> USE <1>1 DEF Join
  <2>1. \A s \in Device : pushed[s] - Queued(s) - Len(EntriesOf(s)) + 1 \in Nat
    <3>1. TAKE s \in Device
    <3>2. Sent(s) \in Nat /\ Len(EntriesOf(s)) \in 0..Sent(s)
      BY SentType, EntriesCount
    <3> QED
      BY <3>2 DEF Sent
  <2>2. firstDue' \in [Device -> [Device -> Nat]]
    <3>1. \A e \in Device : [firstDue[e] EXCEPT ![d] = 1] \in [Device -> Nat]
      BY DEF TypeOK
    <3>2. [s \in Device |-> pushed[s] - Queued(s) - Len(EntriesOf(s)) + 1] \in [Device -> Nat]
      BY <2>1
    <3> QED
      BY <3>1, <3>2
  <2>3. /\ life' \in [Device -> Nat] /\ pushed' \in [Device -> Nat]
        /\ handlerFailed' \in [Device -> BOOLEAN]
        /\ codingWorker' \in [Device -> {"absent", "running", "stopped"}]
        /\ physicalWorker' \in [Device -> {"absent", "idle", "sending", "delivering", "stopped"}]
        /\ participants' \subseteq Device
    BY DEF TypeOK, Started
  <2>4. received' \in [Device -> Seq(Package)]
    BY QueueType DEF TypeOK
  <2>5. \A k \in DOMAIN entries : entries[k].deliveredTo \subseteq participants'
    BY DEF TypeOK
  <2> QED
    BY <2>2, <2>3, <2>4, <2>5 DEF TypeOK, queues
<1>2. CASE Leave(d)
  <2> USE <1>2
  <2>1. /\ outgoingPackages' \in [Device -> Seq(Package)]
        /\ outgoingFrames' \in [Device -> Seq(Frame)]
        /\ framesWithCrc' \in [Device -> Seq(Frame)]
    BY QueueType DEF TypeOK, Leave
  <2>2. /\ pushed' \in [Device -> Nat]
        /\ codingWorker' \in [Device -> {"absent", "running", "stopped"}]
        /\ physicalWorker' \in [Device -> {"absent", "idle", "sending", "delivering", "stopped"}]
        /\ participants' \subseteq Device
    BY DEF TypeOK, Leave
  <2>3. entries' \in Seq(Entry)
    BY EntriesLeft
  <2>4. \A n \in DOMAIN entries' : entries'[n].deliveredTo \subseteq participants'
    <3>1. PICK g \in [DOMAIN entries' -> {k \in DOMAIN entries : entries[k].senderId # d}] :
              \A n \in DOMAIN entries' :
                  entries'[n].deliveredTo = entries[g[n]].deliveredTo \ {d}
      BY EntriesLeft
    <3>2. \A n \in DOMAIN entries' : entries[g[n]].deliveredTo \subseteq participants
      BY <3>1 DEF TypeOK
    <3> QED
      BY <3>1, <3>2 DEF Leave
  <2> QED
    BY <2>1, <2>2, <2>3, <2>4 DEF TypeOK, Leave
<1> QED
  BY <1>1, <1>2

LEMMA TypeOutgoing ==
    ASSUME PipelineInv, NEW d \in Device,
           (\E size \in PayloadSizes : Push(d, size)) \/ Serialize(d) \/ Encode(d)
    PROVE  TypeOK'
<1> USE DEF PipelineInv
<1>1. ASSUME NEW size \in PayloadSizes, Push(d, size) PROVE TypeOK'
  <2> DEFINE p == [from |-> d, life |-> life[d], number |-> pushed[d] + 1, payload |-> size]
  <2>1. p \in Package
    BY DEF TypeOK, Package
  <2>2. outgoingPackages' = [outgoingPackages EXCEPT ![d] = Append(@, p)]
    BY <1>1 DEF Push
  <2> HIDE DEF p
  <2>3. outgoingPackages' \in [Device -> Seq(Package)]
    BY <2>1, <2>2, QueueType DEF TypeOK
  <2>4. pushed' \in [Device -> Nat]
    BY <1>1 DEF Push, TypeOK
  <2> QED
    BY <1>1, <2>3, <2>4 DEF Push, TypeOK, medium
<1>2. CASE Serialize(d)
  <2> USE <1>2 DEF Serialize
  <2>1. Head(outgoingPackages[d]) \in Package
    BY QueueType DEF TypeOK
  <2>2. Serialized(Head(outgoingPackages[d])) \in Frame
    BY <2>1, Made
  <2>3. /\ outgoingPackages' \in [Device -> Seq(Package)]
        /\ outgoingFrames' \in [Device -> Seq(Frame)]
    BY <2>2, QueueType DEF TypeOK
  <2> QED
    BY <2>3 DEF TypeOK, medium, history
<1>3. CASE Encode(d)
  <2> DEFINE frame == Head(outgoingFrames[d])
  <2>1. frame \in Frame /\ outgoingFrames' \in [Device -> Seq(Frame)]
    BY <1>3, QueueType DEF TypeOK, Encode
  <2>2. frame = Serialized(frame.package) /\ frame.package \in Package
    <3>1. frame \in Plain
      BY <1>3, QueueType DEF Sizes, Encode
    <3> QED
      BY <3>1, Fields DEF Plain
  <2>3. WithCrc(frame) \in Frame
    BY <2>2, Made
  <2> HIDE DEF frame
  <2>4. framesWithCrc' \in [Device -> Seq(Frame)]
    BY <1>3, <2>3, QueueType DEF Encode, TypeOK, frame
  <2>5. codingWorker' \in [Device -> {"absent", "running", "stopped"}]
    BY <1>3 DEF Encode, TypeOK
  <2> QED
    BY <1>3, <2>1, <2>4, <2>5 DEF Encode, TypeOK, medium, history
<1> QED
  BY <1>1, <1>2, <1>3

LEMMA TypePhysical ==
    ASSUME PipelineInv, NEW d \in Device, PhysicalLayer(d)
    PROVE  TypeOK'
<1> USE DEF PipelineInv
<1> DEFINE Phases == {"absent", "idle", "sending", "delivering", "stopped"}
<1>1. CASE BeginPass(d)
  BY <1>1 DEF BeginPass, TypeOK, queues, medium, history
<1>2. CASE PutOnMedium(d)
  <2> DEFINE frame == Head(framesWithCrc[d])
             entry == [senderId |-> d, frame |-> frame, deliveredTo |-> {}]
  <2>1. frame \in Frame /\ framesWithCrc' \in [Device -> Seq(Frame)]
    BY <1>2, QueueType DEF TypeOK, PutOnMedium
  <2>2. entry \in Entry /\ entry.deliveredTo = {}
    BY <2>1 DEF Entry
  <2>3. entries' = entries \/ entries' = Append(entries, entry)
    BY <1>2 DEF PutOnMedium
  <2> HIDE DEF entry
  <2>a. entries \in Seq(Entry)
    BY DEF TypeOK
  <2>4. entries' \in Seq(Entry)
    BY <2>2, <2>3, <2>a, Appended
  <2>5. \A n \in DOMAIN entries' : entries'[n].deliveredTo \subseteq participants
    <3>1. CASE entries' = entries
      BY <3>1 DEF TypeOK
    <3>2. CASE entries' = Append(entries, entry)
      <4>1. ASSUME NEW n \in DOMAIN entries'
            PROVE  \/ entries'[n] = entry
                   \/ n \in DOMAIN entries /\ entries'[n] = entries[n]
        <5>1. n \in DOMAIN Append(entries, entry)
          BY <3>2
        <5>2. \/ n \in DOMAIN entries /\ Append(entries, entry)[n] = entries[n]
              \/ n = Len(entries) + 1 /\ Append(entries, entry)[n] = entry
          BY <2>2, <2>a, <5>1, AppendedAt
        <5> QED
          BY <3>2, <5>2
      <4> QED
        BY <2>2, <4>1 DEF TypeOK
    <3> QED
      BY <2>3, <3>1, <3>2
  <2>6. physicalWorker' \in [Device -> Phases]
    BY <1>2 DEF PutOnMedium, TypeOK
  <2> QED
    BY <1>2, <2>1, <2>4, <2>5, <2>6 DEF PutOnMedium, TypeOK, history
<1>3. CASE TakeFromMedium(d)
  <2>1. entries' \in Seq(Entry)
    BY <1>3, EntriesKept
  <2>2. \A n \in DOMAIN entries' : entries'[n].deliveredTo \subseteq participants
    <3>1. PICK g \in [DOMAIN entries' -> {k \in DOMAIN entries : ~TakenByAll(d, entries[k])}] :
              \A n \in DOMAIN entries' :
                  entries'[n].deliveredTo = IF entries[g[n]].senderId # d
                                            THEN entries[g[n]].deliveredTo \cup {d}
                                            ELSE entries[g[n]].deliveredTo
      BY <1>3, EntriesKept
    <3>2. \A n \in DOMAIN entries' : entries[g[n]].deliveredTo \subseteq participants
      BY <3>1 DEF TypeOK
    <3>3. d \in participants
      BY <1>3 DEF TakeFromMedium, Workers, Present
    <3> QED
      BY <3>1, <3>2, <3>3
  <2>3. framesToDeliver' \in [Device -> Seq(Frame)]
    <3>1. framesToDeliver'[d] \in Seq(Frame)
      BY <1>3, FramesTaken
    <3>2. framesToDeliver' = [framesToDeliver EXCEPT ![d] = framesToDeliver'[d]]
      BY <1>3 DEF TakeFromMedium, TypeOK
    <3> QED
      BY <3>1, <3>2 DEF TypeOK
  <2>4. physicalWorker' \in [Device -> Phases]
    BY <1>3 DEF TakeFromMedium, TypeOK
  <2> QED
    BY <1>3, <2>1, <2>2, <2>3, <2>4 DEF TakeFromMedium, TypeOK, queues, history
<1>4. CASE Deliver(d)
  <2>1. framesToDeliver[d] # <<>>
    BY <1>4 DEF Deliver, Workers
  <2>2. Head(framesToDeliver[d]) \in Frame /\ framesToDeliver' \in [Device -> Seq(Frame)]
    BY <1>4, <2>1, QueueType DEF Deliver, TypeOK
  <2>3. Head(framesToDeliver[d]).package \in Package
    BY <2>2, Fields
  <2>4. received' \in [Device -> Seq(Package)]
    BY <1>4, <2>3, QueueType DEF Deliver, TypeOK
  <2>5. physicalWorker' \in [Device -> Phases]
    BY <1>4 DEF Deliver, TypeOK
  <2> QED
    BY <1>4, <2>2, <2>4, <2>5 DEF Deliver, TypeOK, queues, medium
<1>5. CASE DeliverFails(d)
  <2>1. framesToDeliver[d] # <<>>
    BY <1>5 DEF DeliverFails, Workers
  <2>2. Head(framesToDeliver[d]) \in Frame /\ framesToDeliver' \in [Device -> Seq(Frame)]
    BY <1>5, <2>1, QueueType DEF DeliverFails, TypeOK
  <2>3. Head(framesToDeliver[d]).package \in Package
    BY <2>2, Fields
  <2>4. received' \in [Device -> Seq(Package)]
    BY <1>5, <2>3, QueueType DEF DeliverFails, TypeOK
  <2>5. physicalWorker' \in [Device -> Phases]
    BY <1>5 DEF DeliverFails, TypeOK
  <2>6. handlerFailed' \in [Device -> BOOLEAN]
    <3>1. Receivable(Head(framesToDeliver[d])) \in BOOLEAN
      BY DEF Receivable, EnsureDecodable, EnsureEncodable, EnsureNotTruncated
    <3> QED
      BY <1>5, <3>1 DEF DeliverFails, TypeOK
  <2> QED
    BY <1>5, <2>2, <2>4, <2>5, <2>6 DEF DeliverFails, TypeOK, queues, medium
<1> QED
  BY <1>1, <1>2, <1>3, <1>4, <1>5 DEF PhysicalLayer

(* Lemma: a step keeps the types.                                            *)
LEMMA PipelineTypeStep == PipelineInv /\ [Next]_vars => TypeOK'
<1> SUFFICES ASSUME PipelineInv, [Next]_vars PROVE TypeOK'
  OBVIOUS
<1>1. CASE UNCHANGED vars
  BY <1>1 DEF vars, queues, medium, history, PipelineInv, TypeOK
<1>2. CASE Next
  BY <1>2, TypeDevices, TypeOutgoing, TypePhysical DEF Next
<1> QED
  BY <1>1, <1>2

-----------------------------------------------------------------------------
(* The workers *)

(* Lemma: a step keeps what is known of the workers.                         *)
LEMMA WorkersStep == PipelineInv /\ [Next]_vars => Workers'
<1> SUFFICES ASSUME PipelineInv, [Next]_vars PROVE Workers'
  OBVIOUS
<1> USE DEF PipelineInv
<1>1. CASE UNCHANGED vars
  BY <1>1 DEF vars, queues, medium, history, Workers, Present
<1>2. ASSUME NEW d \in Device, Join(d) PROVE Workers'
  <2>1. framesToDeliver[d] = <<>>
    BY <1>2 DEF Join, Workers
  <2>2. /\ Present(d)' /\ codingWorker'[d] = "running" /\ physicalWorker'[d] = "idle"
        /\ UNCHANGED <<queues, framesToDeliver>>
    BY <1>2 DEF Join, Started, Present, TypeOK
  <2>3. \A e \in Device : e # d =>
            /\ Present(e)' <=> Present(e)
            /\ codingWorker'[e] = codingWorker[e] /\ physicalWorker'[e] = physicalWorker[e]
            /\ pushed'[e] = pushed[e]
    BY <1>2 DEF Join, Present, TypeOK
  <2> QED
    BY <2>1, <2>2, <2>3 DEF Workers, queues
<1>3. ASSUME NEW d \in Device, Leave(d) PROVE Workers'
  <2>1. framesToDeliver[d] = <<>>
    BY <1>3 DEF Leave, Workers
  <2> QED
    BY <1>3, <2>1 DEF Leave, Workers, Present, TypeOK
<1>4. ASSUME NEW d \in Device, NEW size \in PayloadSizes, Push(d, size) PROVE Workers'
  BY <1>4 DEF Push, Workers, Present, medium, TypeOK
<1>5. ASSUME NEW d \in Device, Serialize(d) PROVE Workers'
  <2>1. Present(d)
    BY <1>5 DEF Serialize, Workers
  <2> QED
    BY <1>5, <2>1 DEF Serialize, Workers, Present, medium, history, TypeOK
<1>6. ASSUME NEW d \in Device, Encode(d) PROVE Workers'
  <2> DEFINE frame == Head(outgoingFrames[d])
  <2>1. frame \in Plain
    BY <1>6, QueueType DEF Encode, Sizes
  <2>2. EnsureEncodable(frame) /\ WithCrc(frame).bytes <= MaxFrameBytesWithCrc
    BY <2>1, Made, Fields DEF Plain
  <2>3. codingWorker' = codingWorker
    BY <1>6, <2>2 DEF Encode
  <2>4. Present(d)
    BY <1>6 DEF Encode, Workers
  <2> QED
    BY <1>6, <2>3, <2>4 DEF Encode, Workers, Present, medium, history, TypeOK
<1>7. ASSUME NEW d \in Device, BeginPass(d) PROVE Workers'
  BY <1>7 DEF BeginPass, Workers, Present, queues, medium, history, TypeOK
<1>8. ASSUME NEW d \in Device, PutOnMedium(d) PROVE Workers'
  <2>1. Present(d) /\ physicalWorker[d] = "sending" /\ framesToDeliver[d] = <<>>
    BY <1>8 DEF PutOnMedium, Workers
  <2>2. /\ physicalWorker'[d] \in {"sending", "stopped"}
        /\ \A e \in Device : e # d => /\ physicalWorker'[e] = physicalWorker[e]
                                      /\ framesWithCrc'[e] = framesWithCrc[e]
    BY <1>8, <2>1 DEF PutOnMedium, TypeOK
  <2>3. /\ participants' = participants /\ codingWorker' = codingWorker /\ pushed' = pushed
        /\ outgoingPackages' = outgoingPackages /\ outgoingFrames' = outgoingFrames
        /\ framesToDeliver' = framesToDeliver
    BY <1>8 DEF PutOnMedium, history
  <2> QED
    BY <2>1, <2>2, <2>3 DEF Workers, Present
<1>9. ASSUME NEW d \in Device, TakeFromMedium(d) PROVE Workers'
  <2>1. physicalWorker'[d] = IF framesToDeliver'[d] = <<>> THEN "idle" ELSE "delivering"
    BY <1>9, FramesTaken
  <2>2. \A e \in Device : e # d => /\ physicalWorker'[e] = physicalWorker[e]
                                   /\ framesToDeliver'[e] = framesToDeliver[e]
    BY <1>9 DEF TakeFromMedium, TypeOK
  <2>3. Present(d)
    BY <1>9 DEF TakeFromMedium, Workers
  <2> QED
    BY <1>9, <2>1, <2>2, <2>3 DEF TakeFromMedium, Workers, Present, queues, history, TypeOK
<1>10. ASSUME NEW d \in Device, Deliver(d) PROVE Workers'
  <2>1. framesToDeliver[d] # <<>> /\ framesToDeliver[d] \in Seq(Frame)
    BY <1>10 DEF Deliver, Workers, TypeOK
  <2>2. Len(framesToDeliver[d]) = 1 <=> Tail(framesToDeliver[d]) = <<>>
    <3> DEFINE rest == Tail(framesToDeliver[d])
               n == Len(framesToDeliver[d])
    <3>1. rest \in Seq(Frame) /\ Len(rest) = n - 1 /\ n \in Nat
      BY <2>1, HeadTail
    <3> HIDE DEF rest, n
    <3>2. n = 1 <=> Len(rest) = 0
      BY <3>1
    <3>3. Len(rest) = 0 <=> rest = <<>>
      BY <3>1
    <3> QED
      BY <3>2, <3>3 DEF rest, n
  <2>3. Present(d)
    BY <1>10 DEF Deliver, Workers
  <2> QED
    BY <1>10, <2>2, <2>3 DEF Deliver, Workers, Present, queues, medium, TypeOK
<1>11. ASSUME NEW d \in Device, DeliverFails(d) PROVE Workers'
  <2>1. Present(d)
    BY <1>11 DEF DeliverFails, Workers
  <2> QED
    BY <1>11, <2>1 DEF DeliverFails, Workers, Present, queues, medium, TypeOK
<1> QED
  BY <1>1, <1>2, <1>3, <1>4, <1>5, <1>6, <1>7, <1>8, <1>9, <1>10, <1>11
  DEF Next, PhysicalLayer

(* Lemma: a step keeps the lengths of the frames.                            *)
LEMMA SizesStep == PipelineInv /\ [Next]_vars => Sizes'
<1> SUFFICES ASSUME PipelineInv, [Next]_vars PROVE Sizes'
  OBVIOUS
<1> USE DEF PipelineInv
<1> DEFINE MediumCoded == \A k \in DOMAIN entries : entries[k].frame \in Coded
<1>a. /\ outgoingFrames \in [Device -> Seq(Plain)] /\ framesWithCrc \in [Device -> Seq(Coded)]
      /\ framesToDeliver \in [Device -> Seq(Coded)] /\ MediumCoded
  BY DEF Sizes
<1>1. CASE UNCHANGED <<outgoingFrames, framesWithCrc, framesToDeliver, entries>>
  BY <1>1, <1>a DEF Sizes
<1>2. ASSUME NEW d \in Device, Leave(d) PROVE Sizes'
  <2>1. outgoingFrames' \in [Device -> Seq(Plain)] /\ framesWithCrc' \in [Device -> Seq(Coded)]
    BY <1>2, <1>a, QueueType DEF Leave
  <2>2. MediumCoded'
    <3>1. PICK g \in [DOMAIN entries' -> {k \in DOMAIN entries : entries[k].senderId # d}] :
              \A n \in DOMAIN entries' : entries'[n].frame = entries[g[n]].frame
      BY <1>2, EntriesLeft
    <3> QED
      BY <3>1, <1>a
  <2> QED
    BY <1>2, <1>a, <2>1, <2>2 DEF Leave, Sizes
<1>3. ASSUME NEW d \in Device, Serialize(d) PROVE Sizes'
  <2>1. Head(outgoingPackages[d]) \in Package
    BY <1>3, QueueType DEF TypeOK, Serialize
  <2>2. Serialized(Head(outgoingPackages[d])) \in Plain
    BY <2>1, Made DEF Plain
  <2>3. outgoingFrames' \in [Device -> Seq(Plain)]
    BY <1>3, <1>a, <2>2, QueueType DEF Serialize
  <2> QED
    BY <1>3, <1>a, <2>3 DEF Serialize, Sizes, medium
<1>4. ASSUME NEW d \in Device, Encode(d) PROVE Sizes'
  <2> DEFINE frame == Head(outgoingFrames[d])
  <2>1. frame \in Plain /\ outgoingFrames' \in [Device -> Seq(Plain)]
    BY <1>4, <1>a, QueueType DEF Encode
  <2>2. WithCrc(frame) \in Coded
    BY <2>1, Made, Fields DEF Plain, Coded
  <2> HIDE DEF frame
  <2>3. framesWithCrc' \in [Device -> Seq(Coded)]
    BY <1>4, <1>a, <2>2, QueueType DEF Encode, frame
  <2> QED
    BY <1>4, <1>a, <2>1, <2>3 DEF Encode, Sizes, medium
<1>5. ASSUME NEW d \in Device, PutOnMedium(d) PROVE Sizes'
  <2> DEFINE entry == [senderId |-> d, frame |-> Head(framesWithCrc[d]), deliveredTo |-> {}]
  <2>1. entry.frame \in Coded /\ framesWithCrc' \in [Device -> Seq(Coded)]
    BY <1>5, <1>a, QueueType DEF PutOnMedium
  <2>2. entry \in Entry /\ entries \in Seq(Entry)
    BY <2>1 DEF Entry, Coded, TypeOK
  <2>3. entries' = entries \/ entries' = Append(entries, entry)
    BY <1>5 DEF PutOnMedium
  <2> HIDE DEF entry
  <2>4. CASE entries' = entries
    BY <1>5, <1>a, <2>1, <2>4 DEF PutOnMedium, Sizes
  <2>5. CASE entries' = Append(entries, entry)
    <3>1. ASSUME NEW n \in DOMAIN Append(entries, entry)
          PROVE  Append(entries, entry)[n].frame \in Coded
      BY <1>a, <2>1, <2>2, AppendedAt
    <3>2. MediumCoded'
      BY <2>5, <3>1
    <3> QED
      BY <1>5, <1>a, <2>1, <3>2 DEF PutOnMedium, Sizes
  <2> QED
    BY <2>3, <2>4, <2>5
<1>6. ASSUME NEW d \in Device, TakeFromMedium(d) PROVE Sizes'
  <2>1. MediumCoded'
    <3>1. PICK g \in [DOMAIN entries' -> {k \in DOMAIN entries : ~TakenByAll(d, entries[k])}] :
              \A n \in DOMAIN entries' : entries'[n].frame = entries[g[n]].frame
      BY <1>6, EntriesKept
    <3> QED
      BY <3>1, <1>a
  <2>2. framesToDeliver'[d] \in Seq(Coded)
    <3>1. PICK g \in [DOMAIN framesToDeliver'[d] -> {k \in DOMAIN entries : NewFor(d, entries[k])}] :
              \A n \in DOMAIN framesToDeliver'[d] : framesToDeliver'[d][n] = entries[g[n]].frame
      BY <1>6, FramesTaken
    <3>2. framesToDeliver'[d] \in Seq(Frame)
      BY <1>6, FramesTaken
    <3>3. \A n \in DOMAIN framesToDeliver'[d] : framesToDeliver'[d][n] \in Coded
      BY <3>1, <1>a
    <3> QED
      BY <3>2, <3>3
  <2>3. framesToDeliver' \in [Device -> Seq(Coded)]
    <3>1. framesToDeliver' = [framesToDeliver EXCEPT ![d] = framesToDeliver'[d]]
      BY <1>6, <1>a DEF TakeFromMedium
    <3> QED
      BY <3>1, <2>2, <1>a
  <2> QED
    BY <1>6, <1>a, <2>1, <2>3 DEF TakeFromMedium, Sizes, queues
<1>7. ASSUME NEW d \in Device, Deliver(d) \/ DeliverFails(d) PROVE Sizes'
  <2>1. framesToDeliver[d] # <<>>
    BY <1>7 DEF Deliver, DeliverFails, Workers
  <2>2. framesToDeliver' \in [Device -> Seq(Coded)]
    <3>1. CASE Deliver(d)
      BY <3>1, <1>a, <2>1, QueueType DEF Deliver
    <3>2. CASE DeliverFails(d)
      BY <3>2, <1>a, <2>1, QueueType DEF DeliverFails
    <3> QED
      BY <1>7, <3>1, <3>2
  <2> QED
    BY <1>7, <1>a, <2>2 DEF Deliver, DeliverFails, Sizes, queues, medium
<1>8. ASSUME NEW d \in Device,
             Join(d) \/ (\E size \in PayloadSizes : Push(d, size)) \/ BeginPass(d)
      PROVE  Sizes'
  BY <1>8, <1>1 DEF Join, Push, BeginPass, queues, medium
<1>9. CASE UNCHANGED vars
  BY <1>9, <1>1 DEF vars, queues, medium
<1> QED
  BY <1>2, <1>3, <1>4, <1>5, <1>6, <1>7, <1>8, <1>9 DEF Next, PhysicalLayer

-----------------------------------------------------------------------------
(* The queues *)

(* Lemma: a sequence as a function.                                          *)
LEMMA AsFunction ==
    ASSUME NEW T, NEW seq \in Seq(T)
    PROVE  seq = [k \in 1..Len(seq) |-> seq[k]]
OBVIOUS

(* Lemma: the packages in a queue of frames that is appended to or cut.      *)
LEMMA CarriedQueue ==
    ASSUME NEW fs \in Seq(Frame)
    PROVE  /\ Carried(fs) \in Seq(Package) /\ Len(Carried(fs)) = Len(fs)
           /\ \A f \in Frame : Carried(Append(fs, f)) = Append(Carried(fs), f.package)
           /\ fs # <<>> => /\ Carried(fs) # <<>>
                           /\ Head(Carried(fs)) = Head(fs).package
                           /\ Carried(Tail(fs)) = Tail(Carried(fs))
<1> DEFINE c == Carried(fs)
<1>1. /\ Len(fs) \in Nat /\ DOMAIN fs = 1..Len(fs)
      /\ c = [k \in 1..Len(fs) |-> fs[k].package]
  BY DEF Carried
<1>2. \A k \in 1..Len(fs) : fs[k].package \in Package
  BY Fields
<1>3. c \in Seq(Package) /\ Len(c) = Len(fs)
  BY <1>1, <1>2
<1>4. ASSUME NEW f \in Frame PROVE Carried(Append(fs, f)) = Append(c, f.package)
  <2> DEFINE t == Append(fs, f)
  <2>1. /\ DOMAIN t = 1..(Len(fs) + 1) /\ t[Len(fs) + 1] = f
        /\ \A k \in 1..Len(fs) : t[k] = fs[k]
    BY Appended
  <2>2. /\ DOMAIN Append(c, f.package) = 1..(Len(fs) + 1)
        /\ Append(c, f.package)[Len(fs) + 1] = f.package
        /\ \A k \in 1..Len(fs) : Append(c, f.package)[k] = fs[k].package
        /\ Append(c, f.package) \in Seq(Package)
    <3>1. f.package \in Package
      BY Fields
    <3> HIDE DEF c
    <3> QED
      BY <1>1, <1>3, <3>1, Appended
  <2>3. Carried(t) = [k \in 1..(Len(fs) + 1) |-> t[k].package]
    BY <2>1 DEF Carried
  <2>4. \A k \in 1..(Len(fs) + 1) : k \in 1..Len(fs) \/ k = Len(fs) + 1
    BY <1>1
  <2> HIDE DEF t, c
  <2>5. \A k \in 1..(Len(fs) + 1) : t[k].package = Append(c, f.package)[k]
    BY <2>1, <2>2, <2>4
  <2>6. Append(c, f.package) = [k \in 1..(Len(fs) + 1) |-> Append(c, f.package)[k]]
    BY <2>2
  <2> QED
    BY <2>3, <2>5, <2>6 DEF t
<1>5. ASSUME fs # <<>>
      PROVE  c # <<>> /\ Head(c) = Head(fs).package /\ Carried(Tail(fs)) = Tail(c)
  <2>1. Len(fs) > 0
    BY <1>1, <1>5
  <2>2. c # <<>> /\ Len(c) > 0
    BY <1>3, <2>1
  <2>3. Head(c) = Head(fs).package
    BY <1>1, <1>3, <2>1
  <2>4. Carried(Tail(fs)) = [k \in 1..(Len(fs) - 1) |-> fs[k + 1].package]
    BY <1>1, <1>5 DEF Carried
  <2>5. Tail(c) = [k \in 1..(Len(fs) - 1) |-> c[k + 1]]
    <3> HIDE DEF c
    <3>1. /\ Tail(c) \in Seq(Package) /\ Len(Tail(c)) = Len(c) - 1
          /\ \A k \in DOMAIN Tail(c) : Tail(c)[k] = c[k + 1]
      BY <1>3, <2>2, HeadTail
    <3>2. Tail(c) = [k \in 1..Len(Tail(c)) |-> Tail(c)[k]]
      BY <3>1, AsFunction
    <3>3. DOMAIN Tail(c) = 1..(Len(fs) - 1)
      BY <3>1, <1>3
    <3> QED
      BY <3>1, <3>2, <3>3
  <2>6. \A k \in 1..(Len(fs) - 1) : c[k + 1] = fs[k + 1].package
    BY <1>1
  <2> HIDE DEF c
  <2> QED
    BY <2>2, <2>3, <2>4, <2>5, <2>6
<1> QED
  BY <1>3, <1>4, <1>5

(* Lemma: numbering goes on when the next package is appended, and begins    *)
(* one later when the first is taken.                                        *)
LEMMA NumberedQueue ==
    ASSUME NEW s, NEW q \in Seq(Package), NEW before \in Int, Numbered(s, q, before)
    PROVE  /\ \A p \in Package : Current(s, p) /\ p.number = before + Len(q) + 1 =>
                  Numbered(s, Append(q, p), before)
           /\ q # <<>> => /\ Current(s, Head(q)) /\ Head(q).number = before + 1
                          /\ Numbered(s, Tail(q), before + 1)
<1>1. ASSUME NEW p \in Package, Current(s, p), p.number = before + Len(q) + 1
      PROVE  Numbered(s, Append(q, p), before)
  <2>1. ASSUME NEW k \in DOMAIN Append(q, p)
        PROVE  Current(s, Append(q, p)[k]) /\ Append(q, p)[k].number = before + k
    <3>1. CASE k \in DOMAIN q /\ Append(q, p)[k] = q[k]
      BY <3>1 DEF Numbered
    <3>2. CASE k = Len(q) + 1 /\ Append(q, p)[k] = p
      <4>1. Len(q) \in Nat
        OBVIOUS
      <4>2. before + k = before + Len(q) + 1
        BY <3>2, <4>1
      <4> QED
        BY <1>1, <3>2, <4>2
    <3> QED
      BY <3>1, <3>2, AppendedAt
  <2> QED
    BY <2>1 DEF Numbered
<1>2. ASSUME q # <<>>
      PROVE  /\ Current(s, Head(q)) /\ Head(q).number = before + 1
             /\ Numbered(s, Tail(q), before + 1)
  <2>1. /\ Head(q) = q[1] /\ 1 \in DOMAIN q
        /\ \A i \in DOMAIN Tail(q) : i + 1 \in DOMAIN q /\ Tail(q)[i] = q[i + 1]
    BY <1>2, HeadTail
  <2>2. \A i \in DOMAIN Tail(q) : i \in Nat
    BY <1>2, HeadTail, SeqIs
  <2>3. ASSUME NEW i \in DOMAIN Tail(q)
        PROVE  Current(s, Tail(q)[i]) /\ Tail(q)[i].number = (before + 1) + i
    <3>1. Current(s, q[i + 1]) /\ q[i + 1].number = before + (i + 1)
      BY <2>1 DEF Numbered
    <3> QED
      BY <2>1, <2>2, <3>1
  <2> QED
    BY <2>1, <2>3 DEF Numbered
<1> QED
  BY <1>1, <1>2

(* Lemma: what the queues of a device are made of.                           *)
LEMMA QueueParts ==
    ASSUME TypeOK, QueuesInOrder, NEW s \in Device
    PROVE  /\ outgoingPackages[s] \in Seq(Package) /\ Len(outgoingPackages[s]) \in Nat
           /\ outgoingFrames[s] \in Seq(Frame) /\ Len(outgoingFrames[s]) \in Nat
           /\ framesWithCrc[s] \in Seq(Frame) /\ Len(framesWithCrc[s]) \in Nat
           /\ pushed[s] \in Nat /\ Sent(s) \in Nat
           /\ Queued(s) = Len(outgoingPackages[s]) + Len(outgoingFrames[s]) + Len(framesWithCrc[s])
           /\ Sent(s) = pushed[s] - Queued(s)
           /\ Queued(s) <= pushed[s] /\ Queued(s) \in Nat
           /\ Numbered(s, Carried(framesWithCrc[s]), Sent(s))
           /\ Numbered(s, Carried(outgoingFrames[s]), Sent(s) + Len(framesWithCrc[s]))
           /\ Numbered(s, outgoingPackages[s], pushed[s] - Len(outgoingPackages[s]))
<1>1. /\ outgoingPackages[s] \in Seq(Package) /\ outgoingFrames[s] \in Seq(Frame)
      /\ framesWithCrc[s] \in Seq(Frame)
  BY DEF TypeOK
<1>2. Queued(s) = Len(outgoingPackages[s]) + Len(outgoingFrames[s]) + Len(framesWithCrc[s])
  BY DEF Queued
<1>3. /\ Sent(s) = pushed[s] - Queued(s) /\ Queued(s) <= pushed[s]
      /\ Numbered(s, Carried(framesWithCrc[s]), Sent(s))
      /\ Numbered(s, Carried(outgoingFrames[s]), Sent(s) + Len(framesWithCrc[s]))
      /\ Numbered(s, outgoingPackages[s], pushed[s] - Len(outgoingPackages[s]))
  BY DEF QueuesInOrder, QueueInOrder, Sent
<1>4. Sent(s) \in Nat /\ pushed[s] \in Nat
  BY SentType
<1>5. Queued(s) \in Nat
  <2> DEFINE a == Len(outgoingPackages[s])
             b == Len(outgoingFrames[s])
             c == Len(framesWithCrc[s])
  <2>1. a \in Nat /\ b \in Nat /\ c \in Nat /\ Queued(s) = a + b + c
    BY <1>2, SentType
  <2> HIDE DEF a, b, c
  <2> QED
    BY <2>1
<1> QED
  BY <1>1, <1>2, <1>3, <1>4, <1>5, SeqIs

(* Lemma: queues in order, from their parts.                                 *)
LEMMA QueueFrom ==
    ASSUME NEW s \in Device, life'[s] = life[s], NEW sent \in Nat,
           NEW a \in Nat, NEW b \in Nat, NEW c \in Nat,
           Len(outgoingPackages'[s]) = a, Len(outgoingFrames'[s]) = b, Len(framesWithCrc'[s]) = c,
           pushed'[s] = sent + a + b + c,
           Numbered(s, Carried(framesWithCrc'[s]), sent),
           Numbered(s, Carried(outgoingFrames'[s]), sent + c),
           Numbered(s, outgoingPackages'[s], sent + c + b)
    PROVE  QueueInOrder(s)' /\ Sent(s)' = sent
<1>1. Queued(s)' = a + b + c
  BY DEF Queued
<1>2. Sent(s)' = pushed'[s] - Queued(s)'
  BY DEF Sent
<1>3. Sent(s)' = sent /\ Queued(s)' <= pushed'[s] /\ pushed'[s] - a = sent + c + b
  BY <1>1, <1>2
<1>4. /\ Numbered(s, Carried(framesWithCrc[s]), Sent(s))'
      /\ Numbered(s, Carried(outgoingFrames[s]), Sent(s) + Len(framesWithCrc[s]))'
      /\ Numbered(s, outgoingPackages[s], pushed[s] - Len(outgoingPackages[s]))'
  <2>1. \A p : Current(s, p)' <=> Current(s, p)
    BY DEF Current
  <2>2. /\ Carried(framesWithCrc[s])' = Carried(framesWithCrc'[s])
        /\ Carried(outgoingFrames[s])' = Carried(outgoingFrames'[s])
    BY DEF Carried
  <2> QED
    BY <1>3, <2>1, <2>2 DEF Numbered, Current
<1> QED
  BY <1>3, <1>4 DEF QueueInOrder

(* Lemma: a device whose queues a step does not touch.                       *)
LEMMA QueueSame ==
    ASSUME TypeOK, QueuesInOrder, NEW s \in Device, life'[s] = life[s], pushed'[s] = pushed[s],
           outgoingPackages'[s] = outgoingPackages[s], outgoingFrames'[s] = outgoingFrames[s],
           framesWithCrc'[s] = framesWithCrc[s]
    PROVE  QueueInOrder(s)' /\ Sent(s)' = Sent(s)
<1>1. Queued(s)' = Queued(s) /\ Sent(s)' = Sent(s)
  BY DEF Queued, Sent
<1>2. QueueInOrder(s)
  BY DEF QueuesInOrder
<1>3. /\ Carried(framesWithCrc[s])' = Carried(framesWithCrc[s])
      /\ Carried(outgoingFrames[s])' = Carried(outgoingFrames[s])
  BY DEF Carried
<1>4. /\ Numbered(s, Carried(framesWithCrc[s]), Sent(s))'
      /\ Numbered(s, Carried(outgoingFrames[s]), Sent(s) + Len(framesWithCrc[s]))'
      /\ Numbered(s, outgoingPackages[s], pushed[s] - Len(outgoingPackages[s]))'
  BY <1>1, <1>2, <1>3 DEF QueueInOrder, Numbered, Current
<1> QED
  BY <1>1, <1>2, <1>4 DEF QueueInOrder

(* Lemma: what is pushed is numbered on.                                     *)
LEMMA QueuePush ==
    ASSUME TypeOK, QueuesInOrder, NEW d \in Device, NEW size \in PayloadSizes, Push(d, size)
    PROVE  QueueInOrder(d)' /\ Sent(d)' = Sent(d)
<1> DEFINE p == [from |-> d, life |-> life[d], number |-> pushed[d] + 1, payload |-> size]
           q == outgoingPackages[d]
           a == Len(q)
           b == Len(outgoingFrames[d])
           c == Len(framesWithCrc[d])
           sent == Sent(d)
<1>1. /\ q \in Seq(Package) /\ a \in Nat /\ b \in Nat /\ c \in Nat /\ sent \in Nat
      /\ pushed[d] = sent + a + b + c
      /\ Numbered(d, q, sent + c + b)
      /\ Numbered(d, Carried(framesWithCrc[d]), sent)
      /\ Numbered(d, Carried(outgoingFrames[d]), sent + c)
  <2>1. q \in Seq(Package) /\ sent + c + b + a = pushed[d]
    BY QueueParts, SentType
  <2>2. a \in Nat /\ b \in Nat /\ c \in Nat /\ sent \in Nat
    BY QueueParts
  <2>3. /\ Numbered(d, q, pushed[d] - a) /\ Numbered(d, Carried(framesWithCrc[d]), sent)
        /\ Numbered(d, Carried(outgoingFrames[d]), sent + c)
    BY QueueParts
  <2> HIDE DEF a, b, c, sent, q
  <2>4. pushed[d] - a = sent + c + b /\ pushed[d] = sent + a + b + c
    BY <2>1, <2>2
  <2> QED
    BY <2>1, <2>2, <2>3, <2>4
<1>2. p \in Package /\ Current(d, p) /\ p.number = pushed[d] + 1
  BY DEF TypeOK, Package, Current
<1>3. outgoingPackages'[d] = Append(q, p)
  BY DEF Push, TypeOK
<1> HIDE DEF p, q, a, b, c, sent
<1>4. /\ Numbered(d, Append(q, p), sent + c + b) /\ Len(Append(q, p)) = a + 1
  <2>1. Len(q) = a /\ p.number = (sent + c + b) + Len(q) + 1
    BY <1>1, <1>2 DEF a
  <2>2. sent + c + b \in Int
    BY <1>1
  <2> QED
    BY <1>1, <1>2, <2>1, <2>2, NumberedQueue, Appended
<1>5. pushed'[d] = sent + (a + 1) + b + c
  <2>1. pushed'[d] = pushed[d] + 1
    BY DEF Push, TypeOK
  <2> QED
    BY <1>1, <2>1
<1>6. /\ outgoingFrames'[d] = outgoingFrames[d] /\ framesWithCrc'[d] = framesWithCrc[d]
      /\ life'[d] = life[d]
  BY DEF Push
<1>7. Len(outgoingFrames'[d]) = b /\ Len(framesWithCrc'[d]) = c /\ Len(outgoingPackages'[d]) = a + 1
  BY <1>3, <1>4, <1>6 DEF b, c
<1>8. /\ Numbered(d, Carried(framesWithCrc'[d]), sent)
      /\ Numbered(d, Carried(outgoingFrames'[d]), sent + c)
      /\ Numbered(d, outgoingPackages'[d], sent + c + b)
  BY <1>1, <1>3, <1>4, <1>6
<1>9. a + 1 \in Nat
  BY <1>1
<1>10. QueueInOrder(d)' /\ Sent(d)' = sent
  BY <1>1, <1>5, <1>6, <1>7, <1>8, <1>9, QueueFrom
<1> QED
  BY <1>10 DEF sent

(* Lemma: the transport layer keeps the order.                               *)
LEMMA QueueSerialize ==
    ASSUME TypeOK, QueuesInOrder, NEW d \in Device, Serialize(d)
    PROVE  QueueInOrder(d)' /\ Sent(d)' = Sent(d)
<1> DEFINE q == outgoingPackages[d]
           fs == outgoingFrames[d]
           f == Serialized(Head(q))
           a == Len(q)
           b == Len(fs)
           c == Len(framesWithCrc[d])
           sent == Sent(d)
<1>1. /\ q \in Seq(Package) /\ q # <<>> /\ a \in Nat /\ b \in Nat /\ c \in Nat /\ sent \in Nat
      /\ pushed[d] = sent + a + b + c /\ fs \in Seq(Frame)
      /\ Numbered(d, q, sent + c + b)
      /\ Numbered(d, Carried(framesWithCrc[d]), sent)
      /\ Numbered(d, Carried(fs), sent + c)
  <2>1. q \in Seq(Package) /\ sent + c + b + a = pushed[d] /\ fs \in Seq(Frame)
    BY QueueParts, SentType
  <2>2. a \in Nat /\ b \in Nat /\ c \in Nat /\ sent \in Nat
    BY QueueParts
  <2>3. /\ Numbered(d, q, pushed[d] - a) /\ Numbered(d, Carried(framesWithCrc[d]), sent)
        /\ Numbered(d, Carried(fs), sent + c)
    BY QueueParts
  <2>4. q # <<>>
    BY DEF Serialize
  <2> HIDE DEF a, b, c, sent, q, fs
  <2>5. pushed[d] - a = sent + c + b /\ pushed[d] = sent + a + b + c
    BY <2>1, <2>2
  <2> QED
    BY <2>1, <2>2, <2>3, <2>4, <2>5
<1>2. outgoingPackages'[d] = Tail(q) /\ outgoingFrames'[d] = Append(fs, f)
  BY DEF Serialize, TypeOK
<1>3. Head(q) \in Package
  BY <1>1, HeadTail
<1>4. f \in Frame /\ f.package = Head(q)
  BY <1>3, Made
<1> HIDE DEF f, q, fs, a, b, c, sent
<1>5. /\ Current(d, Head(q)) /\ Head(q).number = sent + c + b + 1
      /\ Numbered(d, Tail(q), sent + c + b + 1) /\ Len(Tail(q)) = a - 1 /\ a - 1 \in Nat
  <2>1. sent + c + b \in Int
    BY <1>1
  <2>2. Len(Tail(q)) = Len(q) - 1 /\ Len(Tail(q)) \in Nat
    BY <1>1, HeadTail, SeqIs
  <2> QED
    BY <1>1, <2>1, <2>2, NumberedQueue DEF a
<1>6. Numbered(d, Carried(Append(fs, f)), sent + c) /\ Len(Append(fs, f)) = b + 1
  <2>1. Carried(Append(fs, f)) = Append(Carried(fs), Head(q))
    BY <1>1, <1>4, CarriedQueue
  <2>2. Carried(fs) \in Seq(Package) /\ Len(Carried(fs)) = b
    BY <1>1, CarriedQueue DEF b
  <2>3. sent + c \in Int /\ Head(q).number = (sent + c) + b + 1
    BY <1>1, <1>5
  <2>4. Numbered(d, Append(Carried(fs), Head(q)), sent + c)
    BY <1>1, <1>3, <1>5, <2>2, <2>3, NumberedQueue
  <2> QED
    BY <1>1, <1>4, <2>1, <2>4, Appended DEF b
<1>7. /\ pushed'[d] = sent + (a - 1) + (b + 1) + c /\ b + 1 \in Nat
      /\ sent + c + (b + 1) = sent + c + b + 1
  <2>1. pushed'[d] = sent + a + b + c
    BY <1>1 DEF Serialize, history
  <2>2. a \in Nat /\ b \in Nat /\ c \in Nat /\ sent \in Nat
    BY <1>1
  <2> QED
    BY ONLY <2>1, <2>2
<1>8. life'[d] = life[d] /\ framesWithCrc'[d] = framesWithCrc[d]
  BY DEF Serialize, history
<1>9. /\ Len(framesWithCrc'[d]) = c /\ Len(outgoingFrames'[d]) = b + 1
      /\ Len(outgoingPackages'[d]) = a - 1
  BY <1>2, <1>5, <1>6, <1>8 DEF c
<1>10. /\ Numbered(d, Carried(framesWithCrc'[d]), sent)
       /\ Numbered(d, Carried(outgoingFrames'[d]), sent + c)
       /\ Numbered(d, outgoingPackages'[d], sent + c + (b + 1))
  BY <1>1, <1>2, <1>5, <1>6, <1>7, <1>8
<1>11. QueueInOrder(d)' /\ Sent(d)' = sent
  BY <1>1, <1>5, <1>7, <1>8, <1>9, <1>10, QueueFrom
<1> QED
  BY <1>11 DEF sent

(* Lemma: no frame of the transport layer is refused by the coding module.   *)
LEMMA Encodable ==
    ASSUME PipelineInv, NEW d \in Device, Encode(d)
    PROVE  /\ Head(outgoingFrames[d]) \in Frame /\ WithCrc(Head(outgoingFrames[d])) \in Frame
           /\ WithCrc(Head(outgoingFrames[d])).package = Head(outgoingFrames[d]).package
           /\ framesWithCrc'[d] = Append(framesWithCrc[d], WithCrc(Head(outgoingFrames[d])))
<1> USE DEF PipelineInv
<1> DEFINE frame == Head(outgoingFrames[d])
<1>1. frame \in Plain /\ frame \in Frame
  <2>1. frame \in Plain
    BY QueueType DEF Encode, Sizes
  <2> QED
    BY <2>1 DEF Plain
<1>2. /\ EnsureEncodable(frame) /\ WithCrc(frame).bytes <= MaxFrameBytesWithCrc
      /\ WithCrc(frame) \in Frame /\ WithCrc(frame).package = frame.package
  BY <1>1, Made, Fields DEF Plain
<1>3. framesWithCrc' = [framesWithCrc EXCEPT ![d] = Append(@, WithCrc(frame))]
  BY <1>2 DEF Encode
<1> QED
  BY <1>1, <1>2, <1>3 DEF TypeOK

(* Lemma: the coding module keeps the order.                                 *)
LEMMA QueueEncode ==
    ASSUME PipelineInv, NEW d \in Device, Encode(d)
    PROVE  QueueInOrder(d)' /\ Sent(d)' = Sent(d)
<1> DEFINE fs == outgoingFrames[d]
           cs == framesWithCrc[d]
           f == WithCrc(Head(fs))
           a == Len(outgoingPackages[d])
           b == Len(fs)
           c == Len(cs)
           sent == Sent(d)
<1>0. TypeOK /\ QueuesInOrder
  BY DEF PipelineInv
<1>1. /\ fs \in Seq(Frame) /\ fs # <<>> /\ a \in Nat /\ b \in Nat /\ c \in Nat /\ sent \in Nat
      /\ pushed[d] = sent + a + b + c /\ cs \in Seq(Frame)
      /\ Numbered(d, outgoingPackages[d], sent + c + b)
      /\ Numbered(d, Carried(cs), sent)
      /\ Numbered(d, Carried(fs), sent + c)
  <2>1. cs \in Seq(Frame) /\ sent + c + b + a = pushed[d] /\ fs \in Seq(Frame)
    BY <1>0, QueueParts, SentType
  <2>2. a \in Nat /\ b \in Nat /\ c \in Nat /\ sent \in Nat
    BY <1>0, QueueParts
  <2>3. /\ Numbered(d, outgoingPackages[d], pushed[d] - a) /\ Numbered(d, Carried(cs), sent)
        /\ Numbered(d, Carried(fs), sent + c)
    BY <1>0, QueueParts
  <2>4. fs # <<>>
    BY DEF Encode
  <2> HIDE DEF a, b, c, sent, cs, fs
  <2>5. pushed[d] - a = sent + c + b /\ pushed[d] = sent + a + b + c
    BY <2>1, <2>2
  <2> QED
    BY <2>1, <2>2, <2>3, <2>4, <2>5
<1>2. outgoingFrames'[d] = Tail(fs) /\ framesWithCrc'[d] = Append(cs, f)
  BY <1>0, Encodable DEF Encode, TypeOK
<1>3. Head(fs) \in Frame /\ f \in Frame /\ f.package = Head(fs).package
  BY Encodable
<1> HIDE DEF f, fs, cs, a, b, c, sent
<1>4. /\ Current(d, f.package) /\ f.package.number = sent + c + 1
      /\ Numbered(d, Carried(Tail(fs)), sent + c + 1) /\ Len(Tail(fs)) = b - 1 /\ b - 1 \in Nat
  <2>1. sent + c \in Int
    BY <1>1
  <2>2. Len(Tail(fs)) = Len(fs) - 1 /\ Len(Tail(fs)) \in Nat
    BY <1>1, HeadTail, SeqIs
  <2>3. /\ Carried(fs) \in Seq(Package) /\ Carried(fs) # <<>>
        /\ Head(Carried(fs)) = f.package /\ Carried(Tail(fs)) = Tail(Carried(fs))
    BY <1>1, <1>3, CarriedQueue
  <2>4. /\ Current(d, Head(Carried(fs))) /\ Head(Carried(fs)).number = (sent + c) + 1
        /\ Numbered(d, Tail(Carried(fs)), (sent + c) + 1)
    BY <1>1, <2>1, <2>3, NumberedQueue
  <2> QED
    BY <1>1, <2>2, <2>3, <2>4 DEF b
<1>5. Numbered(d, Carried(Append(cs, f)), sent) /\ Len(Append(cs, f)) = c + 1
  <2>1. Carried(Append(cs, f)) = Append(Carried(cs), f.package)
    BY <1>1, <1>3, CarriedQueue
  <2>2. Carried(cs) \in Seq(Package) /\ Len(Carried(cs)) = c
    BY <1>1, CarriedQueue DEF c
  <2>3. sent \in Int /\ f.package \in Package
    BY <1>1, <1>3, Fields
  <2>4. Numbered(d, Append(Carried(cs), f.package), sent)
    BY <1>1, <1>4, <2>2, <2>3, NumberedQueue
  <2> QED
    BY <1>1, <1>3, <2>1, <2>4, Appended DEF c
<1>6. life'[d] = life[d] /\ outgoingPackages'[d] = outgoingPackages[d] /\ pushed'[d] = pushed[d]
  BY DEF Encode, history
<1>7. /\ pushed'[d] = sent + a + (b - 1) + (c + 1) /\ c + 1 \in Nat
      /\ sent + (c + 1) = sent + c + 1 /\ sent + (c + 1) + (b - 1) = sent + c + b
  <2>1. pushed'[d] = sent + a + b + c
    BY <1>1, <1>6
  <2>2. sent \in Nat /\ a \in Nat /\ b \in Nat /\ c \in Nat
    BY <1>1
  <2>3. sent + a + (b - 1) + (c + 1) = sent + a + b + c
    BY <2>2
  <2> QED
    BY <2>1, <2>2, <2>3
<1>8. /\ Len(framesWithCrc'[d]) = c + 1 /\ Len(outgoingFrames'[d]) = b - 1
      /\ Len(outgoingPackages'[d]) = a
  BY <1>2, <1>4, <1>5, <1>6 DEF a
<1>9. /\ Numbered(d, Carried(framesWithCrc'[d]), sent)
      /\ Numbered(d, Carried(outgoingFrames'[d]), sent + (c + 1))
      /\ Numbered(d, outgoingPackages'[d], sent + (c + 1) + (b - 1))
  BY <1>1, <1>2, <1>4, <1>5, <1>6, <1>7
<1>10. QueueInOrder(d)' /\ Sent(d)' = sent
  BY <1>1, <1>4, <1>6, <1>7, <1>8, <1>9, QueueFrom
<1> QED
  BY <1>10 DEF sent

(* Lemma: the frame that is put on the medium is the next one of its sender. *)
LEMMA QueuePut ==
    ASSUME TypeOK, QueuesInOrder, NEW d \in Device, PutOnMedium(d)
    PROVE  /\ QueueInOrder(d)' /\ Sent(d)' = Sent(d) + 1
           /\ Head(framesWithCrc[d]) \in Frame
           /\ Current(d, Head(framesWithCrc[d]).package)
           /\ Head(framesWithCrc[d]).package.number = Sent(d) + 1
<1> DEFINE cs == framesWithCrc[d]
           p == Head(cs).package
           a == Len(outgoingPackages[d])
           b == Len(outgoingFrames[d])
           c == Len(cs)
           sent == Sent(d)
<1>1. /\ cs \in Seq(Frame) /\ cs # <<>> /\ a \in Nat /\ b \in Nat /\ c \in Nat /\ sent \in Nat
      /\ pushed[d] = sent + a + b + c
      /\ Numbered(d, outgoingPackages[d], sent + c + b)
      /\ Numbered(d, Carried(cs), sent)
      /\ Numbered(d, Carried(outgoingFrames[d]), sent + c)
  <2>1. cs \in Seq(Frame) /\ sent + c + b + a = pushed[d]
    BY QueueParts, SentType
  <2>2. a \in Nat /\ b \in Nat /\ c \in Nat /\ sent \in Nat
    BY QueueParts
  <2>3. /\ Numbered(d, outgoingPackages[d], pushed[d] - a) /\ Numbered(d, Carried(cs), sent)
        /\ Numbered(d, Carried(outgoingFrames[d]), sent + c)
    BY QueueParts
  <2>4. cs # <<>>
    BY DEF PutOnMedium
  <2> HIDE DEF a, b, c, sent, cs
  <2>5. pushed[d] - a = sent + c + b /\ pushed[d] = sent + a + b + c
    BY <2>1, <2>2
  <2> QED
    BY <2>1, <2>2, <2>3, <2>4, <2>5
<1>2. framesWithCrc'[d] = Tail(cs)
  BY DEF PutOnMedium, TypeOK
<1>3. Head(cs) \in Frame
  BY <1>1, HeadTail
<1> HIDE DEF p, cs, a, b, c, sent
<1>4. /\ Current(d, p) /\ p.number = sent + 1
      /\ Numbered(d, Carried(Tail(cs)), sent + 1) /\ Len(Tail(cs)) = c - 1 /\ c - 1 \in Nat
  <2>1. sent \in Int
    BY <1>1
  <2>2. Len(Tail(cs)) = Len(cs) - 1 /\ Len(Tail(cs)) \in Nat
    BY <1>1, HeadTail, SeqIs
  <2>3. /\ Carried(cs) \in Seq(Package) /\ Carried(cs) # <<>>
        /\ Head(Carried(cs)) = p /\ Carried(Tail(cs)) = Tail(Carried(cs))
    BY <1>1, CarriedQueue DEF p
  <2>4. /\ Current(d, Head(Carried(cs))) /\ Head(Carried(cs)).number = sent + 1
        /\ Numbered(d, Tail(Carried(cs)), sent + 1)
    BY <1>1, <2>1, <2>3, NumberedQueue
  <2> QED
    BY <1>1, <2>2, <2>3, <2>4 DEF c
<1>6. /\ life'[d] = life[d] /\ outgoingPackages'[d] = outgoingPackages[d]
      /\ pushed'[d] = pushed[d] /\ outgoingFrames'[d] = outgoingFrames[d]
  BY DEF PutOnMedium, history
<1>7. /\ pushed'[d] = (sent + 1) + a + b + (c - 1) /\ sent + 1 \in Nat
      /\ (sent + 1) + (c - 1) = sent + c /\ (sent + 1) + (c - 1) + b = sent + c + b
  <2>1. pushed'[d] = sent + a + b + c
    BY <1>1, <1>6
  <2>2. a \in Nat /\ b \in Nat /\ c \in Nat /\ sent \in Nat
    BY <1>1
  <2> QED
    BY ONLY <2>1, <2>2
<1>8. /\ Len(framesWithCrc'[d]) = c - 1 /\ Len(outgoingFrames'[d]) = b
      /\ Len(outgoingPackages'[d]) = a
  BY <1>2, <1>4, <1>6 DEF a, b
<1>9. /\ Numbered(d, Carried(framesWithCrc'[d]), sent + 1)
      /\ Numbered(d, Carried(outgoingFrames'[d]), (sent + 1) + (c - 1))
      /\ Numbered(d, outgoingPackages'[d], (sent + 1) + (c - 1) + b)
  <2>1. /\ Numbered(d, Carried(outgoingFrames'[d]), sent + c)
        /\ Numbered(d, outgoingPackages'[d], sent + c + b)
    BY <1>1, <1>6
  <2>2. Numbered(d, Carried(framesWithCrc'[d]), sent + 1)
    BY <1>2, <1>4
  <2> QED
    BY ONLY <1>7, <2>1, <2>2
<1>10. QueueInOrder(d)' /\ Sent(d)' = sent + 1
  <2>1. sent + 1 \in Nat /\ a \in Nat /\ b \in Nat /\ c - 1 \in Nat
    BY <1>1, <1>4, <1>7
  <2>2. pushed'[d] = (sent + 1) + a + b + (c - 1) /\ life'[d] = life[d]
    BY <1>6, <1>7
  <2> QED
    BY ONLY <1>8, <1>9, <2>1, <2>2, QueueFrom
<1> QED
  BY <1>3, <1>4, <1>10 DEF sent, p, cs

(* Lemma: steps that put nothing on the medium.                              *)
LEMMA SentSame ==
    ASSUME PipelineInv, NEW d \in Device,
           \/ Join(d) \/ (\E size \in PayloadSizes : Push(d, size)) \/ Serialize(d) \/ Encode(d)
           \/ BeginPass(d) \/ TakeFromMedium(d) \/ Deliver(d) \/ DeliverFails(d)
    PROVE  \A s \in Device : QueueInOrder(s)' /\ Sent(s)' = Sent(s)
<1>0. TypeOK /\ QueuesInOrder /\ Workers
  BY DEF PipelineInv
<1> TAKE s \in Device
<1>1. CASE Join(d)
  <2>1. /\ outgoingPackages'[s] = outgoingPackages[s] /\ outgoingFrames'[s] = outgoingFrames[s]
        /\ framesWithCrc'[s] = framesWithCrc[s]
    BY <1>1 DEF Join, queues
  <2>2. pushed'[s] = pushed[s]
    BY <1>0, <1>1 DEF Join, TypeOK, Workers
  <2>3. CASE s # d
    <3>1. life'[s] = life[s]
      BY <1>0, <1>1, <2>3 DEF Join, TypeOK
    <3> QED
      BY <1>0, <2>1, <2>2, <3>1, QueueSame
  <2>4. CASE s = d
    <3>1. /\ outgoingPackages[s] = <<>> /\ outgoingFrames[s] = <<>> /\ framesWithCrc[s] = <<>>
          /\ pushed[s] = 0
      BY <1>0, <1>1, <2>4 DEF Join, Workers
    <3>2. Queued(s) = 0 /\ Queued(s)' = 0 /\ Sent(s) = 0 /\ Sent(s)' = 0
      <4>1. Len(<<>>) = 0 /\ 0 + 0 + 0 = 0 /\ 0 - 0 = 0
        OBVIOUS
      <4>2. Queued(s) = 0
        BY <3>1, <4>1, Zenon DEF Queued
      <4>3. Queued(s)' = 0
        BY <2>1, <3>1, <4>1, Zenon DEF Queued
      <4> QED
        BY <2>2, <3>1, <4>1, <4>2, <4>3 DEF Sent
    <3>3. /\ Carried(framesWithCrc[s])' = <<>> /\ Carried(outgoingFrames[s])' = <<>>
          /\ outgoingPackages'[s] = <<>>
      BY <2>1, <3>1 DEF Carried
    <3> QED
      BY <2>2, <3>1, <3>2, <3>3 DEF QueueInOrder, Numbered
  <2> QED
    BY <2>3, <2>4
<1>2. ASSUME NEW size \in PayloadSizes, Push(d, size)
      PROVE  QueueInOrder(s)' /\ Sent(s)' = Sent(s)
  <2>1. CASE s # d
    <3>1. /\ outgoingPackages'[s] = outgoingPackages[s] /\ outgoingFrames'[s] = outgoingFrames[s]
          /\ framesWithCrc'[s] = framesWithCrc[s] /\ pushed'[s] = pushed[s] /\ life'[s] = life[s]
      BY <1>0, <1>2, <2>1 DEF Push, TypeOK
    <3> QED
      BY <1>0, <3>1, QueueSame
  <2> QED
    BY <1>0, <1>2, <2>1, QueuePush
<1>3. CASE Serialize(d)
  <2>1. CASE s # d
    <3>1. /\ outgoingPackages'[s] = outgoingPackages[s] /\ outgoingFrames'[s] = outgoingFrames[s]
          /\ framesWithCrc'[s] = framesWithCrc[s] /\ pushed'[s] = pushed[s] /\ life'[s] = life[s]
      BY <1>0, <1>3, <2>1 DEF Serialize, TypeOK, history
    <3> QED
      BY <1>0, <3>1, QueueSame
  <2> QED
    BY <1>0, <1>3, <2>1, QueueSerialize
<1>4. CASE Encode(d)
  <2>1. CASE s # d
    <3>1. /\ outgoingPackages'[s] = outgoingPackages[s] /\ outgoingFrames'[s] = outgoingFrames[s]
          /\ framesWithCrc'[s] = framesWithCrc[s] /\ pushed'[s] = pushed[s] /\ life'[s] = life[s]
      BY <1>0, <1>4, <2>1 DEF Encode, TypeOK, history
    <3> QED
      BY <1>0, <3>1, QueueSame
  <2> QED
    BY <1>4, <2>1, QueueEncode
<1>5. CASE BeginPass(d) \/ TakeFromMedium(d) \/ Deliver(d) \/ DeliverFails(d)
  <2>1. /\ outgoingPackages'[s] = outgoingPackages[s] /\ outgoingFrames'[s] = outgoingFrames[s]
        /\ framesWithCrc'[s] = framesWithCrc[s] /\ pushed'[s] = pushed[s] /\ life'[s] = life[s]
    BY <1>5 DEF BeginPass, TakeFromMedium, Deliver, DeliverFails, queues, history
  <2> QED
    BY <1>0, <2>1, QueueSame
<1> QED
  BY <1>1, <1>2, <1>3, <1>4, <1>5

(* Lemma: a frame that is put on the medium is sent.                         *)
LEMMA SentPut ==
    ASSUME PipelineInv, NEW d \in Device, PutOnMedium(d)
    PROVE  \A s \in Device :
               QueueInOrder(s)' /\ Sent(s)' = IF s = d THEN Sent(d) + 1 ELSE Sent(s)
<1>0. TypeOK /\ QueuesInOrder
  BY DEF PipelineInv
<1> TAKE s \in Device
<1>1. CASE s # d
  <2>1. /\ outgoingPackages'[s] = outgoingPackages[s] /\ outgoingFrames'[s] = outgoingFrames[s]
        /\ framesWithCrc'[s] = framesWithCrc[s] /\ pushed'[s] = pushed[s] /\ life'[s] = life[s]
    BY <1>0, <1>1 DEF PutOnMedium, TypeOK, history
  <2> QED
    BY <1>0, <1>1, <2>1, QueueSame
<1> QED
  BY <1>0, <1>1, QueuePut

(* Lemma: who leaves has sent nothing.                                       *)
LEMMA SentLeave ==
    ASSUME PipelineInv, NEW d \in Device, Leave(d)
    PROVE  \A s \in Device :
               QueueInOrder(s)' /\ Sent(s)' = IF s = d THEN 0 ELSE Sent(s)
<1>0. TypeOK /\ QueuesInOrder
  BY DEF PipelineInv
<1> TAKE s \in Device
<1>1. CASE s # d
  <2>1. /\ outgoingPackages'[s] = outgoingPackages[s] /\ outgoingFrames'[s] = outgoingFrames[s]
        /\ framesWithCrc'[s] = framesWithCrc[s] /\ pushed'[s] = pushed[s] /\ life'[s] = life[s]
    BY <1>0, <1>1 DEF Leave, TypeOK
  <2> QED
    BY <1>0, <1>1, <2>1, QueueSame
<1>2. CASE s = d
  <2>1. /\ outgoingPackages'[s] = <<>> /\ outgoingFrames'[s] = <<>> /\ framesWithCrc'[s] = <<>>
        /\ pushed'[s] = 0
    BY <1>0, <1>2 DEF Leave, TypeOK
  <2>2. Queued(s)' = 0 /\ Sent(s)' = 0
    <3>1. Len(<<>>) = 0 /\ 0 + 0 + 0 = 0 /\ 0 - 0 = 0
      OBVIOUS
    <3>2. Queued(s)' = 0
      BY <2>1, <3>1, Zenon DEF Queued
    <3> QED
      BY <2>1, <3>1, <3>2 DEF Sent
  <2>3. Carried(framesWithCrc[s])' = <<>> /\ Carried(outgoingFrames[s])' = <<>>
    BY <2>1 DEF Carried
  <2> QED
    BY <1>2, <2>1, <2>2, <2>3 DEF QueueInOrder, Numbered
<1> QED
  BY <1>1, <1>2

(* Lemma: a step keeps the queues in order.                                  *)
LEMMA QueuesStep == PipelineInv /\ [Next]_vars => QueuesInOrder'
<1> SUFFICES ASSUME PipelineInv, [Next]_vars PROVE QueuesInOrder'
  OBVIOUS
<1>1. CASE UNCHANGED vars
  <2>1. TypeOK /\ QueuesInOrder
    BY DEF PipelineInv
  <2>2. \A s \in Device :
            /\ outgoingPackages'[s] = outgoingPackages[s] /\ outgoingFrames'[s] = outgoingFrames[s]
            /\ framesWithCrc'[s] = framesWithCrc[s] /\ pushed'[s] = pushed[s] /\ life'[s] = life[s]
    BY <1>1 DEF vars, queues, history
  <2> QED
    BY <2>1, <2>2, QueueSame DEF QueuesInOrder
<1>2. CASE Next
  BY <1>2, SentSame, SentPut, SentLeave DEF Next, PhysicalLayer, QueuesInOrder
<1> QED
  BY <1>1, <1>2

-----------------------------------------------------------------------------
(* The medium *)

(* Lemma: who is the last to take an entry knows that all others have it.    *)
LEMMA LastToTake ==
    ASSUME TypeOK, MediumInOrder, NEW d \in Device, Present(d), NEW k \in DOMAIN entries
    PROVE  /\ TakenByAll(d, entries[k]) =>
                  \A e \in participants : e # entries[k].senderId => e \in entries[k].deliveredTo \cup {d}
           /\ \A j \in DOMAIN entries :
                  k < j /\ entries[j].senderId = entries[k].senderId /\ TakenByAll(d, entries[j]) =>
                      TakenByAll(d, entries[k])
<1> DEFINE Takers(i) == entries[i].deliveredTo \cup {d}
<1>1. IsFiniteSet(participants) /\ Cardinality(participants) \in Nat
  BY PipelineAssumption, FS_Subset, FS_CardinalityType DEF TypeOK
<1>2. \A i \in DOMAIN entries : Takers(i) \subseteq participants
  BY DEF TypeOK, Present
<1>3. \A i \in DOMAIN entries : IsFiniteSet(Takers(i)) /\ Cardinality(Takers(i)) \in Nat
  BY <1>1, <1>2, FS_Subset, FS_CardinalityType
<1>4. ASSUME TakenByAll(d, entries[k]), NEW e \in participants, e # entries[k].senderId
      PROVE  e \in Takers(k)
  <2> DEFINE s == entries[k].senderId
             All == participants \ {s}
  <2>1. s \in participants /\ s \notin Takers(k)
    BY <1>4 DEF MediumInOrder, TakenByAll, Present
  <2>2. IsFiniteSet(All) /\ Cardinality(All) = Cardinality(participants) - 1
    BY <1>1, <2>1, FS_RemoveElement
  <2>3. Takers(k) \in SUBSET All
    BY <1>2, <2>1
  <2>4. Cardinality(Takers(k)) >= Cardinality(participants) - 1
    BY <1>4 DEF TakenByAll
  <2>5. Cardinality(Takers(k)) <= Cardinality(All)
    BY <2>2, <2>3, FS_Subset
  <2> HIDE DEF Takers, All
  <2>6. Cardinality(Takers(k)) = Cardinality(All)
    BY <1>1, <1>3, <2>2, <2>4, <2>5
  <2>7. Takers(k) = All
    BY <2>2, <2>3, <2>6, FS_Subset
  <2> QED
    BY <1>4, <2>7 DEF All
<1>5. ASSUME NEW j \in DOMAIN entries, k < j, entries[j].senderId = entries[k].senderId,
             TakenByAll(d, entries[j])
      PROVE  TakenByAll(d, entries[k])
  <2>1. Takers(j) \in SUBSET Takers(k)
    BY <1>5 DEF MediumInOrder
  <2>2. Cardinality(Takers(j)) <= Cardinality(Takers(k))
    BY <1>3, <2>1, FS_Subset
  <2>3. entries[j].senderId # d /\ Cardinality(Takers(j)) >= Cardinality(participants) - 1
    BY <1>5 DEF TakenByAll
  <2>4. Cardinality(Takers(k)) >= Cardinality(participants) - 1
    <3> HIDE DEF Takers
    <3> QED
      BY <1>1, <1>3, <2>2, <2>3
  <2> QED
    BY <1>5, <2>3, <2>4 DEF TakenByAll
<1> QED
  BY <1>4, <1>5

(* Lemma: when entries go and the marks change, the order remains.           *)
LEMMA MediumMapped ==
    ASSUME TypeOK, MediumInOrder,
           NEW g \in [DOMAIN entries' -> DOMAIN entries],
           \A m, n \in DOMAIN entries' : m < n => g[m] < g[n],
           \A n \in DOMAIN entries' :
               /\ entries'[n].senderId = entries[g[n]].senderId
               /\ entries'[n].frame = entries[g[n]].frame
               /\ entries'[n].senderId \notin entries'[n].deliveredTo,
           \A n \in DOMAIN entries', s \in Device : s = entries'[n].senderId =>
               s \in participants' /\ life'[s] = life[s] /\ Sent(s)' = Sent(s),
           \A m, n \in DOMAIN entries' :
               entries[g[n]].deliveredTo \subseteq entries[g[m]].deliveredTo
               /\ entries[g[n]].senderId = entries[g[m]].senderId =>
                   entries'[n].deliveredTo \subseteq entries'[m].deliveredTo
    PROVE  MediumInOrder'
<1>1. \A n \in DOMAIN entries' : NumberOf(n)' = NumberOf(g[n])
  BY DEF NumberOf
<1>2. ASSUME NEW n \in DOMAIN entries'
      PROVE  /\ Present(entries[n].senderId)'
             /\ entries'[n].senderId \notin entries'[n].deliveredTo
             /\ Current(entries[n].senderId, entries[n].frame.package)'
             /\ NumberOf(n)' \in 1..(Sent(entries[n].senderId)')
  <2>1. g[n] \in DOMAIN entries
    OBVIOUS
  <2>2. /\ Current(entries[g[n]].senderId, entries[g[n]].frame.package)
        /\ NumberOf(g[n]) \in 1..Sent(entries[g[n]].senderId)
    BY <2>1 DEF MediumInOrder
  <2>3. PICK s \in Device : s = entries'[n].senderId /\ s = entries[g[n]].senderId
    BY <2>1, NumberType
  <2>4. s \in participants' /\ life'[s] = life[s] /\ Sent(s)' = Sent(s)
    BY <2>3
  <2>5. Sent(entries[n].senderId)' = Sent(s)'
    BY <2>3 DEF Sent, Queued
  <2>6. NumberOf(n)' \in 1..(Sent(entries[n].senderId)')
    BY <1>1, <2>2, <2>3, <2>4, <2>5
  <2>7. Current(entries[n].senderId, entries[n].frame.package)'
    BY <2>2, <2>3, <2>4 DEF Current
  <2> QED
    BY <2>3, <2>4, <2>6, <2>7 DEF Present
<1>3. ASSUME NEW m \in DOMAIN entries', NEW n \in DOMAIN entries',
             m < n, entries'[m].senderId = entries'[n].senderId
      PROVE  NumberOf(m)' < NumberOf(n)' /\ entries'[n].deliveredTo \subseteq entries'[m].deliveredTo
  <2>1. g[m] \in DOMAIN entries /\ g[n] \in DOMAIN entries /\ g[m] < g[n]
        /\ entries[g[m]].senderId = entries[g[n]].senderId
    BY <1>3
  <2>2. /\ NumberOf(g[m]) < NumberOf(g[n])
        /\ entries[g[n]].deliveredTo \subseteq entries[g[m]].deliveredTo
    BY <2>1 DEF MediumInOrder
  <2> QED
    BY <1>1, <2>1, <2>2
<1> QED
  BY <1>2, <1>3 DEF MediumInOrder

(* Lemma: when the oldest entries go, there is no gap.                       *)
LEMMA NoGapMapped ==
    ASSUME TypeOK, MediumInOrder, NoGap,
           NEW g \in [DOMAIN entries' -> DOMAIN entries],
           \A n \in DOMAIN entries' :
               /\ entries'[n].senderId = entries[g[n]].senderId
               /\ entries'[n].frame = entries[g[n]].frame,
           \A n \in DOMAIN entries', s \in Device : s = entries'[n].senderId =>
               /\ Sent(s)' = Sent(s)
               /\ physicalWorker'[s] # "stopped" => physicalWorker[s] # "stopped",
           \A n \in DOMAIN entries', j \in DOMAIN entries :
               g[n] < j /\ entries[j].senderId = entries[g[n]].senderId =>
                   \E m \in DOMAIN entries' : g[m] = j
    PROVE  NoGap'
<1>1. \A n \in DOMAIN entries' : NumberOf(n)' = NumberOf(g[n])
  BY DEF NumberOf
<1>2. ASSUME NEW k \in DOMAIN entries', physicalWorker'[entries'[k].senderId] # "stopped",
             NEW x \in (NumberOf(k)')..(Sent(entries[k].senderId)')
      PROVE  \E m \in DOMAIN entries' :
                 entries'[m].senderId = entries'[k].senderId /\ NumberOf(m)' = x
  <2> DEFINE i == g[k]
  <2>1. i \in DOMAIN entries
    OBVIOUS
  <2>s. PICK s \in Device : s = entries'[k].senderId /\ s = entries[i].senderId
    BY <2>1, NumberType
  <2>2. /\ Sent(entries[k].senderId)' = Sent(s)' /\ Sent(s)' = Sent(s)
        /\ physicalWorker[s] # "stopped"
    BY <1>2, <2>s DEF Sent, Queued
  <2>3. x \in NumberOf(i)..Sent(entries[i].senderId) /\ physicalWorker[entries[i].senderId] # "stopped"
    BY <1>1, <2>2, <2>s
  <2>4. PICK j \in DOMAIN entries : entries[j].senderId = entries[i].senderId /\ NumberOf(j) = x
    BY <1>2, <2>1, <2>3 DEF NoGap
  <2>5. i \in Nat /\ j \in Nat
    BY DEF TypeOK
  <2>6. NumberOf(i) \in Nat /\ NumberOf(j) \in Nat /\ NumberOf(i) <= NumberOf(j)
    BY <2>1, <2>3, <2>4, NumberType
  <2>7. ~(j < i)
    BY <2>1, <2>4, <2>6 DEF MediumInOrder
  <2>8. \E m \in DOMAIN entries' : g[m] = j
    <3>1. CASE i = j
      BY <3>1
    <3>2. CASE i < j
      BY <3>2, <2>4
    <3> QED
      BY <2>5, <2>7, <3>1, <3>2
  <2>9. PICK m \in DOMAIN entries' : g[m] = j
    BY <2>8
  <2> QED
    BY <1>1, <2>4, <2>9
<1> QED
  BY <1>2 DEF NoGap

(* Lemma: a step that leaves the entries alone.                              *)
LEMMA MediumSame ==
    ASSUME TypeOK, MediumInOrder, NoGap, entries' = entries, participants \subseteq participants',
           \A s \in participants :
               /\ life'[s] = life[s] /\ Sent(s)' = Sent(s)
               /\ physicalWorker'[s] # "stopped" => physicalWorker[s] # "stopped"
    PROVE  MediumInOrder' /\ NoGap'
<1> DEFINE g == [k \in DOMAIN entries |-> k]
<1>1. \A k \in DOMAIN entries : /\ entries[k].senderId \in participants
                                /\ entries[k].senderId \notin entries[k].deliveredTo
  BY DEF MediumInOrder, Present
<1>2. g \in [DOMAIN entries' -> DOMAIN entries] /\ \A k \in DOMAIN entries' : g[k] = k
  OBVIOUS
<1> HIDE DEF g
<1>3. MediumInOrder'
  <2>1. \A m, n \in DOMAIN entries' : m < n => g[m] < g[n]
    BY <1>2
  <2>2. \A n \in DOMAIN entries' : /\ entries'[n].senderId = entries[g[n]].senderId
                                   /\ entries'[n].frame = entries[g[n]].frame
                                   /\ entries'[n].senderId \notin entries'[n].deliveredTo
    BY <1>1, <1>2
  <2>3. \A n \in DOMAIN entries', s \in Device : s = entries'[n].senderId =>
            s \in participants' /\ life'[s] = life[s] /\ Sent(s)' = Sent(s)
    BY <1>1
  <2>4. \A m, n \in DOMAIN entries' :
            entries[g[n]].deliveredTo \subseteq entries[g[m]].deliveredTo
            /\ entries[g[n]].senderId = entries[g[m]].senderId =>
                entries'[n].deliveredTo \subseteq entries'[m].deliveredTo
    BY <1>2
  <2> QED
    BY <1>2, <2>1, <2>2, <2>3, <2>4, MediumMapped
<1>4. NoGap'
  BY <1>1, <1>2, NoGapMapped
<1> QED
  BY <1>3, <1>4

(* Lemma: what is put on the medium is the latest entry of its sender.       *)
LEMMA MediumPut ==
    ASSUME PipelineInv, NEW d \in Device, PutOnMedium(d)
    PROVE  MediumInOrder' /\ NoGap'
<1> DEFINE frame == Head(framesWithCrc[d])
           entry == [senderId |-> d, frame |-> frame, deliveredTo |-> {}]
<1>0. TypeOK /\ QueuesInOrder /\ MediumInOrder /\ NoGap /\ Workers
  BY DEF PipelineInv
<1>1. /\ frame \in Frame /\ Current(d, frame.package) /\ frame.package.number = Sent(d) + 1
      /\ Sent(d) \in Nat
  BY <1>0, QueuePut, SentType
<1>2. \A s \in Device : Sent(s)' = IF s = d THEN Sent(d) + 1 ELSE Sent(s)
  BY SentPut
<1>3. /\ life' = life /\ participants' = participants /\ d \in participants
      /\ \A s \in Device : physicalWorker'[s] # "stopped" => physicalWorker[s] # "stopped"
      /\ \/ entries' = Append(entries, entry)
         \/ entries' = entries /\ physicalWorker'[d] = "stopped"
  BY <1>0 DEF PutOnMedium, history, Workers, Present, TypeOK
<1>4. \A k \in DOMAIN entries : /\ entries[k] \in Entry /\ entries[k].senderId \in Device
                                /\ NumberOf(k) \in 1..Sent(entries[k].senderId)
                                /\ Sent(entries[k].senderId) \in Nat
  BY <1>0, NumberType, SentType DEF MediumInOrder
<1>5. entries \in Seq(Entry) /\ entry \in Entry
  BY <1>0, <1>1 DEF TypeOK, Entry
<1>6. CASE entries' = entries /\ physicalWorker'[d] = "stopped"
  <2>1. \A k \in DOMAIN entries : NumberOf(k)' = NumberOf(k)
    BY <1>6 DEF NumberOf
  <2>2. \A k \in DOMAIN entries : Sent(entries[k].senderId)' =
            IF entries[k].senderId = d THEN Sent(d) + 1 ELSE Sent(entries[k].senderId)
    <3> TAKE k \in DOMAIN entries
    <3>1. PICK s \in Device : s = entries[k].senderId
      BY <1>4
    <3>2. Sent(entries[k].senderId)' = Sent(s)'
      BY <1>6, <3>1 DEF Sent, Queued
    <3> QED
      BY <1>2, <3>1, <3>2
  <2>3. MediumInOrder'
    <3>1. ASSUME NEW k \in DOMAIN entries
          PROVE  /\ Present(entries[k].senderId)' /\ entries'[k].senderId \notin entries'[k].deliveredTo
                 /\ Current(entries[k].senderId, entries[k].frame.package)'
                 /\ NumberOf(k)' \in 1..(Sent(entries[k].senderId)')
      <4>1. NumberOf(k)' \in 1..(Sent(entries[k].senderId)')
        BY <1>4, <2>1, <2>2
      <4> QED
        BY <1>0, <1>3, <1>6, <4>1 DEF MediumInOrder, Present, Current
    <3>2. \A i, j \in DOMAIN entries' :
              i < j /\ entries'[i].senderId = entries'[j].senderId =>
                  NumberOf(i)' < NumberOf(j)' /\ entries'[j].deliveredTo \subseteq entries'[i].deliveredTo
      BY <1>0, <1>6, <2>1 DEF MediumInOrder
    <3> QED
      BY <1>6, <3>1, <3>2 DEF MediumInOrder
  <2>4. NoGap'
    <3>1. SUFFICES ASSUME NEW k \in DOMAIN entries, physicalWorker'[entries[k].senderId] # "stopped",
                          NEW n \in (NumberOf(k)')..(Sent(entries[k].senderId)')
                   PROVE  \E j \in DOMAIN entries :
                              entries[j].senderId = entries[k].senderId /\ NumberOf(j)' = n
      BY <1>6 DEF NoGap
    <3>2. entries[k].senderId # d /\ physicalWorker[entries[k].senderId] # "stopped"
      BY <1>3, <1>4, <1>6, <3>1
    <3>3. n \in NumberOf(k)..Sent(entries[k].senderId)
      BY <2>1, <2>2, <3>2
    <3> QED
      BY <1>0, <2>1, <3>2, <3>3 DEF NoGap
  <2> QED
    BY <2>3, <2>4
<1>7. CASE entries' = Append(entries, entry)
  <2>0. PICK N \in Nat : N = Len(entries)
    BY <1>5, SeqIs
  <2>1. /\ N \in Nat /\ DOMAIN entries = 1..N /\ DOMAIN entries' = 1..(N + 1)
        /\ entries'[N + 1] = entry /\ \A k \in DOMAIN entries : entries'[k] = entries[k]
    BY <1>5, <1>7, <2>0, Appended
  <2>2. /\ \A k \in DOMAIN entries' : k \in DOMAIN entries \/ k = N + 1
        /\ \A k \in DOMAIN entries : k < N + 1 /\ ~(N + 1 < k) /\ k \in DOMAIN entries'
        /\ N + 1 \in DOMAIN entries' /\ ~(N + 1 < N + 1)
    BY <2>1
  <2>3. /\ \A k \in DOMAIN entries : NumberOf(k)' = NumberOf(k)
        /\ NumberOf(N + 1)' = Sent(d) + 1
    BY <1>1, <2>1 DEF NumberOf
  <2>4. \A k \in DOMAIN entries : Sent(entries[k].senderId)' =
            IF entries[k].senderId = d THEN Sent(d) + 1 ELSE Sent(entries[k].senderId)
    <3> TAKE k \in DOMAIN entries
    <3>1. PICK s \in Device : s = entries[k].senderId
      BY <1>4
    <3>2. Sent(entries[k].senderId)' = Sent(s)'
      BY <2>1, <3>1 DEF Sent, Queued
    <3> QED
      BY <1>2, <3>1, <3>2
  <2>5. Sent(entries[N + 1].senderId)' = Sent(d) + 1
    <3>1. Sent(entries[N + 1].senderId)' = Sent(d)'
      BY <2>1 DEF Sent, Queued
    <3> QED
      BY <1>2, <3>1
  <2>6. MediumInOrder'
    <3>1. ASSUME NEW k \in DOMAIN entries
          PROVE  /\ Present(entries[k].senderId)' /\ entries'[k].senderId \notin entries'[k].deliveredTo
                 /\ Current(entries[k].senderId, entries[k].frame.package)'
                 /\ NumberOf(k)' \in 1..(Sent(entries[k].senderId)')
      <4>1. NumberOf(k)' \in 1..(Sent(entries[k].senderId)')
        BY <1>4, <2>3, <2>4
      <4> QED
        BY <1>0, <1>3, <2>1, <4>1 DEF MediumInOrder, Present, Current
    <3>2. /\ Present(entries[N + 1].senderId)' /\ entries'[N + 1].senderId \notin entries'[N + 1].deliveredTo
          /\ Current(entries[N + 1].senderId, entries[N + 1].frame.package)'
          /\ NumberOf(N + 1)' \in 1..(Sent(entries[N + 1].senderId)')
      BY <1>1, <1>3, <2>1, <2>3, <2>5 DEF Present, Current
    <3>3. ASSUME NEW i \in DOMAIN entries', NEW j \in DOMAIN entries', i < j,
                 entries'[i].senderId = entries'[j].senderId
          PROVE  NumberOf(i)' < NumberOf(j)' /\ entries'[j].deliveredTo \subseteq entries'[i].deliveredTo
      <4>1. i \in DOMAIN entries
        BY <2>2, <3>3
      <4>2. CASE j \in DOMAIN entries
        BY <1>0, <2>1, <2>3, <3>3, <4>1, <4>2 DEF MediumInOrder
      <4>3. CASE j = N + 1
        <5>1. entries[i].senderId = d /\ entries'[j].deliveredTo = {}
          BY <2>1, <3>3, <4>1, <4>3
        <5>2. NumberOf(i) \in 1..Sent(d)
          BY <1>4, <4>1, <5>1
        <5> QED
          BY <1>1, <2>3, <4>1, <4>3, <5>1, <5>2
      <4> QED
        BY <2>2, <4>2, <4>3
    <3> QED
      BY <2>2, <3>1, <3>2, <3>3 DEF MediumInOrder
  <2>7. NoGap'
    <3>1. SUFFICES ASSUME NEW k \in DOMAIN entries', physicalWorker'[entries'[k].senderId] # "stopped",
                          NEW n \in (NumberOf(k)')..(Sent(entries[k].senderId)')
                   PROVE  \E j \in DOMAIN entries' :
                              entries'[j].senderId = entries'[k].senderId /\ NumberOf(j)' = n
      BY DEF NoGap
    <3>2. CASE k = N + 1
      <4>1. n = Sent(d) + 1
        BY <1>1, <2>3, <2>5, <3>2
      <4> QED
        BY <2>3, <3>2, <4>1
    <3>3. CASE k \in DOMAIN entries
      <4>1. /\ entries'[k] = entries[k] /\ NumberOf(k)' = NumberOf(k)
            /\ physicalWorker[entries[k].senderId] # "stopped" /\ entries[k].senderId \in Device
        BY <1>3, <1>4, <2>1, <2>3, <3>1, <3>3
      <4>2. CASE n \in NumberOf(k)..Sent(entries[k].senderId)
        <5>1. PICK j \in DOMAIN entries :
                  entries[j].senderId = entries[k].senderId /\ NumberOf(j) = n
          BY <1>0, <3>3, <4>1, <4>2 DEF NoGap
        <5> QED
          BY <2>1, <2>2, <2>3, <4>1, <5>1
      <4>3. CASE entries[k].senderId = d /\ n = Sent(d) + 1
        BY <2>1, <2>2, <2>3, <4>1, <4>3
      <4>4. \/ n \in NumberOf(k)..Sent(entries[k].senderId)
            \/ entries[k].senderId = d /\ n = Sent(d) + 1
        BY <1>1, <1>4, <2>4, <3>3, <4>1
      <4> QED
        BY <4>2, <4>3, <4>4
    <3> QED
      BY <2>2, <3>2, <3>3
  <2> QED
    BY <2>6, <2>7
<1> QED
  BY <1>3, <1>6, <1>7

(* Lemma: a pass erases the oldest entries only.                             *)
LEMMA MediumTake ==
    ASSUME PipelineInv, NEW d \in Device, TakeFromMedium(d)
    PROVE  MediumInOrder' /\ NoGap'
<1>0. TypeOK /\ MediumInOrder /\ NoGap /\ Workers
  BY DEF PipelineInv
<1>1. /\ life' = life /\ participants' = participants /\ Present(d)
      /\ \A s \in Device : physicalWorker'[s] # "stopped" => physicalWorker[s] # "stopped"
  BY <1>0 DEF TakeFromMedium, history, Workers, TypeOK
<1>2. \A s \in Device : Sent(s)' = Sent(s)
  BY SentSame
<1>3. PICK g \in [DOMAIN entries' -> {k \in DOMAIN entries : ~TakenByAll(d, entries[k])}] :
          /\ \A m, n \in DOMAIN entries' : m < n => g[m] < g[n]
          /\ \A k \in DOMAIN entries : ~TakenByAll(d, entries[k]) => \E n \in DOMAIN entries' : g[n] = k
          /\ \A n \in DOMAIN entries' :
                 /\ entries'[n].senderId = entries[g[n]].senderId
                 /\ entries'[n].frame = entries[g[n]].frame
                 /\ entries'[n].deliveredTo = IF entries[g[n]].senderId # d
                                              THEN entries[g[n]].deliveredTo \cup {d}
                                              ELSE entries[g[n]].deliveredTo
  BY <1>0, EntriesKept
<1>4. /\ g \in [DOMAIN entries' -> DOMAIN entries]
      /\ \A n \in DOMAIN entries' : ~TakenByAll(d, entries[g[n]])
  BY <1>3
<1>5. \A k \in DOMAIN entries : /\ entries[k].senderId \in participants
                                /\ entries[k].senderId \notin entries[k].deliveredTo
  BY <1>0 DEF MediumInOrder, Present
<1>6. MediumInOrder'
  <2>1. \A n \in DOMAIN entries' : /\ entries'[n].senderId = entries[g[n]].senderId
                                   /\ entries'[n].frame = entries[g[n]].frame
                                   /\ entries'[n].senderId \notin entries'[n].deliveredTo
    <3> TAKE n \in DOMAIN entries'
    <3>1. g[n] \in DOMAIN entries
      BY <1>4
    <3>2. /\ entries[g[n]].senderId \notin entries[g[n]].deliveredTo
          /\ entries'[n].senderId = entries[g[n]].senderId
          /\ entries'[n].frame = entries[g[n]].frame
          /\ \/ entries[g[n]].senderId # d
                /\ entries'[n].deliveredTo = entries[g[n]].deliveredTo \cup {d}
             \/ entries'[n].deliveredTo = entries[g[n]].deliveredTo
      BY <1>3, <1>5, <3>1
    <3> QED
      BY <3>2
  <2>2. \A n \in DOMAIN entries', s \in Device : s = entries'[n].senderId =>
            s \in participants' /\ life'[s] = life[s] /\ Sent(s)' = Sent(s)
    <3> TAKE n \in DOMAIN entries', s \in Device
    <3> HAVE s = entries'[n].senderId
    <3>1. g[n] \in DOMAIN entries /\ s = entries[g[n]].senderId
      BY <1>3, <1>4
    <3> QED
      BY <1>1, <1>2, <1>5, <3>1
  <2>3. \A m, n \in DOMAIN entries' :
            entries[g[n]].deliveredTo \subseteq entries[g[m]].deliveredTo
            /\ entries[g[n]].senderId = entries[g[m]].senderId =>
                entries'[n].deliveredTo \subseteq entries'[m].deliveredTo
    <3> TAKE m \in DOMAIN entries', n \in DOMAIN entries'
    <3> HAVE /\ entries[g[n]].deliveredTo \subseteq entries[g[m]].deliveredTo
             /\ entries[g[n]].senderId = entries[g[m]].senderId
    <3>1. CASE entries[g[n]].senderId # d
      <4>1. /\ entries'[n].deliveredTo = entries[g[n]].deliveredTo \cup {d}
            /\ entries'[m].deliveredTo = entries[g[m]].deliveredTo \cup {d}
        BY <1>3, <3>1
      <4> QED
        BY <4>1
    <3>2. CASE entries[g[n]].senderId = d
      <4>1. /\ entries'[n].deliveredTo = entries[g[n]].deliveredTo
            /\ entries'[m].deliveredTo = entries[g[m]].deliveredTo
        BY <1>3, <3>2
      <4> QED
        BY <4>1
    <3> QED
      BY <3>1, <3>2
  <2> QED
    BY <1>0, <1>3, <1>4, <2>1, <2>2, <2>3, MediumMapped
<1>7. NoGap'
  <2>1. \A n \in DOMAIN entries', j \in DOMAIN entries :
            g[n] < j /\ entries[j].senderId = entries[g[n]].senderId =>
                \E m \in DOMAIN entries' : g[m] = j
    <3> TAKE n \in DOMAIN entries', j \in DOMAIN entries
    <3> HAVE g[n] < j /\ entries[j].senderId = entries[g[n]].senderId
    <3>1. g[n] \in DOMAIN entries /\ ~TakenByAll(d, entries[g[n]])
      BY <1>4
    <3>2. ~TakenByAll(d, entries[j])
      BY <1>0, <1>1, <3>1, LastToTake
    <3> QED
      BY <1>3, <3>2
  <2>2. \A n \in DOMAIN entries', s \in Device : s = entries'[n].senderId =>
            /\ Sent(s)' = Sent(s)
            /\ physicalWorker'[s] # "stopped" => physicalWorker[s] # "stopped"
    BY <1>1, <1>2
  <2> QED
    BY <1>0, <1>3, <1>4, <2>1, <2>2, NoGapMapped
<1> QED
  BY <1>6, <1>7

(* Lemma: who leaves takes its entries and its marks along.                  *)
LEMMA MediumLeave ==
    ASSUME PipelineInv, NEW d \in Device, Leave(d)
    PROVE  MediumInOrder' /\ NoGap'
<1>0. TypeOK /\ MediumInOrder /\ NoGap
  BY DEF PipelineInv
<1>1. /\ life' = life /\ participants' = participants \ {d}
      /\ \A s \in Device : s # d => physicalWorker'[s] = physicalWorker[s]
  BY <1>0 DEF Leave, TypeOK
<1>2. \A s \in Device : s # d => Sent(s)' = Sent(s)
  BY SentLeave
<1>3. PICK g \in [DOMAIN entries' -> {k \in DOMAIN entries : entries[k].senderId # d}] :
          /\ \A m, n \in DOMAIN entries' : m < n => g[m] < g[n]
          /\ \A k \in DOMAIN entries : entries[k].senderId # d => \E n \in DOMAIN entries' : g[n] = k
          /\ \A n \in DOMAIN entries' :
                 /\ entries'[n].senderId = entries[g[n]].senderId
                 /\ entries'[n].frame = entries[g[n]].frame
                 /\ entries'[n].deliveredTo = entries[g[n]].deliveredTo \ {d}
  BY <1>0, EntriesLeft
<1>4. /\ g \in [DOMAIN entries' -> DOMAIN entries]
      /\ \A n \in DOMAIN entries' : entries[g[n]].senderId # d
  BY <1>3
<1>5. \A k \in DOMAIN entries : /\ entries[k].senderId \in participants
                                /\ entries[k].senderId \notin entries[k].deliveredTo
  BY <1>0 DEF MediumInOrder, Present
<1>6. MediumInOrder'
  <2>1. \A n \in DOMAIN entries' : /\ entries'[n].senderId = entries[g[n]].senderId
                                   /\ entries'[n].frame = entries[g[n]].frame
                                   /\ entries'[n].senderId \notin entries'[n].deliveredTo
    BY <1>3, <1>4, <1>5
  <2>2. \A n \in DOMAIN entries', s \in Device : s = entries'[n].senderId =>
            s \in participants' /\ life'[s] = life[s] /\ Sent(s)' = Sent(s)
    BY <1>1, <1>2, <1>3, <1>4, <1>5
  <2>3. \A m, n \in DOMAIN entries' :
            entries[g[n]].deliveredTo \subseteq entries[g[m]].deliveredTo
            /\ entries[g[n]].senderId = entries[g[m]].senderId =>
                entries'[n].deliveredTo \subseteq entries'[m].deliveredTo
    BY <1>3
  <2> QED
    BY <1>0, <1>3, <1>4, <2>1, <2>2, <2>3, MediumMapped
<1>7. NoGap'
  <2>1. \A n \in DOMAIN entries', j \in DOMAIN entries :
            g[n] < j /\ entries[j].senderId = entries[g[n]].senderId =>
                \E m \in DOMAIN entries' : g[m] = j
    BY <1>3, <1>4
  <2>2. \A n \in DOMAIN entries', s \in Device : s = entries'[n].senderId =>
            /\ Sent(s)' = Sent(s)
            /\ physicalWorker'[s] # "stopped" => physicalWorker[s] # "stopped"
    BY <1>1, <1>2, <1>3, <1>4
  <2> QED
    BY <1>0, <1>3, <1>4, <2>1, <2>2, NoGapMapped
<1> QED
  BY <1>6, <1>7

(* Lemma: a step keeps the order of the medium.                              *)
LEMMA MediumStep == PipelineInv /\ [Next]_vars => MediumInOrder' /\ NoGap'
<1> SUFFICES ASSUME PipelineInv, [Next]_vars PROVE MediumInOrder' /\ NoGap'
  OBVIOUS
<1>0. TypeOK /\ QueuesInOrder /\ MediumInOrder /\ NoGap /\ Workers /\ participants \subseteq Device
  BY DEF PipelineInv, TypeOK
<1>1. CASE UNCHANGED vars
  <2>1. \A s \in Device :
            /\ outgoingPackages'[s] = outgoingPackages[s] /\ outgoingFrames'[s] = outgoingFrames[s]
            /\ framesWithCrc'[s] = framesWithCrc[s] /\ pushed'[s] = pushed[s] /\ life'[s] = life[s]
            /\ physicalWorker'[s] = physicalWorker[s]
    BY <1>1 DEF vars, queues, history
  <2>2. entries' = entries /\ participants' = participants
    BY <1>1 DEF vars, medium
  <2>3. \A s \in Device : Sent(s)' = Sent(s)
    BY <1>0, <2>1, QueueSame
  <2> QED
    BY <1>0, <2>1, <2>2, <2>3, MediumSame
<1>2. ASSUME NEW d \in Device,
             \/ Join(d) \/ (\E size \in PayloadSizes : Push(d, size)) \/ Serialize(d) \/ Encode(d)
             \/ BeginPass(d) \/ Deliver(d) \/ DeliverFails(d)
      PROVE  MediumInOrder' /\ NoGap'
  <2>1. \A s \in Device : Sent(s)' = Sent(s)
    BY <1>2, SentSame
  <2>2. entries' = entries /\ participants \subseteq participants'
    BY <1>2 DEF Join, Push, Serialize, Encode, BeginPass, Deliver, DeliverFails, medium
  <2>3. \A s \in participants :
            life'[s] = life[s] /\ (physicalWorker'[s] # "stopped" => physicalWorker[s] # "stopped")
    <3> TAKE s \in participants
    <3>1. CASE Join(d)
      BY <1>0, <3>1 DEF Join, Present, TypeOK
    <3>2. CASE ~Join(d)
      <4>1. life' = life
        BY <1>2, <3>2 DEF Push, Serialize, Encode, BeginPass, Deliver, DeliverFails, history
      <4>2. physicalWorker'[s] # "stopped" => physicalWorker[s] # "stopped"
        BY <1>0, <1>2, <3>2
        DEF Push, Serialize, Encode, BeginPass, Deliver, DeliverFails, TypeOK
      <4> QED
        BY <4>1, <4>2
    <3> QED
      BY <3>1, <3>2
  <2> QED
    BY <1>0, <2>1, <2>2, <2>3, MediumSame
<1> QED
  BY <1>1, <1>2, MediumPut, MediumTake, MediumLeave DEF Next, PhysicalLayer

(* Lemma: handing up moves the first frame of a pass.                        *)
LEMMA HandUp ==
    ASSUME TypeOK, Workers, NEW d \in Device, Deliver(d) \/ DeliverFails(d)
    PROVE  /\ framesToDeliver[d] # <<>> /\ 1 \in DOMAIN framesToDeliver[d]
           /\ Head(framesToDeliver[d]) = framesToDeliver[d][1]
           /\ framesToDeliver[d][1].package \in Package
           /\ \A k \in DOMAIN framesToDeliver'[d] :
                  k + 1 \in DOMAIN framesToDeliver[d] /\ k \in Nat /\ k > 0
                  /\ framesToDeliver'[d][k] = framesToDeliver[d][k + 1]
           /\ \A k \in DOMAIN received'[d] :
                  \/ k \in DOMAIN received[d] /\ received'[d][k] = received[d][k]
                  \/ k = Len(received[d]) + 1 /\ received'[d][k] = framesToDeliver[d][1].package
           /\ \A k \in DOMAIN received[d] :
                  k \in DOMAIN received'[d] /\ received'[d][k] = received[d][k]
                  /\ k \in Nat /\ k <= Len(received[d])
           /\ Deliver(d) => /\ Len(received[d]) + 1 \in DOMAIN received'[d]
                            /\ received'[d][Len(received[d]) + 1] = framesToDeliver[d][1].package
                            /\ \A k \in DOMAIN framesToDeliver[d] : k # 1 =>
                                   /\ k - 1 \in DOMAIN framesToDeliver'[d]
                                   /\ framesToDeliver'[d][k - 1] = framesToDeliver[d][k]
           /\ \A e \in Device : e # d => /\ framesToDeliver'[e] = framesToDeliver[e]
                                         /\ received'[e] = received[e]
<1> DEFINE fs == framesToDeliver[d]
           rs == received[d]
           p == Head(fs).package
<1>1. fs \in Seq(Frame) /\ fs # <<>> /\ rs \in Seq(Package)
  BY DEF TypeOK, Workers, Deliver, DeliverFails
<1>2. Head(fs) \in Frame /\ Head(fs) = fs[1] /\ 1 \in DOMAIN fs
  BY <1>1, HeadTail
<1>3. p \in Package
  BY <1>2, Fields
<1>4. /\ framesToDeliver'[d] = IF Deliver(d) THEN Tail(fs) ELSE <<>>
      /\ received'[d] = Append(rs, p) \/ (~Deliver(d) /\ received'[d] = rs)
  <2>1. CASE Deliver(d)
    BY <2>1 DEF Deliver, TypeOK
  <2>2. CASE ~Deliver(d) /\ DeliverFails(d)
    BY <2>2 DEF DeliverFails, TypeOK
  <2> QED
    BY <2>1, <2>2
<1>5. \A e \in Device : e # d => /\ framesToDeliver'[e] = framesToDeliver[e]
                                 /\ received'[e] = received[e]
  <2>1. CASE Deliver(d)
    BY <2>1 DEF Deliver, TypeOK
  <2>2. CASE DeliverFails(d)
    BY <2>2 DEF DeliverFails, TypeOK
  <2> QED
    BY <2>1, <2>2
<1> HIDE DEF fs, rs, p
<1>6. /\ \A k \in DOMAIN Tail(fs) : k + 1 \in DOMAIN fs /\ k \in Nat /\ k > 0 /\ Tail(fs)[k] = fs[k + 1]
      /\ \A k \in DOMAIN fs : k # 1 => k - 1 \in DOMAIN Tail(fs) /\ Tail(fs)[k - 1] = fs[k]
  <2>1. /\ \A k \in DOMAIN Tail(fs) : k + 1 \in DOMAIN fs /\ Tail(fs)[k] = fs[k + 1]
        /\ \A k \in DOMAIN fs : k > 1 => k - 1 \in DOMAIN Tail(fs)
        /\ Tail(fs) \in Seq(Frame)
    BY <1>1, HeadTail
  <2>2. /\ \A k \in DOMAIN Tail(fs) : k \in Nat /\ k > 0
        /\ \A k \in DOMAIN fs : k \in Nat /\ k > 0
    BY <1>1, <2>1, SeqIs
  <2>3. ASSUME NEW k \in DOMAIN fs, k # 1
        PROVE  k - 1 \in DOMAIN Tail(fs) /\ Tail(fs)[k - 1] = fs[k]
    <3>1. k > 1 /\ (k - 1) + 1 = k
      BY <2>2, <2>3
    <3>2. k - 1 \in DOMAIN Tail(fs)
      BY <2>1, <3>1
    <3>3. Tail(fs)[k - 1] = fs[(k - 1) + 1]
      BY <2>1, <3>2
    <3> QED
      BY <3>1, <3>2, <3>3
  <2> QED
    BY <2>1, <2>2, <2>3
<1>7. /\ \A k \in DOMAIN Append(rs, p) : \/ k \in DOMAIN rs /\ Append(rs, p)[k] = rs[k]
                                         \/ k = Len(rs) + 1 /\ Append(rs, p)[k] = p
      /\ \A k \in DOMAIN rs : /\ k \in DOMAIN Append(rs, p) /\ Append(rs, p)[k] = rs[k]
                              /\ k \in Nat /\ k <= Len(rs)
      /\ Len(rs) + 1 \in DOMAIN Append(rs, p) /\ Append(rs, p)[Len(rs) + 1] = p
  <2>1. \A k \in DOMAIN Append(rs, p) : \/ k \in DOMAIN rs /\ Append(rs, p)[k] = rs[k]
                                        \/ k = Len(rs) + 1 /\ Append(rs, p)[k] = p
    BY <1>1, <1>3, AppendedAt
  <2>2. /\ DOMAIN Append(rs, p) = 1..(Len(rs) + 1) /\ DOMAIN rs = 1..Len(rs) /\ Len(rs) \in Nat
        /\ \A k \in DOMAIN rs : Append(rs, p)[k] = rs[k]
        /\ Append(rs, p)[Len(rs) + 1] = p
    BY <1>1, <1>3, Appended, SeqIs
  <2> QED
    BY <2>1, <2>2
<1>8. \A k \in DOMAIN framesToDeliver'[d] :
          k + 1 \in DOMAIN fs /\ k \in Nat /\ k > 0 /\ framesToDeliver'[d][k] = fs[k + 1]
  <2>1. CASE Deliver(d)
    BY <1>4, <1>6, <2>1
  <2>2. CASE ~Deliver(d)
    BY <1>4, <2>2
  <2> QED
    BY <2>1, <2>2
<1>9. p = fs[1].package
  BY <1>2 DEF p
<1>10. /\ \A k \in DOMAIN received'[d] :
              \/ k \in DOMAIN rs /\ received'[d][k] = rs[k]
              \/ k = Len(rs) + 1 /\ received'[d][k] = p
       /\ \A k \in DOMAIN rs : /\ k \in DOMAIN received'[d] /\ received'[d][k] = rs[k]
                               /\ k \in Nat /\ k <= Len(rs)
  <2>1. CASE received'[d] = Append(rs, p)
    BY <1>7, <2>1
  <2>2. CASE received'[d] = rs
    BY <1>7, <2>2
  <2> QED
    BY <1>4, <2>1, <2>2
<1>11. Deliver(d) => /\ Len(rs) + 1 \in DOMAIN received'[d] /\ received'[d][Len(rs) + 1] = p
                     /\ \A k \in DOMAIN fs : k # 1 =>
                            k - 1 \in DOMAIN framesToDeliver'[d] /\ framesToDeliver'[d][k - 1] = fs[k]
  BY <1>4, <1>6, <1>7
<1> QED
  BY <1>1, <1>2, <1>3, <1>5, <1>8, <1>9, <1>10, <1>11 DEF fs, rs

(* Lemma: no life is handed up before it has begun.                          *)
LEMMA PastLivesStep == PipelineInv /\ [Next]_vars => PastLives'
<1> SUFFICES ASSUME PipelineInv, [Next]_vars PROVE PastLives'
  OBVIOUS
<1>0. TypeOK /\ Workers /\ MediumInOrder /\ PastLives
  BY DEF PipelineInv
<1>1. \A d \in Device : /\ \A k \in DOMAIN received[d] :
                               received[d][k].from \in Device /\ received[d][k].life \in Nat
                        /\ \A k \in DOMAIN framesToDeliver[d] :
                               /\ framesToDeliver[d][k].package.from \in Device
                               /\ framesToDeliver[d][k].package.life \in Nat
  <2> TAKE d \in Device
  <2>1. received[d] \in Seq(Package) /\ framesToDeliver[d] \in Seq(Frame)
    BY <1>0 DEF TypeOK
  <2>2. /\ \A k \in DOMAIN received[d] : received[d][k] \in Package
        /\ \A k \in DOMAIN framesToDeliver[d] : framesToDeliver[d][k] \in Frame
    BY <2>1, SeqIs
  <2> QED
    BY <2>2, Fields
<1>2. \A d \in Device : life[d] \in Nat
  BY <1>0 DEF TypeOK
<1>3. CASE received' = received /\ framesToDeliver' = framesToDeliver /\ life' = life
  BY <1>0, <1>3 DEF PastLives
<1>4. ASSUME NEW d \in Device, Join(d) PROVE PastLives'
  <2>1. \A e \in Device : life'[e] \in Nat /\ life[e] <= life'[e]
    <3> TAKE e \in Device
    <3>1. life[e] \in Nat
      BY <1>2
    <3>2. life'[e] = life[e] \/ life'[e] = life[e] + 1
      BY <1>0, <1>4 DEF Join, TypeOK
    <3> QED
      BY <3>1, <3>2
  <2>2. /\ framesToDeliver' = framesToDeliver
        /\ \A e \in Device : received'[e] = received[e] \/ received'[e] = <<>>
    BY <1>0, <1>4 DEF Join, TypeOK
  <2>3. ASSUME NEW e \in Device
        PROVE  /\ \A k \in DOMAIN received'[e] : received'[e][k].life <= life'[received'[e][k].from]
               /\ \A k \in DOMAIN framesToDeliver'[e] :
                   framesToDeliver'[e][k].package.life <= life'[framesToDeliver'[e][k].package.from]
    <3>1. ASSUME NEW k \in DOMAIN received[e]
          PROVE  received[e][k].life <= life'[received[e][k].from]
      BY <1>0, <1>1, <1>2, <2>1 DEF PastLives
    <3>2. ASSUME NEW k \in DOMAIN framesToDeliver[e]
          PROVE  framesToDeliver[e][k].package.life <= life'[framesToDeliver[e][k].package.from]
      BY <1>0, <1>1, <1>2, <2>1 DEF PastLives
    <3> QED
      BY <2>2, <3>1, <3>2
  <2> QED
    BY <2>3 DEF PastLives
<1>5. ASSUME NEW d \in Device, TakeFromMedium(d) PROVE PastLives'
  <2>1. PICK g \in [DOMAIN framesToDeliver'[d] -> {k \in DOMAIN entries : NewFor(d, entries[k])}] :
            \A n \in DOMAIN framesToDeliver'[d] : framesToDeliver'[d][n] = entries[g[n]].frame
    BY <1>0, <1>5, FramesTaken
  <2>2. \A k \in DOMAIN entries : entries[k].frame.package.life <= life[entries[k].frame.package.from]
    BY <1>0, <1>2, NumberType DEF MediumInOrder, Current
  <2>3. \A k \in DOMAIN framesToDeliver'[d] :
            framesToDeliver'[d][k].package.life <= life[framesToDeliver'[d][k].package.from]
    BY <2>1, <2>2
  <2>4. /\ received' = received /\ life' = life
        /\ \A e \in Device : e # d => framesToDeliver'[e] = framesToDeliver[e]
    BY <1>0, <1>5 DEF TakeFromMedium, history, TypeOK
  <2> QED
    BY <1>0, <2>3, <2>4 DEF PastLives
<1>6. ASSUME NEW d \in Device, Deliver(d) \/ DeliverFails(d) PROVE PastLives'
  <2>1. life' = life
    BY <1>6 DEF Deliver, DeliverFails
  <2>2. ASSUME NEW e \in Device
        PROVE  /\ \A k \in DOMAIN received'[e] : received'[e][k].life <= life[received'[e][k].from]
               /\ \A k \in DOMAIN framesToDeliver'[e] :
                   framesToDeliver'[e][k].package.life <= life[framesToDeliver'[e][k].package.from]
    <3>1. CASE e # d
      BY <1>0, <1>6, <3>1, HandUp DEF PastLives
    <3>2. CASE e = d
      <4>1. framesToDeliver[d][1].package.life <= life[framesToDeliver[d][1].package.from]
        BY <1>0, <1>6, HandUp DEF PastLives
      <4>2. \A k \in DOMAIN received'[d] : \/ k \in DOMAIN received[d] /\ received'[d][k] = received[d][k]
                                           \/ received'[d][k] = framesToDeliver[d][1].package
        BY <1>0, <1>6, HandUp
      <4>3. \A k \in DOMAIN framesToDeliver'[d] :
                k + 1 \in DOMAIN framesToDeliver[d]
                /\ framesToDeliver'[d][k] = framesToDeliver[d][k + 1]
        BY <1>0, <1>6, HandUp
      <4> QED
        BY <1>0, <3>2, <4>1, <4>2, <4>3 DEF PastLives
    <3> QED
      BY <3>1, <3>2
  <2> QED
    BY <2>1, <2>2 DEF PastLives
<1>7. CASE UNCHANGED vars
  BY <1>3, <1>7 DEF vars, history
<1>8. ASSUME NEW d \in Device,
             \/ Leave(d) \/ (\E size \in PayloadSizes : Push(d, size)) \/ Serialize(d) \/ Encode(d)
             \/ BeginPass(d) \/ PutOnMedium(d)
      PROVE  PastLives'
  BY <1>3, <1>8 DEF Leave, Push, Serialize, Encode, BeginPass, PutOnMedium, history
<1> QED
  BY <1>4, <1>5, <1>6, <1>7, <1>8 DEF Next, PhysicalLayer

-----------------------------------------------------------------------------
(* The account of every pair of devices *)

(* Lemma: while the same waits for d, the account is the same.               *)
LEMMA AccountKept ==
    ASSUME NEW s \in Device, NEW d \in Device, Account(s, d),
           \A n \in Waiting(s, d)' : \E k \in Waiting(s, d) : NumberOf(n)' = NumberOf(k),
           \A k \in Waiting(s, d) : \E n \in Waiting(s, d)' : NumberOf(n)' = NumberOf(k),
           received'[d] = received[d], framesToDeliver'[d] = framesToDeliver[d],
           firstDue'[d][s] = firstDue[d][s], life'[s] = life[s], Sent(s)' = Sent(s)
    PROVE  Account(s, d)'
<1>1. /\ Handed(s, d)' = Handed(s, d) /\ InPass(s, d)' = InPass(s, d)
      /\ \A k : HandedNumber(d, k)' = HandedNumber(d, k)
      /\ \A k : PassNumber(d, k)' = PassNumber(d, k)
  BY DEF Handed, InPass, HandedNumber, PassNumber, Current
<1>2. Ascending(s, d) /\ Due(s, d) /\ Complete(s, d)
  BY DEF Account
<1>3. Ascending(s, d)'
  <2>1. /\ \A i, j \in Handed(s, d)' : i < j => HandedNumber(d, i)' < HandedNumber(d, j)'
        /\ \A i, j \in InPass(s, d)' : i < j => PassNumber(d, i)' < PassNumber(d, j)'
        /\ \A i \in Handed(s, d)', j \in InPass(s, d)' : HandedNumber(d, i)' < PassNumber(d, j)'
    BY <1>1, <1>2 DEF Ascending
  <2>2. /\ \A i \in Handed(s, d)', j \in Waiting(s, d)' : HandedNumber(d, i)' < NumberOf(j)'
        /\ \A i \in InPass(s, d)', j \in Waiting(s, d)' : PassNumber(d, i)' < NumberOf(j)'
    BY <1>1, <1>2 DEF Ascending
  <2> QED
    BY <2>1, <2>2 DEF Ascending
<1>4. Due(s, d)'
  <2>1. /\ firstDue'[d][s] <= Sent(s)' + 1
        /\ \A k \in Handed(s, d)' : HandedNumber(d, k)' \in firstDue'[d][s]..(Sent(s)')
        /\ \A k \in InPass(s, d)' : PassNumber(d, k)' \in firstDue'[d][s]..(Sent(s)')
    BY <1>1, <1>2 DEF Due
  <2>2. \A k \in Waiting(s, d)' : NumberOf(k)' \in firstDue'[d][s]..(Sent(s)')
    BY <1>2 DEF Due
  <2> QED
    BY <2>1, <2>2 DEF Due
<1>5. Complete(s, d)'
  <2>1. ASSUME NEW n \in firstDue'[d][s]..(Sent(s)')
        PROVE  \/ \E k \in Handed(s, d)' : HandedNumber(d, k)' = n
               \/ \E k \in InPass(s, d)' : PassNumber(d, k)' = n
               \/ \E k \in Waiting(s, d)' : NumberOf(k)' = n
    <3>1. n \in firstDue[d][s]..Sent(s)
      OBVIOUS
    <3>2. CASE \E k \in Handed(s, d) : HandedNumber(d, k) = n
      BY <1>1, <3>2
    <3>3. CASE \E k \in InPass(s, d) : PassNumber(d, k) = n
      BY <1>1, <3>3
    <3>4. CASE \E k \in Waiting(s, d) : NumberOf(k) = n
      BY <3>4
    <3> QED
      BY <1>2, <3>1, <3>2, <3>3, <3>4 DEF Complete
  <2> QED
    BY <2>1 DEF Complete
<1> QED
  BY <1>3, <1>4, <1>5 DEF Account

(* Lemma: nothing waits that is not on the medium.                           *)
LEMMA WaitingSame ==
    ASSUME NEW s \in Device, NEW d \in Device, Account(s, d), entries' = entries,
           received'[d] = received[d], framesToDeliver'[d] = framesToDeliver[d],
           firstDue'[d][s] = firstDue[d][s], life'[s] = life[s], Sent(s)' = Sent(s)
    PROVE  Account(s, d)'
<1>1. Waiting(s, d)' = Waiting(s, d) /\ \A k : NumberOf(k)' = NumberOf(k)
  BY DEF Waiting, NumberOf, NewFor
<1> QED
  BY <1>1, AccountKept

(* Lemma: the account of a device that has just been constructed.            *)
LEMMA AccountOfNew ==
    ASSUME PipelineInv, NEW d \in Device, NEW s \in Device, s # d, Join(d),
           Present(s), physicalWorker[s] # "stopped"
    PROVE  Account(s, d)'
<1>0. TypeOK /\ QueuesInOrder /\ MediumInOrder /\ NoGap /\ Workers
  BY DEF PipelineInv
<1>1. Sent(s)' = Sent(s) /\ Sent(s) \in Nat
  BY <1>0, SentSame, SentType
<1>2. /\ received'[d] = <<>> /\ framesToDeliver'[d] = <<>> /\ entries' = entries
      /\ firstDue'[d][s] = Sent(s) - Len(EntriesOf(s)) + 1
  BY <1>0 DEF Join, TypeOK, Workers, Sent
<1>3. Handed(s, d)' = {} /\ InPass(s, d)' = {}
  BY <1>2 DEF Handed, InPass
<1>4. Waiting(s, d)' = {k \in DOMAIN entries : entries[k].senderId = s}
  <2>1. \A k \in DOMAIN entries : d \notin entries[k].deliveredTo
    BY <1>0 DEF TypeOK, Join, Present
  <2> QED
    BY <1>2, <2>1 DEF Waiting, NewFor
<1>5. \A k : NumberOf(k)' = NumberOf(k)
  BY <1>2 DEF NumberOf
<1> DEFINE first == Sent(s) - Len(EntriesOf(s)) + 1
<1>6. /\ Len(EntriesOf(s)) \in 0..Sent(s)
      /\ \A k \in Waiting(s, d)' : NumberOf(k)' \in first..Sent(s)
      /\ \A n \in first..Sent(s) : \E k \in Waiting(s, d)' : NumberOf(k)' = n
  BY <1>0, <1>4, <1>5, EntriesCount
<1>7. first <= Sent(s) + 1
  BY <1>1, <1>6
<1>8. Ascending(s, d)'
  BY <1>3 DEF Ascending
<1>9. Due(s, d)'
  BY <1>1, <1>2, <1>3, <1>6, <1>7 DEF Due
<1>10. Complete(s, d)'
  BY <1>1, <1>2, <1>6 DEF Complete
<1> QED
  BY <1>8, <1>9, <1>10 DEF Account

(* Lemma: the account of the others with a device that is just constructed.  *)
LEMMA AccountWithNew ==
    ASSUME PipelineInv, NEW s \in Device, NEW d \in Device, s # d, Join(s)
    PROVE  Account(s, d)'
<1>0. TypeOK /\ QueuesInOrder /\ MediumInOrder /\ Workers /\ PastLives
  BY DEF PipelineInv
<1>1. Sent(s)' = 0
  <2>1. pushed[s] = 0
    BY <1>0 DEF Workers, Join
  <2>2. outgoingPackages[s] = <<>> /\ outgoingFrames[s] = <<>> /\ framesWithCrc[s] = <<>>
    BY <1>0 DEF Workers, Join
  <2>3. Len(<<>>) = 0
    OBVIOUS
  <2>4. /\ Len(outgoingPackages[s]) = 0 /\ Len(outgoingFrames[s]) = 0
        /\ Len(framesWithCrc[s]) = 0
    BY <2>2, <2>3, Zenon
  <2>5. Sent(s) = 0
    BY <2>1, <2>4 DEF Sent, Queued
  <2> QED
    BY <1>0, <2>5, SentSame
<1>2. /\ received'[d] = received[d] /\ framesToDeliver'[d] = framesToDeliver[d]
      /\ entries' = entries /\ firstDue'[d][s] = 1 /\ life'[s] = life[s] + 1 /\ life[s] \in Nat
  BY <1>0 DEF Join, TypeOK
<1>3. Handed(s, d)' = {}
  <2>1. ASSUME NEW k \in DOMAIN received[d], received[d][k].from = s PROVE received[d][k].life # life'[s]
    <3>1. received[d] \in Seq(Package)
      BY <1>0 DEF TypeOK
    <3>2. received[d][k].life \in Nat
      BY <2>1, <3>1, SeqIs, Fields
    <3>3. received[d][k].life <= life[s]
      BY <1>0, <2>1 DEF PastLives
    <3> QED
      BY <1>2, <3>2, <3>3
  <2> QED
    BY <1>2, <2>1 DEF Handed, Current
<1>4. InPass(s, d)' = {}
  <2>1. ASSUME NEW k \in DOMAIN framesToDeliver[d], framesToDeliver[d][k].package.from = s
        PROVE  framesToDeliver[d][k].package.life # life'[s]
    <3>1. framesToDeliver[d] \in Seq(Frame)
      BY <1>0 DEF TypeOK
    <3>2. framesToDeliver[d][k].package.life \in Nat
      BY <2>1, <3>1, SeqIs, Fields
    <3>3. framesToDeliver[d][k].package.life <= life[s]
      BY <1>0, <2>1 DEF PastLives
    <3> QED
      BY <1>2, <3>2, <3>3
  <2> QED
    BY <1>2, <2>1 DEF InPass, Current
<1>5. Waiting(s, d)' = {}
  BY <1>0, <1>2 DEF Waiting, Join, MediumInOrder
<1>6. Ascending(s, d)'
  BY <1>3, <1>4, <1>5 DEF Ascending
<1>7. Due(s, d)'
  BY <1>1, <1>2, <1>3, <1>4, <1>5 DEF Due
<1>8. Complete(s, d)'
  BY <1>1, <1>2 DEF Complete
<1> QED
  BY <1>6, <1>7, <1>8 DEF Account

(* Lemma: the account when another device leaves.                            *)
LEMMA AccountOtherLeaves ==
    ASSUME PipelineInv, NEW e \in Device, Leave(e), NEW s \in Device, NEW d \in Device,
           s # e, d # e, Account(s, d)
    PROVE  Account(s, d)'
<1>0. TypeOK
  BY DEF PipelineInv
<1>1. PICK g \in [DOMAIN entries' -> {k \in DOMAIN entries : entries[k].senderId # e}] :
          /\ \A k \in DOMAIN entries : entries[k].senderId # e => \E n \in DOMAIN entries' : g[n] = k
          /\ \A n \in DOMAIN entries' :
                 /\ entries'[n].senderId = entries[g[n]].senderId
                 /\ entries'[n].frame = entries[g[n]].frame
                 /\ entries'[n].deliveredTo = entries[g[n]].deliveredTo \ {e}
  BY <1>0, EntriesLeft
<1>2. \A n \in Waiting(s, d)' : \E k \in Waiting(s, d) : NumberOf(n)' = NumberOf(k)
  <2> TAKE n \in Waiting(s, d)'
  <2>1. n \in DOMAIN entries' /\ entries'[n].senderId = s /\ entries'[n].senderId # d
        /\ d \notin entries'[n].deliveredTo
    BY DEF Waiting, NewFor
  <2>2. g[n] \in Waiting(s, d) /\ NumberOf(n)' = NumberOf(g[n])
    BY <1>1, <2>1 DEF Waiting, NewFor, NumberOf
  <2> QED
    BY <2>2
<1>3. \A k \in Waiting(s, d) : \E n \in Waiting(s, d)' : NumberOf(n)' = NumberOf(k)
  <2> TAKE k \in Waiting(s, d)
  <2>1. k \in DOMAIN entries /\ entries[k].senderId = s /\ s # d /\ d \notin entries[k].deliveredTo
    BY DEF Waiting, NewFor
  <2>2. PICK n \in DOMAIN entries' : g[n] = k
    BY <1>1, <2>1
  <2>3. n \in Waiting(s, d)' /\ NumberOf(n)' = NumberOf(k)
    BY <1>1, <2>1, <2>2 DEF Waiting, NewFor, NumberOf
  <2> QED
    BY <2>3
<1>4. /\ received'[d] = received[d] /\ framesToDeliver'[d] = framesToDeliver[d]
      /\ firstDue'[d][s] = firstDue[d][s] /\ life'[s] = life[s]
  BY DEF Leave
<1>5. Sent(s)' = Sent(s)
  BY SentLeave
<1> QED
  BY <1>2, <1>3, <1>4, <1>5, AccountKept

(* Lemma: the account when another device takes its frames: what it erases   *)
(* waits for nobody else.                                                    *)
LEMMA AccountOtherTakes ==
    ASSUME PipelineInv, NEW e \in Device, TakeFromMedium(e), NEW s \in Device, NEW d \in Device,
           d # e, s # d, Present(d), Account(s, d)
    PROVE  Account(s, d)'
<1>0. TypeOK /\ MediumInOrder /\ Workers
  BY DEF PipelineInv
<1>1. PICK g \in [DOMAIN entries' -> {k \in DOMAIN entries : ~TakenByAll(e, entries[k])}] :
          /\ \A k \in DOMAIN entries : ~TakenByAll(e, entries[k]) =>
                 \E n \in DOMAIN entries' : g[n] = k
          /\ \A n \in DOMAIN entries' :
                 /\ entries'[n].senderId = entries[g[n]].senderId
                 /\ entries'[n].frame = entries[g[n]].frame
                 /\ entries'[n].deliveredTo =
                        IF entries[g[n]].senderId # e THEN entries[g[n]].deliveredTo \cup {e}
                                                      ELSE entries[g[n]].deliveredTo
  BY <1>0, EntriesKept
<1>2. \A n \in Waiting(s, d)' : \E k \in Waiting(s, d) : NumberOf(n)' = NumberOf(k)
  <2> TAKE n \in Waiting(s, d)'
  <2>1. n \in DOMAIN entries' /\ entries'[n].senderId = s /\ entries'[n].senderId # d
        /\ d \notin entries'[n].deliveredTo
    BY DEF Waiting, NewFor
  <2>2. g[n] \in Waiting(s, d) /\ NumberOf(n)' = NumberOf(g[n])
    BY <1>1, <2>1 DEF Waiting, NewFor, NumberOf
  <2> QED
    BY <2>2
<1>3. \A k \in Waiting(s, d) : \E n \in Waiting(s, d)' : NumberOf(n)' = NumberOf(k)
  <2> TAKE k \in Waiting(s, d)
  <2>1. k \in DOMAIN entries /\ entries[k].senderId = s /\ s # d /\ d \notin entries[k].deliveredTo
    BY DEF Waiting, NewFor
  <2>2. Present(e)
    BY <1>0 DEF Workers, TakeFromMedium
  <2>3. ~TakenByAll(e, entries[k])
    BY <1>0, <2>1, <2>2, LastToTake DEF Present
  <2>4. PICK n \in DOMAIN entries' : g[n] = k
    BY <1>1, <2>1, <2>3
  <2>5. /\ entries'[n].senderId = s /\ entries'[n].frame = entries[k].frame
        /\ d \notin entries'[n].deliveredTo
    <3>1. /\ entries'[n].senderId = entries[k].senderId /\ entries'[n].frame = entries[k].frame
          /\ \/ entries'[n].deliveredTo = entries[k].deliveredTo \cup {e}
             \/ entries'[n].deliveredTo = entries[k].deliveredTo
      BY <1>1, <2>4
    <3> QED
      BY <2>1, <3>1
  <2>6. n \in Waiting(s, d)' /\ NumberOf(n)' = NumberOf(k)
    BY <2>1, <2>4, <2>5 DEF Waiting, NewFor, NumberOf
  <2> QED
    BY <2>6
<1>4. /\ received'[d] = received[d] /\ framesToDeliver'[d] = framesToDeliver[d]
      /\ firstDue'[d][s] = firstDue[d][s] /\ life'[s] = life[s]
  BY <1>0 DEF TakeFromMedium, history, TypeOK
<1>5. Sent(s)' = Sent(s)
  BY SentSame
<1> QED
  BY <1>2, <1>3, <1>4, <1>5, AccountKept

(* Lemma: what a device takes from the medium moves into its pass, all of it *)
(* and in the order of the medium.                                           *)
LEMMA AccountTakes ==
    ASSUME PipelineInv, NEW d \in Device, TakeFromMedium(d), NEW s \in Device, s # d,
           Account(s, d)
    PROVE  Account(s, d)'
<1>0. TypeOK /\ MediumInOrder /\ Workers
  BY DEF PipelineInv
<1>1. /\ received' = received /\ firstDue' = firstDue /\ life' = life
      /\ Sent(s)' = Sent(s)
  BY SentSame DEF TakeFromMedium, history
<1>2. PICK g \in [DOMAIN framesToDeliver'[d] -> {k \in DOMAIN entries : NewFor(d, entries[k])}] :
          /\ \A m, n \in DOMAIN framesToDeliver'[d] : m < n => g[m] < g[n]
          /\ \A k \in DOMAIN entries : NewFor(d, entries[k]) =>
                 \E n \in DOMAIN framesToDeliver'[d] : g[n] = k
          /\ \A n \in DOMAIN framesToDeliver'[d] : framesToDeliver'[d][n] = entries[g[n]].frame
  BY <1>0, FramesTaken
<1>3. InPass(s, d) = {}
  <2>1. framesToDeliver[d] = <<>>
    BY <1>0 DEF Workers, TakeFromMedium
  <2> QED
    BY <2>1 DEF InPass
<1>4. \A n \in InPass(s, d)' : g[n] \in Waiting(s, d) /\ PassNumber(d, n)' = NumberOf(g[n])
  <2> TAKE n \in InPass(s, d)'
  <2>1. n \in DOMAIN framesToDeliver'[d] /\ framesToDeliver'[d][n].package.from = s
    BY <1>1 DEF InPass, Current
  <2>2. g[n] \in DOMAIN entries /\ NewFor(d, entries[g[n]])
        /\ framesToDeliver'[d][n] = entries[g[n]].frame
    BY <1>2, <2>1
  <2>3. entries[g[n]].senderId = s
    BY <1>0, <2>1, <2>2 DEF MediumInOrder, Current
  <2> QED
    BY <2>2, <2>3 DEF Waiting, PassNumber, NumberOf
<1>5. \A k \in Waiting(s, d) : \E n \in InPass(s, d)' : g[n] = k /\ PassNumber(d, n)' = NumberOf(k)
  <2> TAKE k \in Waiting(s, d)
  <2>1. k \in DOMAIN entries /\ entries[k].senderId = s /\ NewFor(d, entries[k])
    BY DEF Waiting
  <2>2. PICK n \in DOMAIN framesToDeliver'[d] : g[n] = k
    BY <1>2, <2>1
  <2>3. framesToDeliver'[d][n] = entries[k].frame /\ Current(s, entries[k].frame.package)
    BY <1>0, <1>2, <2>1, <2>2 DEF MediumInOrder
  <2>4. n \in InPass(s, d)' /\ PassNumber(d, n)' = NumberOf(k)
    BY <1>1, <2>2, <2>3 DEF InPass, Current, PassNumber, NumberOf
  <2> QED
    BY <2>2, <2>4
<1>6. Waiting(s, d)' = {}
  <2> SUFFICES ASSUME NEW n \in DOMAIN entries', entries'[n].senderId = s,
                      d \notin entries'[n].deliveredTo
               PROVE  FALSE
    BY DEF Waiting, NewFor
  <2>1. PICK f \in [DOMAIN entries' -> {k \in DOMAIN entries : ~TakenByAll(d, entries[k])}] :
            \A k \in DOMAIN entries' :
                /\ entries'[k].senderId = entries[f[k]].senderId
                /\ entries'[k].frame = entries[f[k]].frame
                /\ entries'[k].deliveredTo =
                       IF entries[f[k]].senderId # d THEN entries[f[k]].deliveredTo \cup {d}
                                                     ELSE entries[f[k]].deliveredTo
    BY <1>0, EntriesKept
  <2>2. /\ entries[f[n]].senderId = s
        /\ entries'[n].deliveredTo = entries[f[n]].deliveredTo \cup {d}
    BY <2>1
  <2> QED
    BY <2>2
<1>7. /\ Handed(s, d)' = Handed(s, d)
      /\ \A k : HandedNumber(d, k)' = HandedNumber(d, k)
  BY <1>1 DEF Handed, HandedNumber, Current
<1>8. Ascending(s, d) /\ Due(s, d) /\ Complete(s, d)
  BY DEF Account
<1>9. Ascending(s, d)'
  <2>1. \A i, j \in Handed(s, d)' : i < j => HandedNumber(d, i)' < HandedNumber(d, j)'
    BY <1>7, <1>8 DEF Ascending
  <2>2. ASSUME NEW i \in InPass(s, d)', NEW j \in InPass(s, d)', i < j
        PROVE  PassNumber(d, i)' < PassNumber(d, j)'
    <3>1. i \in DOMAIN framesToDeliver'[d] /\ j \in DOMAIN framesToDeliver'[d]
      BY DEF InPass
    <3>2. g[i] < g[j]
      BY <1>2, <2>2, <3>1
    <3>3. /\ g[i] \in DOMAIN entries /\ entries[g[i]].senderId = s
          /\ g[j] \in DOMAIN entries /\ entries[g[j]].senderId = s
      BY <1>4 DEF Waiting
    <3>4. NumberOf(g[i]) < NumberOf(g[j])
      BY <1>0, <3>2, <3>3 DEF MediumInOrder
    <3> QED
      BY <1>4, <3>4
  <2>3. \A i \in Handed(s, d)', j \in InPass(s, d)' : HandedNumber(d, i)' < PassNumber(d, j)'
    BY <1>4, <1>7, <1>8 DEF Ascending
  <2> QED
    BY <1>6, <2>1, <2>2, <2>3 DEF Ascending
<1>10. Due(s, d)'
  <2>1. \A n \in InPass(s, d)' : PassNumber(d, n)' \in firstDue[d][s]..Sent(s)
    BY <1>4, <1>8 DEF Due
  <2>2. /\ firstDue[d][s] <= Sent(s) + 1
        /\ \A k \in Handed(s, d)' : HandedNumber(d, k)' \in firstDue[d][s]..Sent(s)
    BY <1>7, <1>8 DEF Due
  <2> QED
    BY <1>1, <1>6, <2>1, <2>2 DEF Due
<1>11. Complete(s, d)'
  <2>1. ASSUME NEW n \in firstDue[d][s]..Sent(s)
        PROVE  \/ \E k \in Handed(s, d)' : HandedNumber(d, k)' = n
               \/ \E k \in InPass(s, d)' : PassNumber(d, k)' = n
    <3>1. CASE \E k \in Handed(s, d) : HandedNumber(d, k) = n
      BY <1>7, <3>1
    <3>2. CASE \E k \in Waiting(s, d) : NumberOf(k) = n
      BY <1>5, <3>2
    <3> QED
      BY <1>3, <1>8, <3>1, <3>2 DEF Complete
  <2> QED
    BY <1>1, <2>1 DEF Complete
<1> QED
  BY <1>9, <1>10, <1>11 DEF Account

(* Lemma: the account when another device puts a frame on the medium.        *)
LEMMA AccountOtherPuts ==
    ASSUME PipelineInv, NEW e \in Device, PutOnMedium(e), NEW s \in Device, NEW d \in Device,
           s # e, Account(s, d)
    PROVE  Account(s, d)'
<1>0. TypeOK /\ QueuesInOrder
  BY DEF PipelineInv
<1>1. /\ received'[d] = received[d] /\ framesToDeliver'[d] = framesToDeliver[d]
      /\ firstDue'[d][s] = firstDue[d][s] /\ life'[s] = life[s] /\ Sent(s)' = Sent(s)
  BY SentPut DEF PutOnMedium, history
<1> DEFINE entry == [senderId |-> e, frame |-> Head(framesWithCrc[e]), deliveredTo |-> {}]
<1>2. entry \in Entry /\ entry.senderId # s
  BY <1>0, QueuePut DEF Entry
<1> HIDE DEF entry
<1>3. CASE entries' = entries
  BY <1>1, <1>3, WaitingSame
<1>4. CASE entries' = Append(entries, entry)
  <2>1. entries \in Seq(Entry)
    BY <1>0 DEF TypeOK
  <2>2. \A k \in DOMAIN entries : k \in DOMAIN entries' /\ entries'[k] = entries[k]
    BY <1>2, <1>4, <2>1, Appended, SeqIs
  <2>3. \A k \in DOMAIN entries' :
            \/ k \in DOMAIN entries /\ entries'[k] = entries[k]
            \/ entries'[k] = entry
    BY <1>2, <1>4, <2>1, AppendedAt
  <2>4. \A n \in Waiting(s, d)' : n \in Waiting(s, d) /\ NumberOf(n)' = NumberOf(n)
    BY <1>2, <2>3 DEF Waiting, NewFor, NumberOf
  <2>5. \A n \in Waiting(s, d) : n \in Waiting(s, d)' /\ NumberOf(n)' = NumberOf(n)
    BY <2>2 DEF Waiting, NewFor, NumberOf
  <2> QED
    BY <1>1, <2>4, <2>5, AccountKept
<1> QED
  BY <1>3, <1>4 DEF PutOnMedium, entry

(* Lemma: the account of the sender that puts a frame on the medium: one     *)
(* more waits, behind all the others, and it carries the next number.        *)
LEMMA AccountPuts ==
    ASSUME PipelineInv, NEW s \in Device, PutOnMedium(s), physicalWorker'[s] # "stopped",
           NEW d \in Device, s # d, Account(s, d)
    PROVE  Account(s, d)'
<1>0. TypeOK /\ QueuesInOrder
  BY DEF PipelineInv
<1>1. /\ received' = received /\ framesToDeliver' = framesToDeliver
      /\ firstDue' = firstDue /\ life' = life /\ Sent(s)' = Sent(s) + 1
  BY SentPut DEF PutOnMedium, history
<1> DEFINE entry == [senderId |-> s, frame |-> Head(framesWithCrc[s]), deliveredTo |-> {}]
<1>2. /\ entry \in Entry /\ entry.senderId = s /\ entry.deliveredTo = {}
      /\ entry.frame.package.number = Sent(s) + 1
  BY <1>0, QueuePut DEF Entry
<1>3. entries' = Append(entries, entry)
  <2>1. physicalWorker'[s] = "stopped" \/ EnsureEncodable(Head(framesWithCrc[s]))
    BY <1>0 DEF PutOnMedium, TypeOK
  <2> QED
    BY <2>1 DEF PutOnMedium
<1> HIDE DEF entry
<1>n. PICK new \in Nat : new = Len(entries) + 1
  BY <1>0 DEF TypeOK
<1>4. Sent(s) \in Nat /\ firstDue[d][s] \in Nat
  BY <1>0, SentType DEF TypeOK
<1>5. /\ \A k \in DOMAIN entries : k \in DOMAIN entries' /\ entries'[k] = entries[k]
      /\ new \in DOMAIN entries' /\ entries'[new] = entry
      /\ \A k \in DOMAIN entries' :
             \/ k \in DOMAIN entries /\ entries'[k] = entries[k]
             \/ k = new /\ entries'[k] = entry
  <2>1. entries \in Seq(Entry)
    BY <1>0 DEF TypeOK
  <2>2. \A k \in DOMAIN entries' :
            \/ k \in DOMAIN entries /\ entries'[k] = entries[k]
            \/ k = new /\ entries'[k] = entry
    BY <1>2, <1>3, <1>n, <2>1, AppendedAt
  <2> QED
    BY <1>2, <1>3, <1>n, <2>1, <2>2, Appended, SeqIs
<1>6. \A n \in Waiting(s, d)' : \/ n \in Waiting(s, d) /\ NumberOf(n)' = NumberOf(n)
                                \/ NumberOf(n)' = Sent(s) + 1
  BY <1>2, <1>5 DEF Waiting, NewFor, NumberOf
<1>7. \A n \in Waiting(s, d) : n \in Waiting(s, d)' /\ NumberOf(n)' = NumberOf(n)
  BY <1>5 DEF Waiting, NewFor, NumberOf
<1>8. new \in Waiting(s, d)' /\ NumberOf(new)' = Sent(s) + 1
  BY <1>2, <1>5 DEF Waiting, NewFor, NumberOf
<1>9. /\ Handed(s, d)' = Handed(s, d) /\ InPass(s, d)' = InPass(s, d)
      /\ \A k : HandedNumber(d, k)' = HandedNumber(d, k)
      /\ \A k : PassNumber(d, k)' = PassNumber(d, k)
  BY <1>1 DEF Handed, InPass, HandedNumber, PassNumber, Current
<1>10. Ascending(s, d) /\ Due(s, d) /\ Complete(s, d)
  BY DEF Account
<1>11. /\ \A k \in Handed(s, d) : HandedNumber(d, k) \in firstDue[d][s]..Sent(s)
       /\ \A k \in InPass(s, d) : PassNumber(d, k) \in firstDue[d][s]..Sent(s)
       /\ \A k \in Waiting(s, d) : NumberOf(k) \in firstDue[d][s]..Sent(s)
       /\ firstDue[d][s] <= Sent(s) + 1
  BY <1>10 DEF Due
<1>12. Ascending(s, d)'
  <2>1. /\ \A i, j \in Handed(s, d)' : i < j => HandedNumber(d, i)' < HandedNumber(d, j)'
        /\ \A i, j \in InPass(s, d)' : i < j => PassNumber(d, i)' < PassNumber(d, j)'
        /\ \A i \in Handed(s, d)', j \in InPass(s, d)' : HandedNumber(d, i)' < PassNumber(d, j)'
    BY <1>9, <1>10 DEF Ascending
  <2>2. ASSUME NEW i \in Handed(s, d)', NEW j \in Waiting(s, d)'
        PROVE  HandedNumber(d, i)' < NumberOf(j)'
    <3>1. i \in Handed(s, d) /\ HandedNumber(d, i)' = HandedNumber(d, i)
      BY <1>9
    <3>2. CASE j \in Waiting(s, d) /\ NumberOf(j)' = NumberOf(j)
      BY <1>10, <3>1, <3>2 DEF Ascending
    <3>3. CASE NumberOf(j)' = Sent(s) + 1
      BY <1>4, <1>11, <3>1, <3>3
    <3> QED
      BY <1>6, <3>2, <3>3
  <2>3. ASSUME NEW i \in InPass(s, d)', NEW j \in Waiting(s, d)'
        PROVE  PassNumber(d, i)' < NumberOf(j)'
    <3>1. i \in InPass(s, d) /\ PassNumber(d, i)' = PassNumber(d, i)
      BY <1>9
    <3>2. CASE j \in Waiting(s, d) /\ NumberOf(j)' = NumberOf(j)
      BY <1>10, <3>1, <3>2 DEF Ascending
    <3>3. CASE NumberOf(j)' = Sent(s) + 1
      BY <1>4, <1>11, <3>1, <3>3
    <3> QED
      BY <1>6, <3>2, <3>3
  <2> QED
    BY <2>1, <2>2, <2>3 DEF Ascending
<1>13. Due(s, d)'
  <2>1. firstDue[d][s]..Sent(s) \subseteq firstDue[d][s]..(Sent(s) + 1)
        /\ Sent(s) + 1 \in firstDue[d][s]..(Sent(s) + 1)
        /\ firstDue[d][s] <= (Sent(s) + 1) + 1
    BY <1>4, <1>11
  <2>2. /\ \A k \in Handed(s, d)' : HandedNumber(d, k)' \in firstDue[d][s]..(Sent(s) + 1)
        /\ \A k \in InPass(s, d)' : PassNumber(d, k)' \in firstDue[d][s]..(Sent(s) + 1)
    BY <1>9, <1>11, <2>1
  <2>3. \A k \in Waiting(s, d)' : NumberOf(k)' \in firstDue[d][s]..(Sent(s) + 1)
    BY <1>6, <1>11, <2>1
  <2> QED
    BY <1>1, <2>1, <2>2, <2>3 DEF Due
<1>14. Complete(s, d)'
  <2>1. ASSUME NEW n \in firstDue[d][s]..(Sent(s) + 1)
        PROVE  \/ \E k \in Handed(s, d)' : HandedNumber(d, k)' = n
               \/ \E k \in InPass(s, d)' : PassNumber(d, k)' = n
               \/ \E k \in Waiting(s, d)' : NumberOf(k)' = n
    <3>1. n = Sent(s) + 1 \/ n \in firstDue[d][s]..Sent(s)
      BY <1>4
    <3>2. CASE n = Sent(s) + 1
      BY <1>8, <3>2
    <3>3. CASE \E k \in Handed(s, d) : HandedNumber(d, k) = n
      BY <1>9, <3>3
    <3>4. CASE \E k \in InPass(s, d) : PassNumber(d, k) = n
      BY <1>9, <3>4
    <3>5. CASE \E k \in Waiting(s, d) : NumberOf(k) = n
      BY <1>7, <3>5
    <3> QED
      BY <1>10, <3>1, <3>2, <3>3, <3>4, <3>5 DEF Complete
  <2> QED
    BY <1>1, <2>1 DEF Complete
<1> QED
  BY <1>12, <1>13, <1>14 DEF Account

(* Lemma: what a device hands up moves from its pass to what it has received. *)
LEMMA AccountDelivers ==
    ASSUME PipelineInv, NEW d \in Device, Deliver(d), NEW s \in Device, s # d, Account(s, d)
    PROVE  Account(s, d)'
<1>0. TypeOK /\ Workers
  BY DEF PipelineInv
<1>1. /\ entries' = entries /\ firstDue' = firstDue /\ life' = life /\ Sent(s)' = Sent(s)
  BY SentSame DEF Deliver, medium
<1> DEFINE fs == framesToDeliver[d]
<1>3. PICK new \in Nat : new = Len(received[d]) + 1
  BY <1>0 DEF TypeOK
<1>2. /\ 1 \in DOMAIN fs
      /\ \A k \in DOMAIN framesToDeliver'[d] :
             k + 1 \in DOMAIN fs /\ k \in Nat /\ k > 0 /\ framesToDeliver'[d][k] = fs[k + 1]
      /\ \A k \in DOMAIN received'[d] :
             \/ k \in DOMAIN received[d] /\ received'[d][k] = received[d][k]
             \/ k = new /\ received'[d][k] = fs[1].package
      /\ \A k \in DOMAIN received[d] :
             k \in DOMAIN received'[d] /\ received'[d][k] = received[d][k] /\ k \in Nat /\ k < new
      /\ new \in DOMAIN received'[d] /\ received'[d][new] = fs[1].package
      /\ \A k \in DOMAIN fs : k # 1 =>
             k - 1 \in DOMAIN framesToDeliver'[d] /\ framesToDeliver'[d][k - 1] = fs[k]
  <2>1. Len(received[d]) \in Nat /\ \A k \in Nat : k <= Len(received[d]) => k < new
    <3>1. Len(received[d]) \in Nat
      BY <1>0 DEF TypeOK
    <3> QED
      BY <1>3, <3>1
  <2> QED
    BY <1>0, <1>3, <2>1, HandUp
<1>4. /\ Waiting(s, d)' = Waiting(s, d) /\ \A k : NumberOf(k)' = NumberOf(k)
      /\ \A p : Current(s, p)' <=> Current(s, p)
  BY <1>1 DEF Waiting, NumberOf, NewFor, Current
<1>5. \A k \in Handed(s, d)' :
          \/ k \in Handed(s, d) /\ HandedNumber(d, k)' = HandedNumber(d, k)
          \/ k = new /\ 1 \in InPass(s, d) /\ HandedNumber(d, k)' = PassNumber(d, 1)
  BY <1>1, <1>2 DEF Handed, InPass, HandedNumber, PassNumber, Current
<1>6. \A k \in Handed(s, d) :
          k \in Handed(s, d)' /\ HandedNumber(d, k)' = HandedNumber(d, k) /\ k < new /\ k \in Nat
  BY <1>1, <1>2 DEF Handed, HandedNumber, Current
<1>7. \A k \in InPass(s, d)' :
          /\ k \in Nat /\ k > 0 /\ k + 1 \in InPass(s, d)
          /\ PassNumber(d, k)' = PassNumber(d, k + 1)
  BY <1>1, <1>2 DEF InPass, PassNumber, Current
<1>8. \A k \in InPass(s, d) :
          \/ k = 1 /\ new \in Handed(s, d)' /\ HandedNumber(d, new)' = PassNumber(d, k)
          \/ k - 1 \in InPass(s, d)' /\ PassNumber(d, k - 1)' = PassNumber(d, k)
  BY <1>1, <1>2 DEF Handed, InPass, HandedNumber, PassNumber, Current
<1>9. Ascending(s, d) /\ Due(s, d) /\ Complete(s, d)
  BY DEF Account
<1>10. Ascending(s, d)'
  <2>1. ASSUME NEW i \in Handed(s, d)', NEW j \in Handed(s, d)', i < j
        PROVE  HandedNumber(d, i)' < HandedNumber(d, j)'
    <3>1. CASE i \in Handed(s, d) /\ j \in Handed(s, d)
      BY <1>6, <1>9, <2>1, <3>1 DEF Ascending
    <3>2. CASE i \in Handed(s, d) /\ j = new /\ 1 \in InPass(s, d)
               /\ HandedNumber(d, j)' = PassNumber(d, 1)
      BY <1>6, <1>9, <3>2 DEF Ascending
    <3>3. CASE i = new /\ (j = new \/ j \in Handed(s, d))
      BY <1>3, <1>6, <2>1, <3>3
    <3> QED
      BY <1>5, <3>1, <3>2, <3>3
  <2>2. ASSUME NEW i \in InPass(s, d)', NEW j \in InPass(s, d)', i < j
        PROVE  PassNumber(d, i)' < PassNumber(d, j)'
    <3>1. i + 1 < j + 1
      BY <1>7, <2>2
    <3> QED
      BY <1>7, <1>9, <3>1 DEF Ascending
  <2>3. ASSUME NEW i \in Handed(s, d)', NEW j \in InPass(s, d)'
        PROVE  HandedNumber(d, i)' < PassNumber(d, j)'
    <3>1. j + 1 \in InPass(s, d) /\ 1 < j + 1 /\ PassNumber(d, j)' = PassNumber(d, j + 1)
      BY <1>7
    <3>2. CASE i \in Handed(s, d) /\ HandedNumber(d, i)' = HandedNumber(d, i)
      BY <1>9, <3>1, <3>2 DEF Ascending
    <3>3. CASE 1 \in InPass(s, d) /\ HandedNumber(d, i)' = PassNumber(d, 1)
      BY <1>9, <3>1, <3>3 DEF Ascending
    <3> QED
      BY <1>5, <3>2, <3>3
  <2>4. ASSUME NEW i \in Handed(s, d)', NEW j \in Waiting(s, d)'
        PROVE  HandedNumber(d, i)' < NumberOf(j)'
    BY <1>4, <1>5, <1>9 DEF Ascending
  <2>5. ASSUME NEW i \in InPass(s, d)', NEW j \in Waiting(s, d)'
        PROVE  PassNumber(d, i)' < NumberOf(j)'
    BY <1>4, <1>7, <1>9 DEF Ascending
  <2> QED
    BY <2>1, <2>2, <2>3, <2>4, <2>5 DEF Ascending
<1>11. Due(s, d)'
  <2>1. \A k \in Handed(s, d)' : HandedNumber(d, k)' \in firstDue[d][s]..Sent(s)
    BY <1>5, <1>9 DEF Due
  <2>2. \A k \in InPass(s, d)' : PassNumber(d, k)' \in firstDue[d][s]..Sent(s)
    BY <1>7, <1>9 DEF Due
  <2>3. \A k \in Waiting(s, d)' : NumberOf(k)' \in firstDue[d][s]..Sent(s)
    BY <1>4, <1>9 DEF Due
  <2>4. firstDue[d][s] <= Sent(s) + 1
    BY <1>9 DEF Due
  <2> QED
    BY <1>1, <2>1, <2>2, <2>3, <2>4 DEF Due
<1>12. Complete(s, d)'
  <2>1. ASSUME NEW n \in firstDue[d][s]..Sent(s)
        PROVE  \/ \E k \in Handed(s, d)' : HandedNumber(d, k)' = n
               \/ \E k \in InPass(s, d)' : PassNumber(d, k)' = n
               \/ \E k \in Waiting(s, d)' : NumberOf(k)' = n
    <3>1. CASE \E k \in Handed(s, d) : HandedNumber(d, k) = n
      BY <1>6, <3>1
    <3>2. CASE \E k \in InPass(s, d) : PassNumber(d, k) = n
      BY <1>8, <3>2
    <3>3. CASE \E k \in Waiting(s, d) : NumberOf(k) = n
      BY <1>4, <3>3
    <3> QED
      BY <1>9, <3>1, <3>2, <3>3 DEF Complete
  <2> QED
    BY <1>1, <2>1 DEF Complete
<1> QED
  BY <1>10, <1>11, <1>12 DEF Account

(* Lemma: two devices that can reach each other after a step could before,   *)
(* unless the step has constructed one of them.                              *)
LEMMA ConnectedBefore ==
    ASSUME PipelineInv, [Next]_vars, NEW s \in Device, NEW d \in Device, Connected(s, d)',
           ~Join(s), ~Join(d)
    PROVE  /\ Connected(s, d) /\ ~Leave(s) /\ ~Leave(d)
           /\ ~DeliverFails(s) /\ ~DeliverFails(d)
<1>0. TypeOK
  BY DEF PipelineInv
<1>1. /\ s # d /\ s \in participants' /\ d \in participants'
      /\ physicalWorker'[s] # "stopped" /\ physicalWorker'[d] # "stopped"
  BY DEF Connected, Present
<1>2. \A e \in Device : e \in participants' /\ ~Join(e) => e \in participants /\ ~Leave(e)
  <2> SUFFICES ASSUME NEW e \in Device, e \in participants', ~Join(e)
               PROVE  e \in participants /\ ~Leave(e)
    OBVIOUS
  <2>1. ~Leave(e)
    BY DEF Leave
  <2>2. ASSUME NEW a \in Device, Join(a) PROVE e \in participants
    <3>1. a # e /\ participants' = participants \cup {a}
      BY <2>2 DEF Join
    <3> QED
      BY <3>1
  <2>3. ASSUME NEW a \in Device, Leave(a) PROVE e \in participants
    BY <2>3 DEF Leave
  <2>4. ASSUME NEW a \in Device,
               \/ (\E size \in PayloadSizes : Push(a, size)) \/ Serialize(a) \/ Encode(a)
               \/ PhysicalLayer(a)
        PROVE  e \in participants
    BY <2>4 DEF PhysicalLayer, Push, Serialize, Encode, BeginPass, PutOnMedium, TakeFromMedium,
                Deliver, DeliverFails, medium
  <2>5. CASE UNCHANGED vars
    BY <2>1, <2>5 DEF vars, medium
  <2> QED
    BY <2>1, <2>2, <2>3, <2>4, <2>5 DEF Next
<1>3. ASSUME NEW e \in Device, physicalWorker'[e] # "stopped", ~Join(e), ~Leave(e)
      PROVE  physicalWorker[e] # "stopped" /\ ~DeliverFails(e)
  <2>1. ~DeliverFails(e)
    BY <1>0, <1>3 DEF DeliverFails, TypeOK
  <2>2. CASE UNCHANGED vars
    BY <1>3, <2>1, <2>2 DEF vars
  <2>3. ASSUME NEW a \in Device, Join(a) \/ Leave(a)
        PROVE  physicalWorker[e] # "stopped"
    <3>1. a # e
      BY <1>3, <2>3
    <3>2. physicalWorker'[e] = physicalWorker[e]
      BY <1>0, <2>3, <3>1 DEF Join, Leave, TypeOK
    <3> QED
      BY <1>3, <3>2
  <2>4. ASSUME NEW a \in Device,
               (\E size \in PayloadSizes : Push(a, size)) \/ Serialize(a) \/ Encode(a)
        PROVE  physicalWorker[e] # "stopped"
    BY <1>3, <2>4 DEF Push, Serialize, Encode
  <2>5. ASSUME NEW a \in Device, PhysicalLayer(a)
        PROVE  physicalWorker[e] # "stopped"
    <3>1. physicalWorker[a] # "stopped" /\ (e # a => physicalWorker'[e] = physicalWorker[e])
      BY <1>0, <2>5 DEF PhysicalLayer, BeginPass, PutOnMedium, TakeFromMedium, Deliver,
                        DeliverFails, TypeOK
    <3> QED
      BY <1>3, <3>1
  <2> QED
    BY <2>1, <2>2, <2>3, <2>4, <2>5 DEF Next
<1>4. Present(s) /\ Present(d) /\ ~Leave(s) /\ ~Leave(d)
  BY <1>1, <1>2 DEF Present
<1> QED
  BY <1>1, <1>3, <1>4 DEF Connected

(* Lemma: the accounts are kept.                                             *)
LEMMA AccountedStep == PipelineInv /\ [Next]_vars => Accounted'
<1> SUFFICES ASSUME PipelineInv, [Next]_vars, NEW s \in Device, NEW d \in Device,
                    Connected(s, d)'
             PROVE  Account(s, d)'
  BY DEF Accounted
<1>0. TypeOK /\ Accounted
  BY DEF PipelineInv
<1>1. s # d /\ physicalWorker'[s] # "stopped"
  BY DEF Connected
<1>2. CASE Join(s)
  BY <1>1, <1>2, AccountWithNew
<1>3. CASE Join(d)
  <2>1. s \in participants /\ physicalWorker[s] # "stopped"
    BY <1>0, <1>1, <1>3 DEF Connected, Present, Join, TypeOK
  <2> QED
    BY <1>1, <1>3, <2>1, AccountOfNew DEF Present
<1>4. CASE ~Join(s) /\ ~Join(d)
  <2>1. Connected(s, d) /\ ~Leave(s) /\ ~Leave(d) /\ ~DeliverFails(s) /\ ~DeliverFails(d)
    BY <1>4, ConnectedBefore
  <2>2. Account(s, d) /\ Present(s) /\ Present(d)
    BY <1>0, <2>1 DEF Accounted, Connected
  <2>3. CASE UNCHANGED vars
    <3>1. Sent(s)' = Sent(s)
      BY <2>3 DEF vars, queues, history, Sent, Queued
    <3> QED
      BY <2>2, <2>3, <3>1, WaitingSame DEF vars, medium, history
  <2>4. ASSUME NEW e \in Device, Join(e) PROVE Account(s, d)'
    <3>1. e # s /\ e # d
      BY <1>4, <2>4
    <3>2. /\ entries' = entries /\ received'[d] = received[d]
          /\ framesToDeliver'[d] = framesToDeliver[d]
          /\ firstDue'[d][s] = firstDue[d][s] /\ life'[s] = life[s]
      BY <1>0, <2>4, <3>1 DEF Join, TypeOK
    <3> QED
      BY <2>2, <2>4, <3>2, SentSame, WaitingSame
  <2>5. ASSUME NEW e \in Device, Leave(e) PROVE Account(s, d)'
    BY <2>1, <2>2, <2>5, AccountOtherLeaves
  <2>6. ASSUME NEW e \in Device,
               \/ (\E size \in PayloadSizes : Push(e, size)) \/ Serialize(e) \/ Encode(e)
               \/ BeginPass(e)
        PROVE  Account(s, d)'
    <3>1. /\ entries' = entries /\ received' = received /\ framesToDeliver' = framesToDeliver
          /\ firstDue' = firstDue /\ life' = life
      BY <2>6 DEF Push, Serialize, Encode, BeginPass, medium, history
    <3> QED
      BY <2>2, <2>6, <3>1, SentSame, WaitingSame
  <2>7. ASSUME NEW e \in Device, PutOnMedium(e) PROVE Account(s, d)'
    BY <1>1, <2>2, <2>7, AccountOtherPuts, AccountPuts
  <2>8. ASSUME NEW e \in Device, TakeFromMedium(e) PROVE Account(s, d)'
    BY <1>1, <2>2, <2>8, AccountOtherTakes, AccountTakes
  <2>9. ASSUME NEW e \in Device, Deliver(e) PROVE Account(s, d)'
    <3>1. CASE e = d
      BY <1>1, <2>2, <2>9, <3>1, AccountDelivers
    <3>2. CASE e # d
      <4>1. /\ entries' = entries /\ received'[d] = received[d]
            /\ framesToDeliver'[d] = framesToDeliver[d] /\ firstDue' = firstDue /\ life' = life
        BY <1>0, <2>9, <3>2 DEF Deliver, medium, TypeOK
      <4> QED
        BY <2>2, <2>9, <4>1, SentSame, WaitingSame
    <3> QED
      BY <3>1, <3>2
  <2>10. ASSUME NEW e \in Device, DeliverFails(e) PROVE Account(s, d)'
    <3>1. e # d
      BY <2>1, <2>10
    <3>2. /\ entries' = entries /\ received'[d] = received[d]
          /\ framesToDeliver'[d] = framesToDeliver[d] /\ firstDue' = firstDue /\ life' = life
      BY <1>0, <2>10, <3>1 DEF DeliverFails, medium, TypeOK
    <3> QED
      BY <2>2, <2>10, <3>2, SentSame, WaitingSame
  <2> QED
    BY <2>3, <2>4, <2>5, <2>6, <2>7, <2>8, <2>9, <2>10 DEF Next, PhysicalLayer
<1> QED
  BY <1>2, <1>3, <1>4

-----------------------------------------------------------------------------
(* The invariant *)

(* Lemma: the invariant holds before any device exists.                      *)
LEMMA PipelineInvInit == Init => PipelineInv
<1> SUFFICES ASSUME Init PROVE PipelineInv
  OBVIOUS
<1>0. \A T : <<>> \in Seq(T) /\ DOMAIN <<>> = {} /\ Len(<<>>) = 0
  OBVIOUS
<1>1. TypeOK
  BY <1>0, PipelineAssumption DEF Init, TypeOK
<1>2. Workers
  BY DEF Init, Workers, Present
<1>3. Sizes
  BY <1>0 DEF Init, Sizes
<1>4. \A s \in Device : /\ pushed[s] = 0 /\ outgoingPackages[s] = <<>>
                        /\ outgoingFrames[s] = <<>> /\ framesWithCrc[s] = <<>>
  BY DEF Init
<1>5. QueuesInOrder
  <2> SUFFICES ASSUME NEW s \in Device PROVE QueueInOrder(s)
    BY DEF QueuesInOrder
  <2>1. /\ Len(outgoingPackages[s]) = 0 /\ Len(outgoingFrames[s]) = 0
        /\ Len(framesWithCrc[s]) = 0
    BY <1>0, <1>4, Zenon
  <2>2. Queued(s) <= pushed[s]
    BY <1>4, <2>1 DEF Queued
  <2>3. DOMAIN Carried(<<>>) = {}
    BY <1>0 DEF Carried
  <2>4. \A before : Numbered(s, Carried(<<>>), before) /\ Numbered(s, <<>>, before)
    BY <1>0, <2>3 DEF Numbered
  <2> QED
    BY <1>4, <2>2, <2>4 DEF QueueInOrder
<1>6. MediumInOrder /\ NoGap
  BY <1>0 DEF Init, MediumInOrder, NoGap
<1>7. PastLives
  BY <1>0 DEF Init, PastLives
<1>8. Accounted
  BY DEF Init, Accounted, Connected, Present
<1> QED
  BY <1>1, <1>2, <1>3, <1>5, <1>6, <1>7, <1>8 DEF PipelineInv

(* The types, and that each package is where the invariant says.             *)
THEOREM PipelineSafe == Spec => []PipelineInv
<1>1. PipelineInv /\ [Next]_vars => PipelineInv'
  BY PipelineTypeStep, WorkersStep, SizesStep, QueuesStep, MediumStep, PastLivesStep,
     AccountedStep DEF PipelineInv
<1> QED
  BY <1>1, PipelineInvInit, PTL DEF Spec

(* TypeOK is always true: above all, an entry of the medium is marked as     *)
(* taken by devices that are on the medium.                                  *)
THEOREM PipelineTypeCorrect == Spec => []TypeOK
<1>1. PipelineInv => TypeOK
  BY DEF PipelineInv
<1> QED
  BY <1>1, PipelineSafe, PTL

-----------------------------------------------------------------------------
(* One sequence behind the other *)

(* Lemma: the elements of two sequences one behind the other.                *)
LEMMA Concatenated ==
    ASSUME NEW T, NEW a \in Seq(T), NEW b \in Seq(T)
    PROVE  /\ a \o b \in Seq(T) /\ Len(a \o b) = Len(a) + Len(b)
           /\ \A k \in DOMAIN a : k \in DOMAIN (a \o b) /\ (a \o b)[k] = a[k]
           /\ \A k \in DOMAIN b : Len(a) + k \in DOMAIN (a \o b) /\ (a \o b)[Len(a) + k] = b[k]
           /\ \A k \in DOMAIN (a \o b) :
                  \/ k \in DOMAIN a /\ (a \o b)[k] = a[k]
                  \/ k - Len(a) \in DOMAIN b /\ (a \o b)[k] = b[k - Len(a)] /\ Len(a) < k
OBVIOUS

(* Lemma: three sequences one behind the other, whichever two come first.    *)
LEMMA ConcatenatedThrice ==
    ASSUME NEW T, NEW a \in Seq(T), NEW b \in Seq(T), NEW c \in Seq(T)
    PROVE  a \o (b \o c) = (a \o b) \o c
<1> DEFINE x == a \o (b \o c)
           y == (a \o b) \o c
<1>1. /\ x \in Seq(T) /\ y \in Seq(T) /\ Len(x) = Len(y)
  OBVIOUS
<1>2. ASSUME NEW k \in 1..Len(x) PROVE x[k] = y[k]
  OBVIOUS
<1>3. x = [k \in 1..Len(x) |-> x[k]] /\ y = [k \in 1..Len(y) |-> y[k]]
  BY <1>1, AsFunction
<1> HIDE DEF x, y
<1>4. x = y
  BY <1>1, <1>2, <1>3
<1> QED
  BY <1>4 DEF x, y

(* One sequence behind the other, for the provers to take as it is.          *)
Joined(a, b) == a \o b

(* Lemma: of three sequences, again.                                         *)
LEMMA JoinedThrice ==
    ASSUME NEW T, NEW a \in Seq(T), NEW b \in Seq(T), NEW c \in Seq(T)
    PROVE  Joined(a, Joined(b, c)) = Joined(Joined(a, b), c)
BY ConcatenatedThrice DEF Joined

(* Lemma: the same of six sequences.                                         *)
LEMMA JoinedAll ==
    ASSUME NEW T, NEW a \in Seq(T), NEW b \in Seq(T), NEW c \in Seq(T),
           NEW d \in Seq(T), NEW e \in Seq(T), NEW f \in Seq(T)
    PROVE  Joined(a, Joined(Joined(Joined(Joined(b, c), d), e), f))
               = Joined(Joined(Joined(Joined(Joined(a, b), c), d), e), f)
<1>1. /\ Joined(b, c) \in Seq(T) /\ Joined(Joined(b, c), d) \in Seq(T)
      /\ Joined(Joined(Joined(b, c), d), e) \in Seq(T)
  BY DEF Joined
<1> QED
  BY <1>1, JoinedThrice

Numbers(q) == {q[k].number : k \in DOMAIN q}
InOrder(q) == \A j, k \in DOMAIN q : j < k => q[j].number < q[k].number

(* The packages of q are numbered from one number to another.                *)
Run(q, first, last) ==
    /\ Len(q) = last - first + 1
    /\ \A k \in DOMAIN q : q[k].number = first + k - 1

(* Lemma: packages in order behind others that have lower numbers.           *)
LEMMA InOrderBehind ==
    ASSUME NEW a \in Seq(Package), NEW b \in Seq(Package), InOrder(a), InOrder(b),
           \A m \in Numbers(a), n \in Numbers(b) : m < n
    PROVE  /\ a \o b \in Seq(Package) /\ InOrder(a \o b)
           /\ Numbers(a \o b) = Numbers(a) \cup Numbers(b)
<1> DEFINE q == a \o b
<1>1. /\ q \in Seq(Package)
      /\ \A k \in DOMAIN a : k \in DOMAIN q /\ q[k] = a[k]
      /\ \A k \in DOMAIN b : Len(a) + k \in DOMAIN q /\ q[Len(a) + k] = b[k]
      /\ \A k \in DOMAIN q :
             \/ k \in DOMAIN a /\ q[k] = a[k]
             \/ k - Len(a) \in DOMAIN b /\ q[k] = b[k - Len(a)] /\ Len(a) < k
  BY Concatenated
<1>2. /\ DOMAIN q = 1..Len(q) /\ DOMAIN a = 1..Len(a) /\ Len(a) \in Nat /\ Len(q) \in Nat
  BY <1>1, SeqIs
<1> HIDE DEF q
<1>3. ASSUME NEW j \in DOMAIN q, NEW k \in DOMAIN q, j < k PROVE q[j].number < q[k].number
  <2>1. j \in Int /\ k \in Int
    BY <1>2
  <2>2. CASE j \in DOMAIN a /\ k \in DOMAIN a /\ q[j] = a[j] /\ q[k] = a[k]
    BY <1>3, <2>2 DEF InOrder
  <2>3. CASE /\ j \in DOMAIN a /\ q[j] = a[j]
             /\ k - Len(a) \in DOMAIN b /\ q[k] = b[k - Len(a)]
    BY <2>3 DEF Numbers
  <2>4. CASE /\ j - Len(a) \in DOMAIN b /\ q[j] = b[j - Len(a)]
             /\ k - Len(a) \in DOMAIN b /\ q[k] = b[k - Len(a)]
    <3>1. j - Len(a) < k - Len(a)
      BY <1>2, <1>3, <2>1
    <3> QED
      BY <2>4, <3>1 DEF InOrder
  <2>5. ~(k \in DOMAIN a /\ Len(a) < j)
    BY <1>2, <1>3, <2>1
  <2> QED
    BY <1>1, <2>2, <2>3, <2>4, <2>5
<1>4. Numbers(q) = Numbers(a) \cup Numbers(b)
  BY <1>1 DEF Numbers
<1>5. InOrder(q)
  BY <1>3 DEF InOrder
<1> QED
  BY <1>1, <1>4, <1>5 DEF q

(* Lemma: packages in order with all numbers of an interval are a run.       *)
LEMMA RunOf ==
    ASSUME NEW q \in Seq(Package), InOrder(q), NEW first \in Int, NEW last \in Int,
           first <= last + 1, Numbers(q) = first..last
    PROVE  Run(q, first, last)
<1> DEFINE f == [k \in 1..Len(q) |-> q[k].number]
<1>1. DOMAIN q = 1..Len(q) /\ Len(q) \in Nat
  BY SeqIs
<1>2. Fills(f, Len(q), first, last)
  <2>1. \A k \in 1..Len(q) : f[k] \in first..last
    BY <1>1 DEF Numbers
  <2>2. \A j, k \in 1..Len(q) : j < k => f[j] < f[k]
    BY <1>1 DEF InOrder
  <2>3. \A x \in first..last : \E k \in 1..Len(q) : f[k] = x
    BY <1>1 DEF Numbers
  <2> HIDE DEF f
  <2> QED
    BY <2>1, <2>2, <2>3 DEF Fills
<1>3. Len(q) = last - first + 1 /\ \A k \in 1..Len(q) : f[k] = first + k - 1
  <2> HIDE DEF f
  <2> QED
    BY <1>1, <1>2, Consecutive
<1> QED
  BY <1>1, <1>3 DEF Run

(* Lemma: a run behind another that it continues.                            *)
LEMMA RunBehind ==
    ASSUME NEW a \in Seq(Package), NEW b \in Seq(Package),
           NEW first \in Int, NEW middle \in Int, NEW last \in Int,
           Run(a, first, middle), Run(b, middle + 1, last)
    PROVE  a \o b \in Seq(Package) /\ Run(a \o b, first, last)
<1> DEFINE q == a \o b
<1>1. /\ q \in Seq(Package) /\ Len(q) = Len(a) + Len(b)
      /\ \A k \in DOMAIN q :
             \/ k \in DOMAIN a /\ q[k] = a[k]
             \/ k - Len(a) \in DOMAIN b /\ q[k] = b[k - Len(a)] /\ Len(a) < k
  BY Concatenated
<1>2. DOMAIN q = 1..Len(q) /\ Len(a) \in Nat /\ Len(b) \in Nat
  BY <1>1, SeqIs
<1> HIDE DEF q
<1>3. Len(a) = middle - first + 1 /\ Len(b) = last - (middle + 1) + 1
  BY DEF Run
<1>4. Len(q) = last - first + 1
  BY <1>1, <1>2, <1>3
<1>5. ASSUME NEW k \in DOMAIN q PROVE q[k].number = first + k - 1
  <2>1. k \in Int
    BY <1>2
  <2>2. CASE k \in DOMAIN a /\ q[k] = a[k]
    BY <2>2 DEF Run
  <2>3. CASE k - Len(a) \in DOMAIN b /\ q[k] = b[k - Len(a)]
    <3>1. q[k].number = (middle + 1) + (k - Len(a)) - 1
      BY <2>3 DEF Run
    <3>2. \A n \in Int : n = middle - first + 1 => (middle + 1) + (k - n) - 1 = first + k - 1
      BY <2>1
    <3> QED
      BY <1>2, <1>3, <3>1, <3>2
  <2> QED
    BY <1>1, <2>2, <2>3
<1> QED
  BY <1>1, <1>4, <1>5 DEF Run, q

(* Lemma: packages selected in order, and their numbers.                     *)
LEMMA InOrderSelected ==
    ASSUME NEW q \in Seq(Package), NEW I \in SUBSET (DOMAIN q),
           \A i, j \in I : i < j => q[i].number < q[j].number
    PROVE  /\ At(q, I) \in Seq(Package) /\ InOrder(At(q, I))
           /\ Numbers(At(q, I)) = {q[k].number : k \in I}
<1>1. At(q, I) \in Seq(Package)
  BY Selected
<1>2. PICK g : Origin(g, q, I)
  BY Selected
<1>3. /\ \A n \in DOMAIN At(q, I) : g[n] \in I /\ At(q, I)[n] = q[g[n]]
      /\ \A m, n \in DOMAIN At(q, I) : m < n => g[m] < g[n]
      /\ \A k \in I : \E n \in DOMAIN At(q, I) : g[n] = k
  BY <1>2 DEF Origin
<1>4. InOrder(At(q, I))
  BY <1>3 DEF InOrder
<1>5. Numbers(At(q, I)) = {q[k].number : k \in I}
  BY <1>3 DEF Numbers
<1> QED
  BY <1>1, <1>4, <1>5

(* Lemma: the packages a device was handed, in order.                        *)
LEMMA HandedInOrder ==
    ASSUME TypeOK, NEW s \in Device, NEW d \in Device, Ascending(s, d)
    PROVE  LET q == PackagesOf(s, received[d])
           IN  /\ q \in Seq(Package) /\ InOrder(q)
               /\ Numbers(q) = {HandedNumber(d, k) : k \in Handed(s, d)}
<1>1. PackagesOf(s, received[d]) = At(received[d], Handed(s, d))
  BY DEF PackagesOf, Handed
<1>2. received[d] \in Seq(Package) /\ Handed(s, d) \in SUBSET (DOMAIN received[d])
  BY DEF TypeOK, Handed
<1>3. \A i, j \in Handed(s, d) : i < j => received[d][i].number < received[d][j].number
  BY DEF Ascending, HandedNumber
<1> QED
  BY <1>1, <1>2, <1>3, InOrderSelected DEF HandedNumber

(* Lemma: the packages of a device in a pass of another, in order.           *)
LEMMA PassInOrder ==
    ASSUME TypeOK, NEW s \in Device, NEW d \in Device, Ascending(s, d)
    PROVE  LET q == PackagesOf(s, Carried(framesToDeliver[d]))
           IN  /\ q \in Seq(Package) /\ InOrder(q)
               /\ Numbers(q) = {PassNumber(d, k) : k \in InPass(s, d)}
<1> DEFINE c == Carried(framesToDeliver[d])
<1>1. framesToDeliver[d] \in Seq(Frame)
  BY DEF TypeOK
<1>2. /\ c \in Seq(Package) /\ DOMAIN c = DOMAIN framesToDeliver[d]
      /\ \A k \in DOMAIN c : c[k] = framesToDeliver[d][k].package
  BY <1>1, CarriedQueue DEF Carried
<1> HIDE DEF c
<1>3. PackagesOf(s, c) = At(c, InPass(s, d)) /\ InPass(s, d) \in SUBSET (DOMAIN c)
  <2>1. {k \in DOMAIN c : Current(s, c[k])} = InPass(s, d)
    BY <1>2 DEF InPass
  <2> QED
    BY <2>1 DEF PackagesOf
<1>4. \A k \in InPass(s, d) : c[k].number = PassNumber(d, k)
  BY <1>2, <1>3 DEF PassNumber
<1>5. \A i, j \in InPass(s, d) : i < j => c[i].number < c[j].number
  BY <1>4 DEF Ascending
<1>6. {c[k].number : k \in InPass(s, d)} = {PassNumber(d, k) : k \in InPass(s, d)}
  BY <1>4
<1> QED
  BY <1>2, <1>3, <1>5, <1>6, InOrderSelected DEF c

(* Lemma: the packages of a device that wait for another, in order.          *)
LEMMA WaitingInOrder ==
    ASSUME TypeOK, MediumInOrder, NEW s \in Device, NEW d \in Device
    PROVE  LET waiting == At(entries, Waiting(s, d))
               q == [k \in DOMAIN waiting |-> waiting[k].frame.package]
           IN  /\ q \in Seq(Package) /\ InOrder(q)
               /\ Numbers(q) = {NumberOf(k) : k \in Waiting(s, d)}
<1> DEFINE waiting == At(entries, Waiting(s, d))
           q == [k \in DOMAIN waiting |-> waiting[k].frame.package]
<1>1. entries \in Seq(Entry) /\ Waiting(s, d) \in SUBSET (DOMAIN entries)
  BY DEF TypeOK, Waiting
<1>2. waiting \in Seq(Entry)
  BY <1>1, Selected
<1>3. PICK g : Origin(g, entries, Waiting(s, d))
  BY <1>1, Selected
<1>4. /\ \A n \in DOMAIN waiting : g[n] \in Waiting(s, d) /\ waiting[n] = entries[g[n]]
      /\ \A m, n \in DOMAIN waiting : m < n => g[m] < g[n]
      /\ \A k \in Waiting(s, d) : \E n \in DOMAIN waiting : g[n] = k
  BY <1>3 DEF Origin
<1> HIDE DEF waiting
<1>5. DOMAIN q = DOMAIN waiting /\ \A n \in DOMAIN q : q[n].number = NumberOf(g[n])
  BY <1>4 DEF NumberOf
<1>6. q \in Seq(Package)
  <2>1. DOMAIN waiting = 1..Len(waiting) /\ Len(waiting) \in Nat
        /\ \A k \in DOMAIN waiting : waiting[k].frame.package \in Package
    BY <1>2, SeqIs, Fields
  <2> QED
    BY <2>1
<1> HIDE DEF q
<1>7. InOrder(q)
  <2>1. \A k \in Waiting(s, d) : k \in DOMAIN entries /\ entries[k].senderId = s
    BY DEF Waiting
  <2>2. \A i, j \in Waiting(s, d) : i < j => NumberOf(i) < NumberOf(j)
    BY <2>1 DEF MediumInOrder
  <2> QED
    BY <1>4, <1>5, <2>2 DEF InOrder
<1>8. Numbers(q) = {NumberOf(k) : k \in Waiting(s, d)}
  BY <1>4, <1>5 DEF Numbers
<1> QED
  BY <1>6, <1>7, <1>8 DEF q, waiting

(* Lemma: what was handed up, is in the pass, and waits, is a run.           *)
LEMMA AccountRun ==
    ASSUME TypeOK, QueuesInOrder, MediumInOrder, NEW s \in Device, NEW d \in Device,
           Account(s, d),
           NEW handed \in Seq(Package), InOrder(handed),
           Numbers(handed) = {HandedNumber(d, k) : k \in Handed(s, d)},
           NEW pass \in Seq(Package), InOrder(pass),
           Numbers(pass) = {PassNumber(d, k) : k \in InPass(s, d)},
           NEW wait \in Seq(Package), InOrder(wait),
           Numbers(wait) = {NumberOf(k) : k \in Waiting(s, d)}
    PROVE  /\ (handed \o pass) \o wait \in Seq(Package)
           /\ Run((handed \o pass) \o wait, firstDue[d][s], Sent(s))
<1>1. Ascending(s, d) /\ Due(s, d) /\ Complete(s, d)
  BY DEF Account
<1>2. /\ handed \o pass \in Seq(Package) /\ InOrder(handed \o pass)
      /\ Numbers(handed \o pass) = Numbers(handed) \cup Numbers(pass)
  <2>1. \A m \in Numbers(handed), n \in Numbers(pass) : m < n
    BY <1>1 DEF Ascending
  <2> QED
    BY <2>1, InOrderBehind
<1> DEFINE q == (handed \o pass) \o wait
<1>3. /\ q \in Seq(Package) /\ InOrder(q)
      /\ Numbers(q) = (Numbers(handed) \cup Numbers(pass)) \cup Numbers(wait)
  <2>1. \A m \in Numbers(handed \o pass), n \in Numbers(wait) : m < n
    BY <1>1, <1>2 DEF Ascending
  <2> QED
    BY <1>2, <2>1, InOrderBehind
<1>4. firstDue[d][s] \in Int /\ Sent(s) \in Int /\ firstDue[d][s] <= Sent(s) + 1
  <2>1. firstDue[d][s] \in Nat
    BY DEF TypeOK
  <2>2. Sent(s) \in Nat
    BY SentType
  <2> QED
    BY <1>1, <2>1, <2>2 DEF Due
<1> HIDE DEF q
<1>5. Numbers(q) = firstDue[d][s]..Sent(s)
  <2>1. \A n \in Numbers(q) : n \in firstDue[d][s]..Sent(s)
    BY <1>1, <1>3 DEF Due
  <2>2. \A n \in firstDue[d][s]..Sent(s) : n \in Numbers(q)
    BY <1>1, <1>3 DEF Complete
  <2> QED
    BY <2>1, <2>2
<1> QED
  BY <1>3, <1>4, <1>5, RunOf DEF q

(* Lemma: what a device has received and what is on the way to it.           *)
LEMMA PipelineConveys == PipelineInv => Conveyed
<1> SUFFICES ASSUME PipelineInv, NEW s \in Device, NEW d \in Device, s # d, Works(s), Works(d)
             PROVE  LET packages == PackagesOf(s, received[d]) \o OnTheWay(s, d)
                    IN  /\ Len(packages) = pushed[s] - firstDue[d][s] + 1
                        /\ \A k \in DOMAIN packages : packages[k].number = firstDue[d][s] + k - 1
  BY DEF Conveyed
<1>0. TypeOK /\ QueuesInOrder /\ MediumInOrder /\ Account(s, d)
  BY DEF PipelineInv, Accounted, Connected, Works
<1> DEFINE handed == PackagesOf(s, received[d])
           pass == PackagesOf(s, Carried(framesToDeliver[d]))
           waiting == At(entries, Waiting(s, d))
           wait == [k \in DOMAIN waiting |-> waiting[k].frame.package]
           coded == Carried(framesWithCrc[s])
           plain == Carried(outgoingFrames[s])
           packages == outgoingPackages[s]
<1>1. OnTheWay(s, d) = pass \o wait \o coded \o plain \o packages
  BY DEF OnTheWay, Waiting
<1>2. Ascending(s, d)
  BY <1>0 DEF Account
<1>3. /\ handed \in Seq(Package) /\ InOrder(handed)
      /\ Numbers(handed) = {HandedNumber(d, k) : k \in Handed(s, d)}
  BY <1>0, <1>2, HandedInOrder
<1>4. /\ pass \in Seq(Package) /\ InOrder(pass)
      /\ Numbers(pass) = {PassNumber(d, k) : k \in InPass(s, d)}
  BY <1>0, <1>2, PassInOrder
<1>5. /\ wait \in Seq(Package) /\ InOrder(wait)
      /\ Numbers(wait) = {NumberOf(k) : k \in Waiting(s, d)}
  BY <1>0, WaitingInOrder
<1> DEFINE a == Sent(s)
           b == Len(framesWithCrc[s])
           c == Len(outgoingFrames[s])
           e == Len(outgoingPackages[s])
<1>6. /\ coded \in Seq(Package) /\ plain \in Seq(Package) /\ packages \in Seq(Package)
      /\ Len(coded) = b /\ Len(plain) = c /\ Len(packages) = e
  BY <1>0, QueueParts, CarriedQueue
<1>7. a \in Nat /\ b \in Nat /\ c \in Nat /\ e \in Nat /\ pushed[s] = ((a + b) + c) + e
  BY <1>0, SentType
<1>8. /\ Numbered(s, coded, a) /\ Numbered(s, plain, a + b)
      /\ Numbered(s, packages, (a + b) + c)
  <2>1. pushed[s] - e = (a + b) + c
    <3> HIDE DEF a, b, c, e
    <3> QED
      BY <1>7
  <2> QED
    BY <1>0, <2>1, QueueParts
<1> HIDE DEF handed, pass, wait, waiting, coded, plain, packages, a, b, c, e
<1>9. /\ Run(coded, a + 1, a + b) /\ Run(plain, (a + b) + 1, (a + b) + c)
      /\ Run(packages, ((a + b) + c) + 1, ((a + b) + c) + e)
  <2>1. ASSUME NEW q \in Seq(Package), NEW m \in Nat, NEW n \in Nat, Len(q) = n, Numbered(s, q, m)
        PROVE  Run(q, m + 1, m + n)
    BY <2>1, SeqIs DEF Run, Numbered
  <2> QED
    BY <1>6, <1>7, <1>8, <2>1
<1>10. firstDue[d][s] \in Int
  BY <1>0 DEF TypeOK
<1> DEFINE q1 == (handed \o pass) \o wait
           q2 == q1 \o coded
           q3 == q2 \o plain
           q4 == q3 \o packages
<1>11. q1 \in Seq(Package) /\ Run(q1, firstDue[d][s], a)
  BY <1>0, <1>3, <1>4, <1>5, AccountRun DEF a
<1>12. q2 \in Seq(Package) /\ Run(q2, firstDue[d][s], a + b)
  <2> HIDE DEF q1
  <2> QED
    BY <1>6, <1>7, <1>9, <1>10, <1>11, RunBehind
<1>13. q3 \in Seq(Package) /\ Run(q3, firstDue[d][s], (a + b) + c)
  <2>1. a + b \in Int /\ (a + b) + c \in Int
    BY <1>7
  <2> HIDE DEF q2
  <2> QED
    BY <1>6, <1>9, <1>10, <1>12, <2>1, RunBehind
<1>14. Run(q4, firstDue[d][s], pushed[s])
  <2>1. (a + b) + c \in Int /\ ((a + b) + c) + e \in Int
    BY <1>7
  <2> HIDE DEF q3
  <2> QED
    BY <1>6, <1>7, <1>9, <1>10, <1>13, <2>1, RunBehind
<1>15. handed \o (pass \o wait \o coded \o plain \o packages) = q4
  <2>1. /\ handed \in Seq(Package) /\ pass \in Seq(Package) /\ wait \in Seq(Package)
        /\ coded \in Seq(Package) /\ plain \in Seq(Package) /\ packages \in Seq(Package)
    BY <1>3, <1>4, <1>5, <1>6
  <2>2. Joined(handed, Joined(Joined(Joined(Joined(pass, wait), coded), plain), packages))
            = Joined(Joined(Joined(Joined(Joined(handed, pass), wait), coded), plain), packages)
    BY ONLY <2>1, JoinedAll
  <2> QED
    BY ONLY <2>2, Zenon DEF Joined
<1>16. Run(handed \o OnTheWay(s, d), firstDue[d][s], pushed[s])
  BY <1>1, <1>14, <1>15
<1> QED
  BY <1>16 DEF Run, handed

(* Conveyed is always true: while two devices live and work, each has        *)
(* received, or will find on the way, every package of the other that is due *)
(* to it, once and in order.                                                 *)
THEOREM PipelineConveyed == Spec => []Conveyed
BY PipelineSafe, PipelineConveys, PTL

-----------------------------------------------------------------------------
(* What ends a worker *)

StoppedByHandler == \A d \in Device : physicalWorker[d] = "stopped" => handlerFailed[d]

(* Lemma: every coded frame is let through when it arrives; and it may be    *)
(* put on the medium if its payload leaves room for the CRC.                 *)
LEMMA CodedFrames ==
    ASSUME NEW f \in Coded
    PROVE  /\ Receivable(f)
           /\ f.package.payload \in PayloadSizes
           /\ f.package.payload + CrcBytes <= MaxPayloadBytes => EnsureEncodable(f)
<1> DEFINE p == f.package
<1>1. f \in Frame /\ p \in Package /\ f = WithCrc(Serialized(p))
  BY Fields DEF Coded
<1>2. p.payload \in PayloadSizes
  BY <1>1 DEF Package
<1> HIDE DEF p
<1>3. /\ f.bytes = HeaderBytes + p.payload + CrcBytes /\ p.payload \in 0..MaxPayloadBytes
      /\ HeaderBytes \in Nat /\ CrcBytes = 4 /\ MaxPayloadBytes \in Nat
  BY <1>1, Made, Lengths
<1>4. WithoutCrc(f).bytes = HeaderBytes + p.payload /\ WithoutCrc(f).package = f.package
  <2>1. WithoutCrc(f).bytes = f.bytes - CrcBytes /\ WithoutCrc(f).package = f.package
    BY <1>1 DEF WithoutCrc, Frame
  <2> QED
    BY <1>3, <2>1
<1>5. f.package.payload = p.payload
  BY DEF p
<1> HIDE DEF HeaderBytes, CrcBytes
<1>6. EnsureEncodable(WithoutCrc(f)) /\ EnsureNotTruncated(WithoutCrc(f))
  BY <1>3, <1>4, <1>5 DEF EnsureEncodable, EnsureNotTruncated, MaxFrameBytesWithoutCrc
<1>7. f.bytes \in CrcBytes..MaxFrameBytesWithCrc
  BY <1>3 DEF MaxFrameBytesWithCrc, MaxFrameBytesWithoutCrc
<1>8. p.payload + CrcBytes <= MaxPayloadBytes => EnsureEncodable(f)
  BY <1>3 DEF EnsureEncodable, MaxFrameBytesWithoutCrc
<1> QED
  BY <1>2, <1>5, <1>6, <1>7, <1>8 DEF Receivable, EnsureDecodable

SmallPayloads == \A size \in PayloadSizes : size + CrcBytes <= MaxPayloadBytes

(* Lemma: with small payloads only a handler stops a worker.                 *)
LEMMA StoppedStep ==
    SmallPayloads /\ PipelineInv /\ StoppedByHandler /\ [Next]_vars => StoppedByHandler'
<1> SUFFICES ASSUME SmallPayloads, PipelineInv, StoppedByHandler, [Next]_vars
             PROVE  StoppedByHandler'
  OBVIOUS
<1>0. TypeOK /\ Workers /\ Sizes
  BY DEF PipelineInv
<1>1. ASSUME NEW d \in Device, Join(d) PROVE StoppedByHandler'
  BY <1>0, <1>1 DEF Join, Started, StoppedByHandler, TypeOK
<1>2. ASSUME NEW d \in Device, Leave(d) PROVE StoppedByHandler'
  BY <1>0, <1>2 DEF Leave, StoppedByHandler, TypeOK
<1>3. ASSUME NEW d \in Device,
             (\E size \in PayloadSizes : Push(d, size)) \/ Serialize(d) \/ Encode(d)
      PROVE  StoppedByHandler'
  BY <1>3 DEF Push, Serialize, Encode, StoppedByHandler, history
<1>4. ASSUME NEW d \in Device, BeginPass(d) \/ TakeFromMedium(d) \/ Deliver(d)
      PROVE  StoppedByHandler'
  BY <1>0, <1>4 DEF BeginPass, TakeFromMedium, Deliver, StoppedByHandler, TypeOK, history
<1>5. ASSUME NEW d \in Device, PutOnMedium(d) PROVE StoppedByHandler'
  <2>1. Head(framesWithCrc[d]) \in Coded
    BY <1>0, <1>5, HeadTail DEF Sizes, PutOnMedium
  <2>2. EnsureEncodable(Head(framesWithCrc[d]))
    BY <2>1, CodedFrames DEF SmallPayloads
  <2> QED
    BY <1>5, <2>2 DEF PutOnMedium, StoppedByHandler, history
<1>6. ASSUME NEW d \in Device, DeliverFails(d) PROVE StoppedByHandler'
  <2>1. framesToDeliver[d] # <<>>
    BY <1>0, <1>6 DEF Workers, DeliverFails
  <2>2. Head(framesToDeliver[d]) \in Coded
    BY <1>0, <2>1, HeadTail DEF Sizes
  <2>3. Receivable(Head(framesToDeliver[d]))
    BY <2>2, CodedFrames
  <2>4. handlerFailed'[d] = TRUE
    BY <1>0, <1>6, <2>3 DEF DeliverFails, TypeOK
  <2>5. \A e \in Device : e # d => /\ handlerFailed'[e] = handlerFailed[e]
                                   /\ physicalWorker'[e] = physicalWorker[e]
    BY <1>0, <1>6 DEF DeliverFails, TypeOK
  <2> QED
    BY <2>4, <2>5 DEF StoppedByHandler
<1>7. CASE UNCHANGED vars
  BY <1>7 DEF vars, history, StoppedByHandler
<1> QED
  BY <1>1, <1>2, <1>3, <1>4, <1>5, <1>6, <1>7 DEF Next, PhysicalLayer

(* WorkersSurvive is always true if every payload is shorter than the limit  *)
(* by a CRC: without that it is not, as PipelineFullPayload shows.           *)
THEOREM PipelineWorkersSurvive ==
    ASSUME SmallPayloads
    PROVE  Spec => []WorkersSurvive
<1>1. Init => StoppedByHandler
  BY DEF Init, StoppedByHandler
<1>2. PipelineInv /\ StoppedByHandler /\ [Next]_vars => StoppedByHandler'
  BY StoppedStep
<1>3. PipelineInv /\ StoppedByHandler => WorkersSurvive
  BY DEF PipelineInv, Workers, StoppedByHandler, WorkersSurvive
<1> QED
  BY <1>1, <1>2, <1>3, PipelineSafe, PTL DEF Spec

=============================================================================
