--------------------------- MODULE Chain_proofs ---------------------------
(***************************************************************************)
(* Proofs about module Chain: the dedup cache and the threshold behind it, *)
(* for any number of concurrent publishers, any configuration of stages,   *)
(* any cache size, TTL and delta.                                          *)
(***************************************************************************)
EXTENDS Chain, SequenceTheorems, TLAPS

USE DedupAssumption, ChainAssumption

---------------------------------------------------------------------------
(* The inductive invariant.                                                *)

\* No element twice.
Distinct(s) == \A i, j \in 1..Len(s) : s[i] = s[j] => i = j

\* l is the first CacheSize elements of r.
Recent(l, r) ==
  /\ Len(l) = IF Len(r) < CacheSize THEN Len(r) ELSE CacheSize
  /\ \A i \in 1..Len(l) : l[i] = r[i]

\* The list against the history of arrivals.
ListOK ==
  /\ ll \in Seq(Hashes) /\ recency \in Seq(Hashes)
  /\ Distinct(recency)
  /\ Recent(ll, recency)

\* The time stamps against the histories of what was let through and what came in.
StampOK ==
  /\ now \in 0..MaxTime
  /\ ts \in [Hashes -> 0..MaxTime \cup {Never}]
  /\ passed = ts
  /\ \A h \in Hashes : Contains(recency, h) <=> ts[h] # Never
  /\ seen \in [Hashes -> 0..MaxTime \cup {Never}]
  /\ \A h \in Hashes : ts[h] # Never => ts[h] <= now
  /\ \A h \in Probes : ts[h] # Never => seen[h] # Never /\ ts[h] <= seen[h] /\ seen[h] <= now

\* The calls, their mutex and the channel.
CallsOK ==
  /\ gen \in {"live", "cancelled", "sealed", "dead"}
  /\ mutex \in Publishers \cup {Free}
  /\ pc \in [Publishers -> {"idle", "dedup", "enrich", "batch", "select", "next", "refused"}]
  /\ body \in [Publishers -> Hashes \cup {Never}]
  /\ eventCh \in 0..Buffer
  /\ \A p \in Publishers : pc[p] # "idle" => body[p] \in Hashes

\* With a dedup stage, what is behind it runs one call at a time.
MutexOK == "dedup" \in stages =>
  \A p \in Publishers : pc[p] \in {"enrich", "batch", "select", "next", "refused"} => mutex = p

\* p has been let through by the threshold and is yet to leave the chain.
Pending(p) == pc[p] \in {"batch", "select", "next"}

\* The threshold's state is the number that left last, but for a call between the
\* two: then it is that call's, far enough from the number that left last.
EmitOK == "dedup" \in stages =>
  /\ (\A p \in Publishers : Pending(p) => ~Compared(p)) => lastVal = emitted
  /\ \A p \in Publishers : Pending(p) /\ Compared(p) =>
       /\ lastVal = Value[body[p]]
       /\ emitted # NoValue => Moved(Value[body[p]], emitted)

IndInv == ListOK /\ StampOK /\ CallsOK /\ MutexOK /\ EmitOK

---------------------------------------------------------------------------
(* The list operations, element by element.                                *)

\* What is left when the one occurrence of h, at k, is taken out.
LEMMA RemoveFound ==
  ASSUME NEW s \in Seq(Hashes), Distinct(s), NEW h \in Hashes,
         NEW k \in 1..Len(s), s[k] = h
  PROVE  /\ RemoveFirst(s, h) \in Seq(Hashes)
         /\ Len(RemoveFirst(s, h)) = Len(s) - 1
         /\ \A i \in 1..(Len(s) - 1) :
              RemoveFirst(s, h)[i] = IF i < k THEN s[i] ELSE s[i + 1]
<1>1. {i \in 1..Len(s) : s[i] = h} = {k}
  BY DEF Distinct
<1>2. Min({k}) = k
  BY DEF Min
<1>3. RemoveFirst(s, h) = RemoveAt(s, k)
  BY <1>1, <1>2 DEF RemoveFirst, SelectInSeq
<1>4. Len(s) \in Nat /\ k \in 1..Len(s) /\ \A i \in 1..Len(s) : s[i] \in Hashes
  BY ElementOfSeq
<1>5. /\ SubSeq(s, 1, k - 1) \in Seq(Hashes)
      /\ Len(SubSeq(s, 1, k - 1)) = k - 1
      /\ \A i \in 1..(k - 1) : SubSeq(s, 1, k - 1)[i] = s[i]
  BY <1>4
<1>6. /\ SubSeq(s, k + 1, Len(s)) \in Seq(Hashes)
      /\ Len(SubSeq(s, k + 1, Len(s))) = Len(s) - k
      /\ \A i \in 1..(Len(s) - k) : SubSeq(s, k + 1, Len(s))[i] = s[k + i]
  BY <1>4
<1>7. DEFINE a == SubSeq(s, 1, k - 1)
             b == SubSeq(s, k + 1, Len(s))
<1>8. HIDE DEF a, b
<1>9. /\ a \o b \in Seq(Hashes) /\ Len(a \o b) = Len(s) - 1
      /\ \A i \in 1..(Len(s) - 1) : (a \o b)[i] = IF i <= k - 1 THEN a[i] ELSE b[i - (k - 1)]
  <2>1. a \in Seq(Hashes) /\ b \in Seq(Hashes) /\ Len(a) = k - 1 /\ Len(b) = Len(s) - k
    BY <1>5, <1>6 DEF a, b
  <2>2. /\ a \o b \in Seq(Hashes) /\ Len(a \o b) = Len(a) + Len(b)
        /\ \A i \in 1..(Len(a) + Len(b)) : (a \o b)[i] = IF i <= Len(a) THEN a[i] ELSE b[i - Len(a)]
    BY <2>1, ConcatProperties
  <2>3. Len(a) + Len(b) = Len(s) - 1
    BY <1>4, <2>1
  <2>4. QED
    BY <2>1, <2>2, <2>3
<1>10. \A i \in 1..(Len(s) - 1) : (a \o b)[i] = IF i < k THEN s[i] ELSE s[i + 1]
  <2>1. SUFFICES ASSUME NEW i \in 1..(Len(s) - 1)
                 PROVE  (a \o b)[i] = IF i < k THEN s[i] ELSE s[i + 1]
    OBVIOUS
  <2>2. CASE i < k
    BY <1>4, <1>5, <1>9, <2>2 DEF a
  <2>3. CASE i >= k
    <3>1. i - (k - 1) \in 1..(Len(s) - k) /\ k + (i - (k - 1)) = i + 1
      BY <1>4, <2>3
    <3>2. b[i - (k - 1)] = s[k + (i - (k - 1))]
      BY <1>6, <3>1 DEF b
    <3>3. QED
      BY <1>4, <1>9, <2>3, <3>1, <3>2
  <2>4. i < k \/ i >= k
    BY <1>4
  <2>5. QED
    BY <2>2, <2>3, <2>4
<1>11. QED
  BY <1>3, <1>9, <1>10 DEF RemoveAt, a, b

\* Nothing is taken out of a list without h.
LEMMA RemoveAbsent ==
  ASSUME NEW s, NEW h, ~Contains(s, h) PROVE RemoveFirst(s, h) = s
  BY DEF RemoveFirst, Contains

\* An element in front of a list.
LEMMA Prepended ==
  ASSUME NEW s \in Seq(Hashes), NEW h \in Hashes
  PROVE  /\ <<h>> \o s \in Seq(Hashes)
         /\ Len(<<h>> \o s) = Len(s) + 1
         /\ (<<h>> \o s)[1] = h
         /\ \A i \in 2..(Len(s) + 1) : (<<h>> \o s)[i] = s[i - 1]
  OBVIOUS

\* A list full of fresh arrivals makes room by dropping its last element.
LEMMA EvictedList ==
  ASSUME NEW s \in Seq(Hashes), Len(s) <= CacheSize
  PROVE  /\ Evicted(s) \in Seq(Hashes)
         /\ Len(Evicted(s)) = IF Len(s) < CacheSize THEN Len(s) ELSE CacheSize - 1
         /\ \A i \in 1..Len(Evicted(s)) : Evicted(s)[i] = s[i]
<1>1. Len(s) \in Nat /\ \A i \in 1..Len(s) : s[i] \in Hashes
  BY ElementOfSeq
<1>2. CASE Len(s) < CacheSize
  BY <1>1, <1>2 DEF Evicted
<1>3. CASE Len(s) = CacheSize
  <2>1. Evicted(s) = SubSeq(s, 1, CacheSize - 1)
    BY <1>3 DEF Evicted, Front
  <2>2. QED
    BY <1>1, <1>3, <2>1
<1>4. QED
  BY <1>1, <1>2, <1>3

\* h arrives: it is at the front of the history, everything else behind it once.
LEMMA ArrivalKeepsHistory ==
  ASSUME NEW r \in Seq(Hashes), Distinct(r), NEW h \in Hashes
  PROVE  /\ ToFront(r, h) \in Seq(Hashes)
         /\ Distinct(ToFront(r, h))
         /\ \A g \in Hashes : Contains(ToFront(r, h), g) <=> g = h \/ Contains(r, g)
<1>1. DEFINE t == ToFront(r, h)
<1>2. Len(r) \in Nat
  OBVIOUS
<1>3. CASE \E k \in 1..Len(r) : r[k] = h
  <2>1. PICK k \in 1..Len(r) : r[k] = h
    BY <1>3
  <2>2. /\ RemoveFirst(r, h) \in Seq(Hashes)
        /\ Len(RemoveFirst(r, h)) = Len(r) - 1
        /\ \A i \in 1..(Len(r) - 1) :
             RemoveFirst(r, h)[i] = IF i < k THEN r[i] ELSE r[i + 1]
    BY <2>1, RemoveFound
  <2>3. /\ t \in Seq(Hashes) /\ Len(t) = Len(r) /\ t[1] = h
        /\ \A i \in 2..Len(r) : t[i] = RemoveFirst(r, h)[i - 1]
    BY <1>2, <2>2, Prepended DEF ToFront
  <2>4. HIDE DEF t
  <2>5. \A i \in 2..Len(r) : (i <= k => t[i] = r[i - 1]) /\ (i > k => t[i] = r[i])
    BY <1>2, <2>1, <2>2, <2>3
  <2>6. \A i \in 2..Len(r) : t[i] # h
    BY <1>2, <2>1, <2>5 DEF Distinct
  <2>7. \A i, j \in 2..Len(r) : t[i] = t[j] => i = j
    <3>1. SUFFICES ASSUME NEW i \in 2..Len(r), NEW j \in 2..Len(r), t[i] = t[j] PROVE i = j
      OBVIOUS
    <3>2. CASE i <= k /\ j <= k
      BY <1>2, <2>1, <2>5, <3>1, <3>2 DEF Distinct
    <3>3. CASE i > k /\ j > k
      BY <1>2, <2>1, <2>5, <3>1, <3>3 DEF Distinct
    <3>4. CASE i <= k /\ j > k
      BY <1>2, <2>1, <2>5, <3>1, <3>4 DEF Distinct
    <3>5. CASE i > k /\ j <= k
      BY <1>2, <2>1, <2>5, <3>1, <3>5 DEF Distinct
    <3>6. QED
      BY <1>2, <2>1, <3>2, <3>3, <3>4, <3>5
  <2>8. Distinct(t)
    <3>1. SUFFICES ASSUME NEW i \in 1..Len(t), NEW j \in 1..Len(t), t[i] = t[j] PROVE i = j
      BY DEF Distinct
    <3>2. (i = 1 \/ i \in 2..Len(r)) /\ (j = 1 \/ j \in 2..Len(r))
      BY <1>2, <2>3
    <3>3. QED
      BY <2>3, <2>6, <2>7, <3>1, <3>2
  <2>9. ASSUME NEW g \in Hashes, NEW i \in 1..Len(r), r[i] = g, g # h PROVE Contains(t, g)
    <3>1. CASE i < k
      <4>1. i + 1 \in 2..Len(r) /\ i + 1 <= k /\ (i + 1) - 1 = i
        BY <1>2, <2>1, <3>1
      <4>2. t[i + 1] = g
        BY <2>5, <2>9, <4>1
      <4>3. QED
        BY <1>2, <2>3, <4>1, <4>2 DEF Contains
    <3>2. CASE i > k
      BY <1>2, <2>1, <2>3, <2>5, <2>9, <3>2 DEF Contains
    <3>3. QED
      BY <2>1, <2>9, <3>1, <3>2
  <2>10. Contains(t, h)
    BY <1>2, <2>1, <2>3 DEF Contains
  <2>11. ASSUME NEW g \in Hashes, NEW i \in 1..Len(t), t[i] = g, g # h PROVE Contains(r, g)
    <3>1. i \in 2..Len(r)
      BY <1>2, <2>3, <2>11
    <3>2. CASE i <= k
      BY <1>2, <2>5, <2>11, <3>1, <3>2 DEF Contains
    <3>3. CASE i > k
      BY <1>2, <2>5, <2>11, <3>1, <3>3 DEF Contains
    <3>4. QED
      BY <2>1, <3>1, <3>2, <3>3
  <2>12. \A g \in Hashes : Contains(t, g) <=> g = h \/ Contains(r, g)
    <3>1. SUFFICES ASSUME NEW g \in Hashes PROVE Contains(t, g) <=> g = h \/ Contains(r, g)
      OBVIOUS
    <3>2. CASE g = h
      BY <2>10, <3>2
    <3>3. CASE g # h
      BY <2>9, <2>11, <3>3 DEF Contains
    <3>4. QED
      BY <3>2, <3>3
  <2>13. QED
    BY <2>3, <2>8, <2>12 DEF t
<1>4. CASE ~Contains(r, h)
  <2>1. ToFront(r, h) = <<h>> \o r
    BY <1>4, RemoveAbsent DEF ToFront
  <2>2. /\ t \in Seq(Hashes) /\ Len(t) = Len(r) + 1 /\ t[1] = h
        /\ \A i \in 2..(Len(r) + 1) : t[i] = r[i - 1]
    BY <2>1, Prepended
  <2>3. HIDE DEF t
  <2>4. \A i \in 1..Len(r) : i + 1 \in 2..(Len(r) + 1) /\ t[i + 1] = r[i]
    BY <1>2, <2>2
  <2>5. \A i \in 2..(Len(r) + 1) : t[i] # h
    BY <1>2, <1>4, <2>2 DEF Contains
  <2>6. \A i, j \in 2..(Len(r) + 1) : t[i] = t[j] => i = j
    <3>1. SUFFICES ASSUME NEW i \in 2..(Len(r) + 1), NEW j \in 2..(Len(r) + 1), t[i] = t[j]
                   PROVE  i = j
      OBVIOUS
    <3>2. i - 1 \in 1..Len(r) /\ j - 1 \in 1..Len(r) /\ r[i - 1] = r[j - 1]
      BY <1>2, <2>2, <3>1
    <3>3. i - 1 = j - 1
      BY <3>2 DEF Distinct
    <3>4. QED
      BY <3>3
  <2>7. Distinct(t)
    <3>1. SUFFICES ASSUME NEW i \in 1..Len(t), NEW j \in 1..Len(t), t[i] = t[j] PROVE i = j
      BY DEF Distinct
    <3>2. (i = 1 \/ i \in 2..(Len(r) + 1)) /\ (j = 1 \/ j \in 2..(Len(r) + 1))
      BY <1>2, <2>2
    <3>3. QED
      BY <2>2, <2>5, <2>6, <3>1, <3>2
  <2>8. ASSUME NEW g \in Hashes, NEW i \in 1..Len(r), r[i] = g PROVE Contains(t, g)
    BY <1>2, <2>2, <2>4, <2>8 DEF Contains
  <2>9. Contains(t, h)
    BY <1>2, <2>2 DEF Contains
  <2>10. ASSUME NEW g \in Hashes, NEW i \in 1..Len(t), t[i] = g, g # h PROVE Contains(r, g)
    <3>1. i - 1 \in 1..Len(r) /\ r[i - 1] = g
      BY <1>2, <2>2, <2>10
    <3>2. QED
      BY <3>1 DEF Contains
  <2>11. \A g \in Hashes : Contains(t, g) <=> g = h \/ Contains(r, g)
    <3>1. SUFFICES ASSUME NEW g \in Hashes PROVE Contains(t, g) <=> g = h \/ Contains(r, g)
      OBVIOUS
    <3>2. CASE g = h
      BY <2>9, <3>2
    <3>3. CASE g # h
      BY <2>8, <2>10, <3>3 DEF Contains
    <3>4. QED
      BY <3>2, <3>3
  <2>12. QED
    BY <2>2, <2>7, <2>11 DEF t
<1>5. QED
  BY <1>3, <1>4 DEF Contains

\* A duplicate moves to the front of both the list and the history.
LEMMA TouchKeepsRecent ==
  ASSUME NEW l \in Seq(Hashes), NEW r \in Seq(Hashes), Distinct(r), Recent(l, r),
         NEW h \in Hashes, Contains(l, h)
  PROVE  ToFront(l, h) \in Seq(Hashes) /\ Recent(ToFront(l, h), ToFront(r, h))
<1>0. Len(l) \in Nat /\ Len(r) \in Nat /\ Len(l) <= Len(r)
  BY DEF Recent
<1>1. PICK k \in 1..Len(l) : l[k] = h
  BY DEF Contains
<1>2. k \in 1..Len(r) /\ r[k] = h /\ Distinct(l)
  BY <1>0, <1>1 DEF Recent, Distinct
<1>3. /\ RemoveFirst(r, h) \in Seq(Hashes)
      /\ Len(RemoveFirst(r, h)) = Len(r) - 1
      /\ \A i \in 1..(Len(r) - 1) : RemoveFirst(r, h)[i] = IF i < k THEN r[i] ELSE r[i + 1]
  BY <1>2, RemoveFound
<1>4. /\ RemoveFirst(l, h) \in Seq(Hashes)
      /\ Len(RemoveFirst(l, h)) = Len(l) - 1
      /\ \A i \in 1..(Len(l) - 1) : RemoveFirst(l, h)[i] = IF i < k THEN l[i] ELSE l[i + 1]
  BY <1>1, <1>2, RemoveFound
<1>5. /\ ToFront(r, h) \in Seq(Hashes) /\ Len(ToFront(r, h)) = Len(r)
      /\ ToFront(r, h)[1] = h
      /\ \A i \in 2..Len(r) : ToFront(r, h)[i] = RemoveFirst(r, h)[i - 1]
  BY <1>0, <1>3, Prepended DEF ToFront
<1>6. /\ ToFront(l, h) \in Seq(Hashes) /\ Len(ToFront(l, h)) = Len(l)
      /\ ToFront(l, h)[1] = h
      /\ \A i \in 2..Len(l) : ToFront(l, h)[i] = RemoveFirst(l, h)[i - 1]
  BY <1>0, <1>4, Prepended DEF ToFront
<1>7. \A i \in 1..(Len(l) - 1) : RemoveFirst(l, h)[i] = RemoveFirst(r, h)[i]
  BY <1>0, <1>1, <1>3, <1>4 DEF Recent
<1>8. \A i \in 2..Len(l) : ToFront(l, h)[i] = ToFront(r, h)[i]
  BY <1>0, <1>5, <1>6, <1>7
<1>9. QED
  BY <1>0, <1>5, <1>6, <1>8 DEF Recent

\* What is let through is put in front, an expired entry of it taken out and
\* otherwise the oldest entry evicted if there is no room.
LEMMA InsertKeepsRecent ==
  ASSUME NEW l \in Seq(Hashes), NEW r \in Seq(Hashes), Distinct(r), Recent(l, r),
         NEW h \in Hashes
  PROVE  /\ <<h>> \o Evicted(RemoveFirst(l, h)) \in Seq(Hashes)
         /\ Recent(<<h>> \o Evicted(RemoveFirst(l, h)), ToFront(r, h))
<1>0. /\ Len(l) \in Nat /\ Len(r) \in Nat /\ Len(l) <= Len(r) /\ Len(l) <= CacheSize
      /\ (Len(l) < CacheSize => Len(l) = Len(r))
  BY DEF Recent
<1>1. CASE Contains(l, h)
  <2>1. PICK k \in 1..Len(l) : l[k] = h
    BY <1>1 DEF Contains
  <2>2. Distinct(l)
    BY <1>0 DEF Recent, Distinct
  <2>3. RemoveFirst(l, h) \in Seq(Hashes) /\ Len(RemoveFirst(l, h)) = Len(l) - 1
    BY <2>1, <2>2, RemoveFound
  <2>4. Evicted(RemoveFirst(l, h)) = RemoveFirst(l, h)
    BY <1>0, <2>3 DEF Evicted
  <2>5. QED
    BY <1>1, <2>4, TouchKeepsRecent DEF ToFront
<1>2. CASE ~Contains(l, h)
  <2>1. RemoveFirst(l, h) = l
    BY <1>2, RemoveAbsent
  <2>2. /\ Evicted(l) \in Seq(Hashes)
        /\ Len(Evicted(l)) = IF Len(l) < CacheSize THEN Len(l) ELSE CacheSize - 1
        /\ \A i \in 1..Len(Evicted(l)) : Evicted(l)[i] = l[i]
    BY <1>0, EvictedList
  <2>3. DEFINE new == <<h>> \o Evicted(l)
  <2>4. /\ new \in Seq(Hashes) /\ Len(new) = Len(Evicted(l)) + 1 /\ new[1] = h
        /\ \A i \in 2..(Len(Evicted(l)) + 1) : new[i] = Evicted(l)[i - 1]
    BY <2>2, Prepended
  <2>5. Len(new) = IF Len(l) < CacheSize THEN Len(l) + 1 ELSE CacheSize
    BY <1>0, <2>2, <2>4
  <2>6. \A i \in 2..Len(new) : new[i] = r[i - 1]
    <3>1. SUFFICES ASSUME NEW i \in 2..Len(new) PROVE new[i] = r[i - 1]
      OBVIOUS
    <3>2. i - 1 \in 1..Len(Evicted(l)) /\ i - 1 \in 1..Len(l)
      BY <1>0, <2>2, <2>4, <3>1
    <3>3. QED
      BY <2>2, <2>4, <3>1, <3>2 DEF Recent
  <2>7. CASE \E k \in 1..Len(r) : r[k] = h
    <3>1. PICK k \in 1..Len(r) : r[k] = h
      BY <2>7
    <3>2. k > Len(l)
      BY <1>0, <1>2, <3>1 DEF Recent, Contains
    <3>3. Len(l) = CacheSize
      BY <1>0, <3>1, <3>2
    <3>4. /\ RemoveFirst(r, h) \in Seq(Hashes)
          /\ Len(RemoveFirst(r, h)) = Len(r) - 1
          /\ \A i \in 1..(Len(r) - 1) : RemoveFirst(r, h)[i] = IF i < k THEN r[i] ELSE r[i + 1]
      BY <3>1, RemoveFound
    <3>5. /\ Len(ToFront(r, h)) = Len(r) /\ ToFront(r, h)[1] = h
          /\ \A i \in 2..Len(r) : ToFront(r, h)[i] = RemoveFirst(r, h)[i - 1]
      BY <1>0, <3>4, Prepended DEF ToFront
    <3>6. \A i \in 2..Len(new) : ToFront(r, h)[i] = r[i - 1]
      <4>1. SUFFICES ASSUME NEW i \in 2..Len(new) PROVE ToFront(r, h)[i] = r[i - 1]
        OBVIOUS
      <4>2. i \in 2..Len(r) /\ i - 1 \in 1..(Len(r) - 1) /\ i - 1 < k
        BY <1>0, <2>5, <3>1, <3>2, <3>3, <4>1
      <4>3. QED
        BY <3>4, <3>5, <4>2
    <3>7. Len(new) = CacheSize /\ \A i \in 1..Len(new) : new[i] = ToFront(r, h)[i]
      BY <1>0, <2>4, <2>5, <2>6, <3>3, <3>5, <3>6
    <3>8. QED
      BY <1>0, <2>1, <2>4, <3>1, <3>2, <3>3, <3>5, <3>7 DEF Recent
  <2>8. CASE ~Contains(r, h)
    <3>1. /\ Len(ToFront(r, h)) = Len(r) + 1 /\ ToFront(r, h)[1] = h
          /\ \A i \in 2..(Len(r) + 1) : ToFront(r, h)[i] = r[i - 1]
      <4>1. ToFront(r, h) = <<h>> \o r
        BY <2>8, RemoveAbsent DEF ToFront
      <4>2. QED
        BY <4>1, Prepended
    <3>2. Len(new) <= Len(r) + 1
      BY <1>0, <2>5
    <3>3. \A i \in 1..Len(new) : new[i] = ToFront(r, h)[i]
      BY <1>0, <2>4, <2>6, <3>1, <3>2
    <3>4. Len(new) = IF Len(r) + 1 < CacheSize THEN Len(r) + 1 ELSE CacheSize
      BY <1>0, <2>5
    <3>5. QED
      BY <2>1, <2>4, <3>1, <3>3, <3>4 DEF Recent
  <2>9. QED
    BY <2>7, <2>8 DEF Contains
<1>3. QED
  BY <1>1, <1>2

---------------------------------------------------------------------------
(* The steps.                                                              *)

\* At the start the cache is empty and nobody is in the chain.
LEMMA InitInd == Init => IndInv
<1>1. SUFFICES ASSUME Init PROVE IndInv
  OBVIOUS
<1>2. ListOK /\ StampOK
  BY <1>1 DEF Init, CacheInit, ListOK, StampOK, Distinct, Recent, Contains
<1>3. CallsOK /\ MutexOK /\ EmitOK
  BY <1>1 DEF Init, CallsOK, MutexOK, EmitOK, Pending
<1>4. QED
  BY <1>2, <1>3 DEF IndInv

\* The dedup stage drops an event or marks it as seen.
LEMMA CacheInd ==
  ASSUME ListOK, StampOK, NEW h \in Hashes, Drop(h) \/ Pass(h), UNCHANGED now
  PROVE  ListOK' /\ StampOK'
<1>1. /\ recency' = ToFront(recency, h)
      /\ seen' = [seen EXCEPT ![h] = IF h \in Probes THEN now ELSE @]
  BY DEF Drop, Pass, Note
<1>2. /\ recency' \in Seq(Hashes) /\ Distinct(recency')
      /\ \A g \in Hashes : Contains(recency', g) <=> g = h \/ Contains(recency, g)
  BY <1>1, ArrivalKeepsHistory DEF ListOK
<1>3. ll' \in Seq(Hashes) /\ Recent(ll', recency')
  <2>1. CASE Drop(h)
    <3>1. Contains(ll, h) /\ ll' = ToFront(ll, h)
      BY <2>1 DEF Drop, FreshEntry
    <3>2. QED
      BY <1>1, <3>1, TouchKeepsRecent DEF ListOK
  <2>2. CASE Pass(h)
    <3>1. ll' = <<h>> \o Evicted(RemoveFirst(ll, h))
      BY <2>2 DEF Pass
    <3>2. QED
      BY <1>1, <3>1, InsertKeepsRecent DEF ListOK
  <2>3. QED
    BY <2>1, <2>2
<1>4. ListOK'
  BY <1>2, <1>3 DEF ListOK
<1>5. StampOK'
  <2>1. CASE Drop(h)
    <3>1. UNCHANGED <<ts, passed>>
      BY <2>1 DEF Drop
    <3>2. Contains(recency, h)
      <4>1. PICK i \in 1..Len(ll) : ll[i] = h
        BY <2>1 DEF Drop, FreshEntry, Contains
      <4>2. i \in 1..Len(recency) /\ recency[i] = h
        BY <4>1 DEF ListOK, Recent
      <4>3. QED
        BY <4>2 DEF Contains
    <3>3. ts[h] # Never /\ ts[h] <= now /\ now # Never
      BY <3>2 DEF StampOK
    <3>4. QED
      BY <1>1, <1>2, <3>1, <3>2, <3>3 DEF StampOK
  <2>2. CASE Pass(h)
    <3>1. ts' = [ts EXCEPT ![h] = now] /\ passed' = [passed EXCEPT ![h] = now]
      BY <2>2 DEF Pass
    <3>2. now \in 0..MaxTime /\ now # Never
      BY DEF StampOK
    <3>3. QED
      BY <1>1, <1>2, <3>1, <3>2 DEF StampOK
  <2>3. QED
    BY <2>1, <2>2
<1>6. QED
  BY <1>4, <1>5

\* A step that leaves the dedup cache alone.
LEMMA CacheFrame ==
  ASSUME ListOK, StampOK, UNCHANGED cacheVars, now' \in 0..MaxTime, now <= now'
  PROVE  ListOK' /\ StampOK'
  BY DEF ListOK, StampOK, cacheVars

\* A step that leaves every call, and what leaves the chain, alone.
LEMMA CallsFrame ==
  ASSUME CallsOK, MutexOK, EmitOK, UNCHANGED <<stages, mutex, pc, body, lastVal, emitted>>,
         gen' \in {"live", "cancelled", "sealed", "dead"}, eventCh' \in 0..Buffer
  PROVE  CallsOK' /\ MutexOK' /\ EmitOK'
  BY DEF CallsOK, MutexOK, EmitOK, Pending, Compared

\* The threshold and what has left agree as before after a step that lets nobody
\* through and nothing out.
LEMMA EmitFrame ==
  ASSUME EmitOK, UNCHANGED <<stages, lastVal, emitted>>,
         \A q \in Publishers : Pending(q)' <=> Pending(q),
         \A q \in Publishers : Pending(q) => body'[q] = body[q]
  PROVE  EmitOK'
  BY DEF EmitOK, Compared

\* With dedup in front, p is alone behind it.
LEMMA Alone ==
  ASSUME MutexOK, "dedup" \in stages, NEW p \in Publishers, NEW q \in Publishers,
         pc[p] \in {"enrich", "batch", "select", "next", "refused"}, Pending(q)
  PROVE  q = p
  BY DEF MutexOK, Pending

\* The threshold lets p through.
LEMMA ThresholdInd ==
  ASSUME CallsOK, MutexOK, EmitOK, NEW p \in Publishers, ThresholdPass(p)
  PROVE  EmitOK'
<1>1. SUFFICES ASSUME "dedup" \in stages' PROVE EmitOK'
  BY DEF EmitOK
<1>2. /\ pc[p] = "enrich" /\ ~TooClose(p) /\ UNCHANGED <<stages, body, emitted>>
      /\ lastVal' = IF Compared(p) THEN Value[body[p]] ELSE lastVal
      /\ pc' = [pc EXCEPT ![p] = IF "batch" \in stages THEN "batch" ELSE "next"]
  BY DEF ThresholdPass, Goto
<1>3. \A q \in Publishers : ~Pending(q)
  BY <1>1, <1>2, Alone DEF Pending
<1>4. lastVal = emitted
  BY <1>1, <1>2, <1>3 DEF EmitOK
<1>5. \A q \in Publishers : Pending(q)' <=> q = p
  BY <1>2, <1>3 DEF Pending, CallsOK
<1>6. \A q \in Publishers : Compared(q)' <=> Compared(q)
  BY <1>2 DEF Compared
<1>7. Compared(p) /\ emitted # NoValue => Moved(Value[body[p]], emitted)
  BY <1>2, <1>4 DEF TooClose
<1>8. QED
  BY <1>2, <1>4, <1>5, <1>6, <1>7 DEF EmitOK

\* p's event leaves the chain.
LEMMA LeaveInd ==
  ASSUME CallsOK, MutexOK, EmitOK, NEW p \in Publishers, Pending(p), Emit(p),
         UNCHANGED <<stages, lastVal>>, pc'[p] \in {"idle", "refused"},
         \A q \in Publishers \ {p} : pc'[q] = pc[q]
  PROVE  EmitOK'
<1>1. SUFFICES ASSUME "dedup" \in stages' PROVE EmitOK'
  BY DEF EmitOK
<1>2. \A q \in Publishers : Pending(q) => q = p
  BY <1>1, Alone DEF Pending
<1>3. \A q \in Publishers : ~Pending(q)'
  BY <1>2 DEF Pending
<1>4. lastVal = emitted'
  <2>1. CASE Compared(p)
    BY <1>1, <2>1 DEF EmitOK, Emit
  <2>2. CASE ~Compared(p)
    BY <1>1, <1>2, <2>2 DEF EmitOK, Emit
  <2>3. QED
    BY <2>1, <2>2
<1>5. QED
  BY <1>3, <1>4 DEF EmitOK

\* The return of p's call.
LEMMA ReturnInd ==
  ASSUME CallsOK, MutexOK, NEW p \in Publishers, Return(p), UNCHANGED <<stages, gen>>,
         eventCh' \in 0..Buffer,
         pc[p] \in {"enrich", "batch", "select", "next", "refused"}
  PROVE  CallsOK' /\ MutexOK'
<1>1. /\ pc' = [pc EXCEPT ![p] = "idle"] /\ body' = [body EXCEPT ![p] = Never]
      /\ mutex' = IF mutex = p THEN Free ELSE mutex
  BY DEF Return, Goto
<1>2. CallsOK'
  BY <1>1 DEF CallsOK
<1>3. MutexOK'
  BY <1>1 DEF MutexOK, CallsOK
<1>4. QED
  BY <1>2, <1>3

\* A step of p's call, or its beginning, that the process survives.
LEMMA CallInd ==
  ASSUME IndInv, NEW p \in Publishers, Enter(p) \/ Step(p), ~EnrichKills(p)
  PROVE  IndInv'
<1>1. ListOK /\ StampOK /\ CallsOK /\ MutexOK /\ EmitOK
  BY DEF IndInv
<1>2. UNCHANGED <<now, stages, gen>>
  BY DEF Enter, Step, DedupDrop, DedupPass, EnrichPanics, ThresholdPass, ThresholdDrop,
         BatchCheck, BatchSend, BatchDone, Forward, Refuse, Refused
<1>3. now' \in 0..MaxTime /\ now <= now'
  BY <1>1, <1>2 DEF StampOK
<1>4. CASE Enter(p)
  <2>1. PICK h \in Hashes : body' = [body EXCEPT ![p] = h]
    BY <1>4 DEF Enter
  <2>2. /\ pc[p] = "idle" /\ UNCHANGED <<ll, ts, recency, seen, passed, mutex, lastVal, eventCh, emitted>>
        /\ pc' = [pc EXCEPT ![p] = IF "dedup" \in stages THEN "dedup" ELSE "enrich"]
    BY <1>4 DEF Enter, Goto, cacheVars
  <2>3. ListOK' /\ StampOK'
    BY <1>1, <1>3, <2>2, CacheFrame DEF cacheVars
  <2>4. CallsOK'
    BY <1>1, <1>2, <2>1, <2>2 DEF CallsOK
  <2>5. MutexOK'
    BY <1>1, <1>2, <2>2 DEF MutexOK, CallsOK
  <2>6. \A q \in Publishers : (Pending(q)' <=> Pending(q)) /\ (Pending(q) => body'[q] = body[q])
    BY <1>1, <2>1, <2>2 DEF Pending, CallsOK
  <2>7. EmitOK'
    BY <1>1, <1>2, <2>2, <2>6, EmitFrame
  <2>8. QED
    BY <2>3, <2>4, <2>5, <2>7 DEF IndInv
<1>5. CASE DedupDrop(p)
  <2>1. /\ pc[p] = "dedup" /\ UNCHANGED <<mutex, lastVal, eventCh, emitted>> /\ Drop(body[p])
        /\ pc' = [pc EXCEPT ![p] = "idle"] /\ body' = [body EXCEPT ![p] = Never]
    BY <1>5 DEF DedupDrop, Goto
  <2>2. PICK h \in Hashes : h = body[p]
    BY <1>1, <2>1 DEF CallsOK
  <2>3. ListOK' /\ StampOK'
    BY <1>1, <1>2, <2>1, <2>2, CacheInd
  <2>4. CallsOK'
    BY <1>1, <1>2, <2>1 DEF CallsOK
  <2>5. MutexOK'
    BY <1>1, <1>2, <2>1 DEF MutexOK, CallsOK
  <2>6. \A q \in Publishers : (Pending(q)' <=> Pending(q)) /\ (Pending(q) => body'[q] = body[q])
    BY <1>1, <2>1 DEF Pending, CallsOK
  <2>7. EmitOK'
    BY <1>1, <1>2, <2>1, <2>6, EmitFrame
  <2>8. QED
    BY <2>3, <2>4, <2>5, <2>7 DEF IndInv
<1>6. CASE DedupPass(p)
  <2>1. /\ pc[p] = "dedup" /\ mutex = Free /\ mutex' = p /\ Pass(body[p])
        /\ UNCHANGED <<body, lastVal, eventCh, emitted>>
        /\ pc' = [pc EXCEPT ![p] = "enrich"]
    BY <1>6 DEF DedupPass, Goto
  <2>2. PICK h \in Hashes : h = body[p]
    BY <1>1, <2>1 DEF CallsOK
  <2>3. ListOK' /\ StampOK'
    BY <1>1, <1>2, <2>1, <2>2, CacheInd
  <2>4. CallsOK'
    BY <1>1, <1>2, <2>1 DEF CallsOK
  <2>5. MutexOK'
    BY <1>1, <1>2, <2>1 DEF MutexOK, CallsOK
  <2>6. \A q \in Publishers : (Pending(q)' <=> Pending(q)) /\ (Pending(q) => body'[q] = body[q])
    BY <1>1, <2>1 DEF Pending, CallsOK
  <2>7. EmitOK'
    BY <1>1, <1>2, <2>1, <2>6, EmitFrame
  <2>8. QED
    BY <2>3, <2>4, <2>5, <2>7 DEF IndInv
<1>7. CASE EnrichPanics(p) \/ ThresholdDrop(p) \/ Refused(p)
  <2>1. /\ pc[p] \in {"enrich", "refused"} /\ Return(p)
        /\ UNCHANGED <<ll, ts, recency, seen, passed, lastVal, eventCh, emitted>>
    BY <1>7 DEF EnrichPanics, ThresholdDrop, Refused, cacheVars
  <2>2. ListOK' /\ StampOK'
    BY <1>1, <1>3, <2>1, CacheFrame DEF cacheVars
  <2>3. eventCh' \in 0..Buffer
    BY <1>1, <2>1 DEF CallsOK
  <2>4. CallsOK' /\ MutexOK'
    BY <1>1, <1>2, <2>1, <2>3, ReturnInd
  <2>5. \A q \in Publishers : (Pending(q)' <=> Pending(q)) /\ (Pending(q) => body'[q] = body[q])
    BY <1>1, <2>1 DEF Pending, CallsOK, Return, Goto
  <2>6. EmitOK'
    BY <1>1, <1>2, <2>1, <2>5, EmitFrame
  <2>7. QED
    BY <2>2, <2>4, <2>6 DEF IndInv
<1>8. CASE ThresholdPass(p)
  <2>1. /\ pc[p] = "enrich" /\ UNCHANGED <<ll, ts, recency, seen, passed, mutex, body, eventCh>>
        /\ pc' = [pc EXCEPT ![p] = IF "batch" \in stages THEN "batch" ELSE "next"]
    BY <1>8 DEF ThresholdPass, Goto, cacheVars
  <2>2. ListOK' /\ StampOK'
    BY <1>1, <1>3, <2>1, CacheFrame DEF cacheVars
  <2>3. CallsOK' /\ MutexOK'
    BY <1>1, <1>2, <2>1 DEF CallsOK, MutexOK
  <2>4. EmitOK'
    BY <1>1, <1>8, ThresholdInd
  <2>5. QED
    BY <2>2, <2>3, <2>4 DEF IndInv
<1>9. CASE BatchCheck(p) \/ BatchDone(p)
  <2>1. /\ pc[p] \in {"batch", "select"}
        /\ UNCHANGED <<ll, ts, recency, seen, passed, mutex, body, lastVal, eventCh, emitted>>
    BY <1>9 DEF BatchCheck, BatchDone, cacheVars
  <2>2. PICK l \in {"select", "next"} : pc' = [pc EXCEPT ![p] = l]
    BY <1>9 DEF BatchCheck, BatchDone, Goto
  <2>3. ListOK' /\ StampOK'
    BY <1>1, <1>3, <2>1, CacheFrame DEF cacheVars
  <2>4. CallsOK' /\ MutexOK'
    BY <1>1, <1>2, <2>1, <2>2 DEF CallsOK, MutexOK
  <2>5. \A q \in Publishers : Pending(q)' <=> Pending(q)
    BY <1>1, <2>1, <2>2 DEF Pending, CallsOK
  <2>6. EmitOK'
    BY <1>1, <1>2, <2>1, <2>5, EmitFrame
  <2>7. QED
    BY <2>3, <2>4, <2>6 DEF IndInv
<1>10. CASE BatchSend(p) \/ Forward(p)
  <2>1. /\ pc[p] \in {"select", "next"} /\ Emit(p) /\ Return(p)
        /\ UNCHANGED <<ll, ts, recency, seen, passed, lastVal>>
    BY <1>10 DEF BatchSend, Forward, cacheVars
  <2>2. eventCh' \in 0..Buffer
    BY <1>1, <1>10 DEF BatchSend, Forward, CallsOK
  <2>3. ListOK' /\ StampOK'
    BY <1>1, <1>3, <2>1, CacheFrame DEF cacheVars
  <2>4. CallsOK' /\ MutexOK'
    BY <1>1, <1>2, <2>1, <2>2, ReturnInd
  <2>5. Pending(p) /\ pc'[p] = "idle" /\ \A q \in Publishers \ {p} : pc'[q] = pc[q]
    BY <1>1, <2>1 DEF Pending, CallsOK, Return, Goto
  <2>6. EmitOK'
    BY <1>1, <1>2, <2>1, <2>5, LeaveInd
  <2>7. QED
    BY <2>3, <2>4, <2>6 DEF IndInv
<1>11. CASE Refuse(p)
  <2>1. /\ pc[p] = "next" /\ Emit(p) /\ pc' = [pc EXCEPT ![p] = "refused"]
        /\ UNCHANGED <<ll, ts, recency, seen, passed, mutex, body, lastVal, eventCh>>
    BY <1>11 DEF Refuse, Goto, cacheVars
  <2>2. ListOK' /\ StampOK'
    BY <1>1, <1>3, <2>1, CacheFrame DEF cacheVars
  <2>3. CallsOK' /\ MutexOK'
    BY <1>1, <1>2, <2>1 DEF CallsOK, MutexOK
  <2>4. Pending(p) /\ pc'[p] = "refused" /\ \A q \in Publishers \ {p} : pc'[q] = pc[q]
    BY <1>1, <2>1 DEF Pending, CallsOK
  <2>5. EmitOK'
    BY <1>1, <1>2, <2>1, <2>4, LeaveInd
  <2>6. QED
    BY <2>2, <2>3, <2>5 DEF IndInv
<1>12. QED
  BY <1>4, <1>5, <1>6, <1>7, <1>8, <1>9, <1>10, <1>11 DEF Step

\* Every step keeps the invariant.
LEMMA NextInd == IndInv /\ [Next]_vars => IndInv'
<1>1. SUFFICES ASSUME IndInv, [Next]_vars PROVE IndInv'
  OBVIOUS
<1>2. ListOK /\ StampOK /\ CallsOK /\ MutexOK /\ EmitOK
  BY <1>1 DEF IndInv
<1>3. CASE \/ Tick \/ Worker \/ Cancel \/ Seal \/ UNCHANGED vars
           \/ \E p \in Publishers : EnrichKills(p)
  <2>0. USE DEF EnrichKills
  <2>1. UNCHANGED <<cacheVars, stages, mutex, pc, body, lastVal, emitted>>
    BY <1>3 DEF Tick, Worker, Cancel, Seal, vars, callVars
  <2>2. now' \in 0..MaxTime /\ now <= now'
    BY <1>2, <1>3 DEF Tick, Worker, Cancel, Seal, vars, StampOK
  <2>3. gen' \in {"live", "cancelled", "sealed", "dead"}
    BY <1>2, <1>3 DEF Tick, Worker, Cancel, Seal, vars, CallsOK
  <2>4. eventCh' \in 0..Buffer
    BY <1>2, <1>3 DEF Tick, Worker, Cancel, Seal, vars, CallsOK
  <2>5. ListOK' /\ StampOK'
    BY <1>2, <2>1, <2>2, CacheFrame
  <2>6. CallsOK' /\ MutexOK' /\ EmitOK'
    BY <1>2, <2>1, <2>3, <2>4, CallsFrame
  <2>7. QED
    BY <2>5, <2>6 DEF IndInv
<1>4. CASE \E p \in Publishers : (Enter(p) \/ Step(p)) /\ ~EnrichKills(p)
  BY <1>1, <1>4, CallInd
<1>5. QED
  BY <1>1, <1>3, <1>4 DEF Next, Dead

\* The invariant holds in every reachable state.
THEOREM Inductive == Spec => []IndInv
  BY InitInd, NextInd, PTL DEF Spec

---------------------------------------------------------------------------
(* What it is for.                                                         *)

\* However the calls interleave, the cache holds exactly the CacheSize most recently
\* seen hashes, most recent first (dedup.go, NewDedup's handler).
THEOREM CacheIsMostRecent == Spec => []HoldsMostRecent
<1>1. ASSUME IndInv PROVE HoldsMostRecent
  <2>1. ListOK /\ StampOK /\ CallsOK
    BY <1>1 DEF IndInv
  <2>2. Len(ll) \in Nat /\ Len(recency) \in Nat /\ Len(ll) <= CacheSize /\ Len(ll) <= Len(recency)
    BY <2>1 DEF ListOK, Recent
  <2>3. \A h \in Hashes : Contains(ll, h) => ts[h] # Never
    <3>1. SUFFICES ASSUME NEW h \in Hashes, Contains(ll, h) PROVE ts[h] # Never
      OBVIOUS
    <3>2. PICK i \in 1..Len(ll) : ll[i] = h
      BY <3>1 DEF Contains
    <3>3. i \in 1..Len(recency) /\ recency[i] = h
      BY <2>1, <2>2, <3>2 DEF ListOK, Recent
    <3>4. Contains(recency, h)
      BY <3>3 DEF Contains
    <3>5. QED
      BY <2>1, <3>4 DEF StampOK
  <2>4. \A i, j \in DOMAIN ll : ll[i] = ll[j] => i = j
    BY <2>1, <2>2 DEF ListOK, Recent, Distinct
  <2>5. TypeOK
    BY <2>1, <2>2, <2>3, <2>4 DEF TypeOK, CacheTypeOK, ListOK, StampOK, CallsOK
  <2>6. MostRecent = SubSeq(recency, 1, Len(ll))
    BY <2>1 DEF MostRecent, ListOK, Recent
  <2>7. \A i \in 1..Len(ll) : recency[i] \in Hashes
    BY <2>1, <2>2, ElementOfSeq DEF ListOK
  <2>8. /\ MostRecent \in Seq(Hashes) /\ Len(MostRecent) = Len(ll)
        /\ \A i \in 1..Len(ll) : MostRecent[i] = recency[i]
    BY <2>2, <2>6, <2>7
  <2>9. \A i \in 1..Len(ll) : ll[i] = MostRecent[i]
    BY <2>1, <2>8 DEF ListOK, Recent
  <2>10. ll = MostRecent
    BY <2>1, <2>8, <2>9, SeqEqual DEF ListOK
  <2>11. QED
    BY <2>5, <2>10 DEF HoldsMostRecent
<1>2. QED
  BY <1>1, Inductive, PTL

\* Dedup drops nothing that was last seen longer than its TTL ago, and within a TTL
\* of letting an event through, only a cache that CacheSize others have been through
\* lets its like pass again (dedup.go, the check and the eviction).
THEOREM DedupExact == Spec => DedupIsExact
<1>1. ASSUME IndInv
      PROVE  \A p \in Inside :
               /\ DedupDrop(p) /\ body[p] \in Probes => InWindow(seen[body[p]])
               /\ DedupPass(p) /\ InWindow(passed[body[p]]) => CrowdedOut(body[p])
  <2>1. ListOK /\ StampOK /\ CallsOK
    BY <1>1 DEF IndInv
  <2>2. SUFFICES ASSUME NEW p \in Publishers, pc[p] # "idle"
                 PROVE  /\ DedupDrop(p) /\ body[p] \in Probes => InWindow(seen[body[p]])
                        /\ DedupPass(p) /\ InWindow(passed[body[p]]) => CrowdedOut(body[p])
    BY DEF Inside
  <2>3. PICK h \in Hashes : h = body[p]
    BY <2>1, <2>2 DEF CallsOK
  <2>4. Len(ll) \in Nat /\ Len(recency) \in Nat /\ Len(ll) <= Len(recency)
    BY <2>1 DEF ListOK, Recent
  <2>5. Contains(ll, h) => ts[h] # Never
    <3>1. Contains(ll, h) => Contains(recency, h)
      BY <2>1, <2>4 DEF ListOK, Recent, Contains
    <3>2. QED
      BY <2>1, <3>1 DEF StampOK
  <2>6. DedupDrop(p) /\ h \in Probes => InWindow(seen[h])
    BY <2>1, <2>3, <2>5 DEF DedupDrop, Drop, FreshEntry, InWindow, StampOK
  <2>7. ASSUME DedupPass(p), InWindow(passed[h]) PROVE CrowdedOut(h)
    <3>1. ts[h] # Never /\ ~Contains(ll, h)
      BY <2>1, <2>3, <2>7 DEF DedupPass, Pass, FreshEntry, InWindow, StampOK
    <3>2. PICK i \in 1..Len(recency) : recency[i] = h
      BY <2>1, <3>1 DEF StampOK, Contains
    <3>3. i > Len(ll)
      BY <2>1, <2>4, <3>1, <3>2 DEF ListOK, Recent, Contains
    <3>4. i > CacheSize
      BY <2>1, <2>4, <3>2, <3>3 DEF ListOK, Recent
    <3>5. DOMAIN recency = 1..Len(recency)
      BY <2>1 DEF ListOK
    <3>6. QED
      BY <3>2, <3>4, <3>5 DEF CrowdedOut
  <2>8. QED
    BY <2>3, <2>6, <2>7
<1>2. QED
  BY <1>1, Inductive, PTL DEF DedupIsExact

\* With dedup in front, each number that leaves the chain is a delta away from the
\* one that left before it and one that is dropped is not, although threshold.go
\* releases its mutex before it calls next.
THEOREM ThresholdExact == Spec => ThresholdIsExact
<1>1. ASSUME IndInv
      PROVE  \A p \in Inside :
               "dedup" \in stages /\ Compared(p) /\ emitted # NoValue =>
                 /\ BatchSend(p) \/ Forward(p) \/ Refuse(p) => Moved(Value[body[p]], emitted)
                 /\ ThresholdDrop(p) => ~Moved(Value[body[p]], emitted)
  <2>1. MutexOK /\ EmitOK
    BY <1>1 DEF IndInv
  <2>2. SUFFICES ASSUME NEW p \in Publishers, "dedup" \in stages, Compared(p), emitted # NoValue
                 PROVE  /\ BatchSend(p) \/ Forward(p) \/ Refuse(p) => Moved(Value[body[p]], emitted)
                        /\ ThresholdDrop(p) => ~Moved(Value[body[p]], emitted)
    BY DEF Inside
  <2>3. BatchSend(p) \/ Forward(p) \/ Refuse(p) => Moved(Value[body[p]], emitted)
    BY <2>1, <2>2 DEF BatchSend, Forward, Refuse, Pending, EmitOK
  <2>4. ASSUME ThresholdDrop(p) PROVE ~Moved(Value[body[p]], emitted)
    <3>1. pc[p] = "enrich" /\ ~Moved(Value[body[p]], lastVal)
      BY <2>4 DEF ThresholdDrop, TooClose
    <3>2. \A q \in Publishers : ~Pending(q)
      BY <2>1, <2>2, <3>1, Alone DEF Pending
    <3>3. QED
      BY <2>1, <2>2, <3>1, <3>2 DEF EmitOK
  <2>5. QED
    BY <2>3, <2>4
<1>2. QED
  BY <1>1, Inductive, PTL DEF ThresholdIsExact
============================================================================
