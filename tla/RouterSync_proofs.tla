-------------------------- MODULE RouterSync_proofs --------------------------
(***************************************************************************)
(* What the router commands promise without a lock, for any configuration, *)
(* any number of commands and any length of the history, and that the      *)
(* weights they compute add up, for any endpoints and percentages.         *)
(***************************************************************************)
EXTENDS RouterSync, SequenceTheorems, WellFoundedInduction, TLAPS

IsSeq(s) == \E S : s \in Seq(S)

Shape ==
    /\ DOMAIN pc = Slots /\ DOMAIN cmd = Slots /\ DOMAIN before = Slots /\ DOMAIN seen = Slots
    /\ IsSeq(history) /\ IsSeq(applies) /\ IsSeq(saves)
    /\ \A c \in Slots : IsSeq(seen[c])
    /\ disturbed \in BOOLEAN

(* A command without the approval it needs is past its preview only with   *)
(* a routing that was in force then.                                       *)
PreviewedSame ==
    \A c \in Slots : pc[c] = "sync" /\ cmd[c].order.guard = "unapproved" =>
        before[c] = cmd[c].routing

(* What the snapshots h have of those saved so far: all but the exposed    *)
(* and the old ones, none further from its end than it must be.            *)
KeptIn(h, saved, raced) ==
    \A i \in DOMAIN saved :
        \/ saved[i] \in raced
        \/ Len(saved) - i >= Keep
        \/ \E j \in DOMAIN h : h[j].id = saved[i] /\ Len(h) - j <= Len(saved) - i

(* The file has them, and so has every copy that is about to replace it.   *)
KeptInv ==
    /\ KeptIn(history, saves, exposed)
    /\ \A c \in Slots : pc[c] = "save" => KeptIn(seen[c], saves, exposed)

(* The place of the last of some snapshots.                                *)
IsLast(i, places) == i \in places /\ \A j \in places : j <= i

(* The n-th routing of a list is that of the last applied snapshot, and of *)
(* the last but one, if there is one.                                      *)
LastIs(h, list, n) ==
    Applied(h) # {} =>
        \E i \in DOMAIN h : IsLast(i, Applied(h)) /\ n >= 1 /\ h[i].routing = list[n]

LastButOneIs(h, list, n) ==
    \A i \in Applied(h) : IsLast(i, Applied(h)) /\ Applied(h) \ {i} # {} =>
        \E j \in DOMAIN h :
            IsLast(j, Applied(h) \ {i}) /\ n >= 1 /\ h[j].routing = list[n]

(* The history ends with the applies in their order, but for the one that  *)
(* is being recorded.                                                      *)
Recorded ==
    IF Recording = {}
    THEN LastIs(history, applies, Len(applies)) /\ LastButOneIs(history, applies, Len(applies) - 1)
    ELSE LastIs(history, applies, Len(applies) - 1)

(* Without a disturbance one command at most is recording its apply, every *)
(* command about to write the history has read what is there, and what is  *)
(* there is in order.                                                      *)
RecordInv ==
    ~disturbed =>
        /\ \A c, d \in Recording : c = d
        /\ \A c \in Recording :
              Len(applies) >= 1 /\ cmd[c].routing = applies[Len(applies)]
        /\ \A c \in Slots : pc[c] = "save" => seen[c] = history
        /\ Recorded

-----------------------------------------------------------------------------
LEMMA SeqShape ==
    ASSUME NEW s, IsSeq(s)
    PROVE  Len(s) \in Nat /\ DOMAIN s = 1..Len(s)
<1>1. PICK S : s \in Seq(S)
  BY DEF IsSeq
<1> QED
  BY <1>1, LenProperties

LEMMA AppendShape ==
    ASSUME NEW s, IsSeq(s), NEW x
    PROVE  /\ IsSeq(Append(s, x)) /\ Append(s, x) # <<>>
           /\ Len(Append(s, x)) = Len(s) + 1 /\ Append(s, x)[Len(s) + 1] = x
           /\ \A i \in 1..Len(s) : Append(s, x)[i] = s[i]
<1>1. PICK S : s \in Seq(S)
  BY DEF IsSeq
<1>2. s \in Seq(S \cup {x}) /\ x \in S \cup {x}
  BY <1>1
<1>3. Append(s, x) \in Seq(S \cup {x}) /\ Len(Append(s, x)) = Len(s) + 1
      /\ Append(s, x)[Len(s) + 1] = x /\ \A i \in 1..Len(s) : Append(s, x)[i] = s[i]
  BY <1>2, AppendProperties
<1>4. Len(s) \in Nat
  BY SeqShape
<1>5. Append(s, x) # <<>>
  BY <1>3, <1>4, EmptySeq
<1> QED
  BY <1>3, <1>5 DEF IsSeq

LEMMA SubSeqShape ==
    ASSUME NEW s, IsSeq(s), NEW k \in Nat, k < Len(s)
    PROVE  LET t == SubSeq(s, k + 1, Len(s))
           IN  IsSeq(t) /\ Len(t) = Len(s) - k /\ \A i \in 1..Len(t) : t[i] = s[i + k]
<1>1. PICK S : s \in Seq(S)
  BY DEF IsSeq
<1>2. Len(s) \in Nat
  BY SeqShape
<1> DEFINE t == SubSeq(s, k + 1, Len(s))
<1>3. k + 1 \in 1..Len(s) + 1 /\ Len(s) \in k..Len(s)
  BY <1>2
<1>4. t \in Seq(S) /\ Len(t) = Len(s) - (k + 1) + 1
      /\ \A i \in 1..(Len(s) - (k + 1) + 1) : t[i] = s[k + 1 + i - 1]
  BY <1>1, <1>2, <1>3, SubSeqProperties
<1>5. \A i \in 1..(Len(s) - k) : k + 1 + i - 1 = i + k
  BY <1>2
<1>6. Len(s) - (k + 1) + 1 = Len(s) - k
  BY <1>2
<1> QED
  BY <1>4, <1>5, <1>6 DEF IsSeq

(* What a save leaves of a history h of which it drops the first k.        *)
Pushed(t, h, x, k) ==
    /\ IsSeq(t) /\ k \in Nat /\ k <= Len(h) /\ Len(t) = Len(h) + 1 - k
    /\ k > 0 => Len(t) = Keep
    /\ t[Len(t)] = x
    /\ \A j \in 1..Len(t) : j < Len(t) => t[j] = h[j + k]

LEMMA TrimmedShape ==
    ASSUME NEW h, IsSeq(h), NEW x
    PROVE  \E k : Pushed(Trimmed(Append(h, x)), h, x, k)
<1> DEFINE a == Append(h, x)
<1> DEFINE t == Trimmed(a)
<1>1. IsSeq(a) /\ Len(a) = Len(h) + 1 /\ a[Len(h) + 1] = x /\ \A i \in 1..Len(h) : a[i] = h[i]
  BY AppendShape
<1>2. Len(h) \in Nat /\ Keep \in Nat \ {0}
  BY SeqShape, KeepAssumption
<1> HIDE DEF a
<1>3. CASE Len(a) <= Keep
  <2>1. t = a
    BY <1>1, <1>2, <1>3 DEF Trimmed
  <2>2. Pushed(a, h, x, 0)
    BY <1>1, <1>2 DEF Pushed
  <2> QED
    BY <2>1, <2>2 DEF a
<1>4. CASE Len(a) > Keep
  <2> DEFINE k == Len(a) - Keep
  <2>1. k \in Nat /\ k < Len(a) /\ k > 0 /\ Larger(1, Len(a) - Keep + 1) = k + 1
    BY <1>1, <1>2, <1>4 DEF Larger
  <2>2. t = SubSeq(a, k + 1, Len(a))
    BY <1>4, <2>1 DEF Trimmed, Newest
  <2> HIDE DEF k, t
  <2>3. IsSeq(t) /\ Len(t) = Len(a) - k /\ \A i \in 1..Len(t) : t[i] = a[i + k]
    BY <1>1, <2>1, <2>2, SubSeqShape
  <2>4. k <= Len(h) /\ Len(t) = Len(h) + 1 - k /\ Len(t) = Keep
    BY <1>1, <1>2, <2>1, <2>3 DEF k
  <2>5. t[Len(t)] = x
    BY <1>1, <1>2, <2>1, <2>3, <2>4
  <2>6. \A j \in 1..Len(t) : j < Len(t) => t[j] = h[j + k]
    BY <1>1, <1>2, <2>1, <2>3, <2>4
  <2>7. Pushed(t, h, x, k)
    BY <2>1, <2>3, <2>4, <2>5, <2>6 DEF Pushed
  <2> QED
    BY <2>7 DEF t, a
<1> QED
  BY <1>1, <1>2, <1>3, <1>4

(* A save keeps what the copy it is made from had of the snapshots saved,  *)
(* and the new one.                                                        *)
LEMMA KeptPushed ==
    ASSUME NEW h, IsSeq(h), NEW t, NEW x, NEW k, Pushed(t, h, x, k),
           NEW saved, IsSeq(saved), NEW raced, NEW raced2, raced \subseteq raced2,
           KeptIn(h, saved, raced)
    PROVE  KeptIn(t, Append(saved, x.id), raced2)
<1> DEFINE new == Append(saved, x.id)
<1>1. Len(h) \in Nat /\ DOMAIN h = 1..Len(h) /\ Len(saved) \in Nat /\ DOMAIN saved = 1..Len(saved)
  BY SeqShape
<1>2. IsSeq(t) /\ Len(t) \in Nat /\ DOMAIN t = 1..Len(t)
  BY SeqShape DEF Pushed
<1>3. IsSeq(new) /\ Len(new) = Len(saved) + 1 /\ new[Len(saved) + 1] = x.id
      /\ \A i \in 1..Len(saved) : new[i] = saved[i]
  BY AppendShape
<1>4. DOMAIN new = 1..(Len(saved) + 1)
  BY <1>3, SeqShape
<1> HIDE DEF new
<1>5. ASSUME NEW i \in DOMAIN new
      PROVE  \/ new[i] \in raced2
             \/ Len(new) - i >= Keep
             \/ \E j \in DOMAIN t : t[j].id = new[i] /\ Len(t) - j <= Len(new) - i
  <2>1. CASE i = Len(saved) + 1
    <3>1. Len(t) \in DOMAIN t /\ t[Len(t)] = x
      BY <1>1, <1>2 DEF Pushed
    <3> QED
      BY <1>1, <1>2, <1>3, <2>1, <3>1
  <2>2. CASE i \in DOMAIN saved
    <3>1. new[i] = saved[i] /\ Len(new) - i = Len(saved) - i + 1
      BY <1>1, <1>3, <2>2
    <3>2. CASE saved[i] \in raced \/ Len(saved) - i >= Keep
      BY <1>1, <1>3, <2>2, <3>1, <3>2, KeepAssumption
    <3>3. CASE \E j \in DOMAIN h : h[j].id = saved[i] /\ Len(h) - j <= Len(saved) - i
      <4>1. PICK j \in DOMAIN h : h[j].id = saved[i] /\ Len(h) - j <= Len(saved) - i
        BY <3>3
      <4>2. CASE j <= k
        BY <1>1, <1>2, <3>1, <4>1, <4>2, KeepAssumption DEF Pushed
      <4>3. CASE j > k
        <5>1. j - k \in DOMAIN t /\ j - k < Len(t) /\ (j - k) + k = j
          <6>1. j \in Nat /\ k \in Nat /\ j <= Len(h) /\ Len(t) = Len(h) + 1 - k
            BY <1>1, <4>1 DEF Pushed
          <6> QED
            BY <1>1, <1>2, <4>3, <6>1
        <5>2. t[j - k].id = new[i]
          BY <1>2, <3>1, <4>1, <5>1 DEF Pushed
        <5>3. Len(t) - (j - k) <= Len(new) - i
          BY <1>1, <1>2, <3>1, <4>1 DEF Pushed
        <5> QED
          BY <5>1, <5>2, <5>3
      <4> QED
        BY <1>1, <4>1, <4>2, <4>3 DEF Pushed
    <3> QED
      BY <2>2, <3>2, <3>3 DEF KeptIn
  <2> QED
    BY <1>1, <1>4, <2>1, <2>2
<1>6. KeptIn(t, new, raced2)
  BY <1>5 DEF KeptIn
<1> QED
  BY <1>6 DEF new

(* The applied snapshots of a history that grew.                           *)
LEMMA AppliedPushed ==
    ASSUME NEW h, IsSeq(h), NEW t, NEW x, NEW k, Pushed(t, h, x, k)
    PROVE  /\ \A j \in DOMAIN t : j # Len(t) => (j \in Applied(t) <=> j + k \in Applied(h))
           /\ \A i \in Applied(h) : i > k => i - k \in Applied(t) /\ i - k < Len(t)
           /\ Len(t) \in DOMAIN t
           /\ Len(t) \in Applied(t) <=> ~x.dry
<1>1. Len(h) \in Nat /\ DOMAIN h = 1..Len(h)
  BY SeqShape
<1>2. IsSeq(t) /\ Len(t) \in Nat /\ DOMAIN t = 1..Len(t) /\ k \in Nat /\ Len(t) = Len(h) + 1 - k
  BY SeqShape DEF Pushed
<1>3. \A j \in DOMAIN t : j # Len(t) => j + k \in DOMAIN h /\ t[j] = h[j + k]
  BY <1>1, <1>2 DEF Pushed
<1>4. ASSUME NEW i \in Applied(h), i > k
      PROVE  i - k \in Applied(t) /\ i - k < Len(t)
  <2>1. i - k \in DOMAIN t /\ i - k < Len(t) /\ (i - k) + k = i
    BY <1>1, <1>2, <1>4 DEF Applied, Pushed
  <2>2. t[i - k] = h[i]
    BY <1>2, <1>3, <2>1
  <2> QED
    BY <2>1, <2>2 DEF Applied
<1>5. Len(t) \in DOMAIN t /\ t[Len(t)] = x
  BY <1>1, <1>2 DEF Pushed
<1> QED
  BY <1>3, <1>4, <1>5 DEF Applied

(* A dry run's snapshot moves neither of the last two.                     *)
LEMMA DryPushed ==
    ASSUME NEW h, IsSeq(h), NEW t, NEW x, NEW k, Pushed(t, h, x, k), x.dry, NEW list, NEW n
    PROVE  /\ LastIs(h, list, n) => LastIs(t, list, n)
           /\ LastButOneIs(h, list, n) => LastButOneIs(t, list, n)
<1>1. Len(h) \in Nat /\ DOMAIN h = 1..Len(h)
  BY SeqShape
<1>2. Len(t) \in Nat /\ DOMAIN t = 1..Len(t) /\ k \in Nat
  BY SeqShape DEF Pushed
<1>3. \A j \in Applied(t) : j \in DOMAIN t /\ j # Len(t) /\ j + k \in Applied(h)
  BY AppliedPushed DEF Applied
<1>4. \A i \in Applied(h) : i > k => i - k \in Applied(t) /\ i - k < Len(t)
  BY AppliedPushed
<1>5. \A i \in Applied(h) : i \in Nat /\ i \in DOMAIN h
  BY <1>1 DEF Applied
<1>6. \A j \in Applied(t) : j \in Nat /\ j \in DOMAIN t
  BY <1>2 DEF Applied
<1>7. \A j \in DOMAIN t : j < Len(t) => t[j] = h[j + k]
  BY <1>2 DEF Pushed
<1>8. ASSUME LastIs(h, list, n), Applied(t) # {}
      PROVE  \E i \in DOMAIN t : IsLast(i, Applied(t)) /\ n >= 1 /\ t[i].routing = list[n]
  <2>1. PICK m \in Applied(t) : TRUE
    BY <1>8
  <2>2. PICK i \in DOMAIN h : IsLast(i, Applied(h)) /\ n >= 1 /\ h[i].routing = list[n]
    BY <1>3, <1>8, <2>1 DEF LastIs
  <2>3. i \in Nat /\ m \in Nat /\ m + k <= i /\ m >= 1
    BY <1>2, <1>3, <1>5, <1>6, <2>1, <2>2 DEF IsLast
  <2>4. i - k \in Applied(t) /\ i - k < Len(t) /\ (i - k) + k = i
    BY <1>2, <1>4, <2>2, <2>3 DEF IsLast
  <2>5. \A j \in Applied(t) : j <= i - k
    <3>1. SUFFICES ASSUME NEW j \in Applied(t) PROVE j <= i - k
      OBVIOUS
    <3>2. j + k <= i /\ j \in Nat
      BY <1>3, <1>6, <2>2 DEF IsLast
    <3> QED
      BY <1>2, <2>3, <3>2
  <2>6. t[i - k] = h[i]
    BY <1>6, <1>7, <2>4
  <2> QED
    BY <1>6, <2>2, <2>4, <2>5, <2>6 DEF IsLast
<1>9. ASSUME LastButOneIs(h, list, n), NEW i \in Applied(t), IsLast(i, Applied(t)),
             Applied(t) \ {i} # {}
      PROVE  \E j \in DOMAIN t :
                IsLast(j, Applied(t) \ {i}) /\ n >= 1 /\ t[j].routing = list[n]
  <2>1. PICK m \in Applied(t) : m # i
    BY <1>9
  <2>2. i + k \in Applied(h) /\ m + k \in Applied(h) /\ i \in Nat /\ m \in Nat /\ m >= 1
        /\ m + k # i + k
    BY <1>2, <1>3, <1>6, <2>1
  <2>3. \A j \in Applied(h) : j <= i + k
    <3>1. SUFFICES ASSUME NEW j \in Applied(h) PROVE j <= i + k
      OBVIOUS
    <3>2. CASE j > k
      <4>1. j - k <= i
        BY <1>4, <1>9, <3>1, <3>2 DEF IsLast
      <4> QED
        BY <1>2, <1>5, <2>2, <3>1, <4>1
    <3> QED
      BY <1>2, <1>5, <2>2, <3>1, <3>2
  <2>4. IsLast(i + k, Applied(h)) /\ Applied(h) \ {i + k} # {}
    BY <2>2, <2>3 DEF IsLast
  <2>5. PICK j \in DOMAIN h :
          IsLast(j, Applied(h) \ {i + k}) /\ n >= 1 /\ h[j].routing = list[n]
    BY <1>9, <2>2, <2>4 DEF LastButOneIs
  <2>6. j \in Applied(h) /\ j \in Nat /\ j # i + k /\ m + k <= j
    BY <1>5, <2>2, <2>5 DEF IsLast
  <2>7. j > k /\ (j - k) + k = j /\ j - k # i
    BY <1>2, <2>2, <2>6
  <2>8. j - k \in Applied(t) /\ j - k < Len(t)
    BY <1>4, <2>6, <2>7
  <2>9. \A l \in Applied(t) \ {i} : l <= j - k
    <3>1. SUFFICES ASSUME NEW l \in Applied(t) \ {i} PROVE l <= j - k
      OBVIOUS
    <3>2. l + k \in Applied(h) /\ l \in Nat /\ l + k # i + k
      <4>1. l + k \in Applied(h) /\ l \in Nat /\ l # i
        BY <1>3, <1>6
      <4> QED
        BY <1>2, <2>2, <4>1
    <3>3. l + k <= j
      BY <2>5, <3>2 DEF IsLast
    <3> QED
      BY <1>2, <2>6, <3>2, <3>3
  <2>10. t[j - k] = h[j]
    BY <1>6, <1>7, <2>7, <2>8
  <2> QED
    BY <1>6, <2>5, <2>7, <2>8, <2>9, <2>10 DEF IsLast
<1> QED
  BY <1>8, <1>9 DEF LastIs, LastButOneIs

(* The snapshot of an apply becomes the last, and the last before it the   *)
(* last but one.                                                           *)
LEMMA AppliedIsLast ==
    ASSUME NEW h, IsSeq(h), NEW t, NEW x, NEW k, Pushed(t, h, x, k), ~x.dry,
           NEW list, NEW n \in Nat, n >= 1, x.routing = list[n], LastIs(h, list, n - 1)
    PROVE  LastIs(t, list, n) /\ LastButOneIs(t, list, n - 1)
<1>1. Len(h) \in Nat /\ DOMAIN h = 1..Len(h)
  BY SeqShape
<1>2. Len(t) \in Nat /\ DOMAIN t = 1..Len(t) /\ k \in Nat
  BY SeqShape DEF Pushed
<1>3. \A j \in Applied(t) : j # Len(t) => j + k \in Applied(h)
  BY AppliedPushed DEF Applied
<1>4. \A i \in Applied(h) : i > k => i - k \in Applied(t) /\ i - k < Len(t)
  BY AppliedPushed
<1>5. \A i \in Applied(h) : i \in Nat
  BY <1>1 DEF Applied
<1>6. \A j \in Applied(t) : j \in Nat /\ j \in DOMAIN t /\ j >= 1 /\ j <= Len(t)
  BY <1>2 DEF Applied
<1>7. \A j \in DOMAIN t : j < Len(t) => t[j] = h[j + k]
  BY <1>2 DEF Pushed
<1>8. IsLast(Len(t), Applied(t)) /\ Len(t) \in DOMAIN t /\ t[Len(t)] = x
  BY <1>6, AppliedPushed DEF IsLast, Pushed
<1>9. LastIs(t, list, n)
  BY <1>8 DEF LastIs
<1>10. ASSUME NEW i \in Applied(t), IsLast(i, Applied(t)), Applied(t) \ {i} # {}
       PROVE  \E j \in DOMAIN t :
                 IsLast(j, Applied(t) \ {i}) /\ n - 1 >= 1 /\ t[j].routing = list[n - 1]
  <2>1. i = Len(t)
    BY <1>2, <1>6, <1>8, <1>10 DEF IsLast
  <2>2. PICK m \in Applied(t) : m # Len(t)
    BY <1>10, <2>1
  <2>3. m + k \in Applied(h) /\ m \in Nat /\ m >= 1
    BY <1>3, <1>6, <2>2
  <2>4. PICK j \in DOMAIN h :
          IsLast(j, Applied(h)) /\ n - 1 >= 1 /\ h[j].routing = list[n - 1]
    BY <2>3 DEF LastIs
  <2>5. j \in Applied(h) /\ j \in Nat /\ m + k <= j
    BY <1>5, <2>3, <2>4 DEF IsLast
  <2>6. j > k /\ (j - k) + k = j
    BY <1>2, <2>3, <2>5
  <2>7. j - k \in Applied(t) /\ j - k < Len(t)
    BY <1>4, <2>5, <2>6
  <2>8. \A l \in Applied(t) \ {i} : l <= j - k
    <3>1. SUFFICES ASSUME NEW l \in Applied(t) \ {i} PROVE l <= j - k
      OBVIOUS
    <3>2. l + k \in Applied(h) /\ l \in Nat
      BY <1>3, <1>6, <2>1
    <3>3. l + k <= j
      BY <2>4, <3>2 DEF IsLast
    <3> QED
      BY <1>2, <2>5, <3>2, <3>3
  <2>9. t[j - k] = h[j]
    BY <1>6, <1>7, <2>6, <2>7
  <2>10. j - k # i
    BY <1>2, <2>1, <2>7, <2>5
  <2> QED
    BY <1>6, <2>4, <2>7, <2>8, <2>9, <2>10 DEF IsLast
<1> QED
  BY <1>9, <1>10 DEF LastButOneIs

LEMMA LastUnique ==
    ASSUME NEW P, NEW i, IsLast(i, P), \A j \in P : j \in Nat
    PROVE  Last(P) = i
<1>1. \A j \in P : (\A m \in P : m <= j) => j = i
  BY DEF IsLast
<1> QED
  BY <1>1 DEF Last, IsLast

-----------------------------------------------------------------------------
(* The commands in the other slots.                                        *)
Others(c) ==
    \A d \in Slots \ {c} : /\ pc'[d] = pc[d] /\ cmd'[d] = cmd[d]
                           /\ before'[d] = before[d] /\ seen'[d] = seen[d]

LEMMA EndsEffect ==
    ASSUME Shape, NEW c \in Slots, Ends(c)
    PROVE  Others(c) /\ pc'[c] = "idle" /\ seen'[c] = <<>>
  BY DEF Shape, Ends, Goes, Others

LEMMA OthersEffect ==
    ASSUME Shape, NEW c \in Slots,
           \/ \E order \in Orders : Start(c, order)
           \/ Preview(c) \/ SyncRouter(c) \/ SyncFails(c)
           \/ LoadRouterSyncHistory(c) \/ SaveRouterSyncHistory(c) \/ AppendFails(c)
    PROVE  Others(c)
<1>1. ASSUME NEW order \in Orders, Start(c, order) PROVE Others(c)
  BY <1>1 DEF Start, Goes, Shape, Others
<1>2. CASE Preview(c)
  BY <1>2, EndsEffect DEF Preview, Goes, Shape, Others
<1>3. CASE SyncRouter(c) \/ LoadRouterSyncHistory(c)
  BY <1>3 DEF SyncRouter, LoadRouterSyncHistory, Goes, Shape, Others
<1>4. CASE SyncFails(c) \/ SaveRouterSyncHistory(c) \/ AppendFails(c)
  BY <1>4, EndsEffect DEF SyncFails, SaveRouterSyncHistory, AppendFails
<1> QED
  BY <1>1, <1>2, <1>3, <1>4

LEMMA ShapeInit == Init => Shape
<1>1. IsSeq(<<>>)
  <2>1. <<>> \in Seq({})
    BY EmptySeq
  <2> QED
    BY <2>1 DEF IsSeq
<1> QED
  BY <1>1 DEF Init, Shape

LEMMA ShapeStep == Shape /\ [Next]_vars => Shape'
<1> SUFFICES ASSUME Shape, [Next]_vars PROVE Shape'
  OBVIOUS
<1>1. CASE UNCHANGED vars
  BY <1>1 DEF vars, commands, Shape
<1>2. CASE Next
  <2>0. IsSeq(<<>>)
    <3>1. <<>> \in Seq({})
      BY EmptySeq
    <3> QED
      BY <3>1 DEF IsSeq
  <2>1. PICK c \in Slots :
           \/ \E order \in Orders : Start(c, order)
           \/ Preview(c) \/ SyncRouter(c) \/ SyncFails(c)
           \/ LoadRouterSyncHistory(c) \/ SaveRouterSyncHistory(c) \/ AppendFails(c)
    BY <1>2 DEF Next
  <2>2. ASSUME NEW order \in Orders, Start(c, order) PROVE Shape'
    BY <2>2 DEF Start, Goes, Shape
  <2>3. CASE Preview(c)
    BY <2>0, <2>3 DEF Preview, Ends, Goes, Shape
  <2>4. CASE SyncRouter(c)
    <3>1. DOMAIN pc' = Slots /\ UNCHANGED <<cmd, before, seen, history, saves>>
      BY <2>4 DEF SyncRouter, Goes, Shape
    <3>2. IsSeq(applies')
      BY <2>4, AppendShape DEF SyncRouter, Shape
    <3>3. disturbed' \in BOOLEAN
      BY <2>4 DEF SyncRouter, Shape
    <3> QED
      BY <3>1, <3>2, <3>3 DEF Shape
  <2>5. CASE SyncFails(c)
    BY <2>0, <2>5 DEF SyncFails, Ends, Goes, Shape
  <2>6. CASE LoadRouterSyncHistory(c)
    BY <2>6 DEF LoadRouterSyncHistory, Goes, Shape
  <2>7. CASE SaveRouterSyncHistory(c)
    <3>1. IsSeq(history')
      BY <2>7, TrimmedShape DEF SaveRouterSyncHistory, Shape, Pushed
    <3>2. IsSeq(saves')
      BY <2>7, AppendShape DEF SaveRouterSyncHistory, Shape
    <3>3. disturbed' \in BOOLEAN
      BY <2>7 DEF SaveRouterSyncHistory
    <3> QED
      BY <2>0, <2>7, <3>1, <3>2, <3>3 DEF SaveRouterSyncHistory, Ends, Goes, Shape
  <2>8. CASE AppendFails(c)
    BY <2>0, <2>8 DEF AppendFails, Ends, Goes, Shape
  <2> QED
    BY <2>1, <2>2, <2>3, <2>4, <2>5, <2>6, <2>7, <2>8
<1> QED
  BY <1>1, <1>2

LEMMA ShapeHolds == Spec => []Shape
  BY ShapeInit, ShapeStep, PTL DEF Spec

-----------------------------------------------------------------------------
LEMMA PreviewedInit == Init => PreviewedSame
  BY DEF Init, PreviewedSame

LEMMA PreviewedStep == Shape /\ PreviewedSame /\ [Next]_vars => PreviewedSame'
<1> SUFFICES ASSUME Shape, PreviewedSame, [Next]_vars PROVE PreviewedSame'
  OBVIOUS
<1>1. CASE UNCHANGED vars
  BY <1>1 DEF vars, commands, PreviewedSame
<1>2. CASE Next
  <2>1. PICK c \in Slots :
           \/ \E order \in Orders : Start(c, order)
           \/ Preview(c) \/ SyncRouter(c) \/ SyncFails(c)
           \/ LoadRouterSyncHistory(c) \/ SaveRouterSyncHistory(c) \/ AppendFails(c)
    BY <1>2 DEF Next
  <2>2. Others(c)
    BY <2>1, OthersEffect
  <2>3. SUFFICES (pc'[c] = "sync" /\ cmd'[c].order.guard = "unapproved")
                   => before'[c] = cmd'[c].routing
    BY <2>2 DEF PreviewedSame, Others
  <2>4. ASSUME NEW order \in Orders, Start(c, order)
        PROVE  pc'[c] # "sync" \/ cmd'[c].order.guard = "none"
    BY <2>4 DEF Start, Goes, Shape
  <2>5. CASE Preview(c)
    BY <2>5, EndsEffect DEF Preview, Goes, Shape, MutationAllowed
  <2>6. CASE SyncRouter(c) \/ LoadRouterSyncHistory(c)
    BY <2>6 DEF SyncRouter, LoadRouterSyncHistory, Goes, Shape
  <2>7. CASE SyncFails(c) \/ SaveRouterSyncHistory(c) \/ AppendFails(c)
    BY <2>7, EndsEffect DEF SyncFails, SaveRouterSyncHistory, AppendFails
  <2> QED
    BY <2>1, <2>4, <2>5, <2>6, <2>7
<1> QED
  BY <1>1, <1>2

(* Under a policy that asks for approvals, a command without one that      *)
(* changes the routing in force has been overtaken since its preview       *)
(* (runRouterDNSSyncWithPolicy, enforceRouterMutationPolicy).              *)
THEOREM ApprovalBypassedOnlyByOverlap == Spec => UnapprovedOnlyByOverlap
<1>1. Init => PreviewedSame
  BY PreviewedInit
<1>2. Shape /\ PreviewedSame /\ [Next]_vars => PreviewedSame'
  BY PreviewedStep
<1>3. PreviewedSame /\ [Next]_vars =>
        [\A c \in Slots :
            (SyncRouter(c) /\ cmd[c].order.guard = "unapproved")
                => dns' = dns \/ dns # before[c]]_vars
  BY DEF PreviewedSame, SyncRouter
<1> QED
  BY <1>1, <1>2, <1>3, ShapeHolds, PTL DEF Spec, UnapprovedOnlyByOverlap

-----------------------------------------------------------------------------
LEMMA KeptInit == Init => KeptInv
  BY DEF Init, KeptInv, KeptIn

(* One more id in saves is no loss to a copy when the id is exposed.       *)
LEMMA KeptExposed ==
    ASSUME NEW h, IsSeq(h), NEW saved, IsSeq(saved), NEW raced, NEW x,
           KeptIn(h, saved, raced)
    PROVE  KeptIn(h, Append(saved, x), raced \cup {x})
<1> DEFINE new == Append(saved, x)
<1>1. Len(h) \in Nat /\ DOMAIN h = 1..Len(h) /\ Len(saved) \in Nat /\ DOMAIN saved = 1..Len(saved)
  BY SeqShape
<1>2. IsSeq(new) /\ Len(new) = Len(saved) + 1 /\ new[Len(saved) + 1] = x
      /\ \A i \in 1..Len(saved) : new[i] = saved[i]
  BY AppendShape
<1>3. DOMAIN new = 1..(Len(saved) + 1)
  BY <1>2, SeqShape
<1> HIDE DEF new
<1>4. ASSUME NEW i \in DOMAIN new
      PROVE  \/ new[i] \in raced \cup {x}
             \/ Len(new) - i >= Keep
             \/ \E j \in DOMAIN h : h[j].id = new[i] /\ Len(h) - j <= Len(new) - i
  <2>1. CASE i = Len(saved) + 1
    BY <1>2, <2>1
  <2>2. CASE i \in DOMAIN saved
    <3>1. new[i] = saved[i] /\ Len(new) - i = Len(saved) - i + 1 /\ i \in Nat
      BY <1>1, <1>2, <2>2
    <3>2. CASE saved[i] \in raced \/ Len(saved) - i >= Keep
      BY <1>1, <3>1, <3>2, KeepAssumption
    <3>3. CASE \E j \in DOMAIN h : h[j].id = saved[i] /\ Len(h) - j <= Len(saved) - i
      BY <1>1, <3>1, <3>3
    <3> QED
      BY <2>2, <3>2, <3>3 DEF KeptIn
  <2> QED
    BY <1>1, <1>3, <2>1, <2>2
<1>5. KeptIn(h, new, raced \cup {x})
  BY <1>4 DEF KeptIn
<1> QED
  BY <1>5 DEF new

LEMMA KeptStep == Shape /\ KeptInv /\ [Next]_vars => KeptInv'
<1> SUFFICES ASSUME Shape, KeptInv, [Next]_vars PROVE KeptInv'
  OBVIOUS
<1>1. CASE UNCHANGED vars
  BY <1>1 DEF vars, commands, KeptInv
<1>2. CASE Next
  <2>1. PICK c \in Slots :
           \/ \E order \in Orders : Start(c, order)
           \/ Preview(c) \/ SyncRouter(c) \/ SyncFails(c)
           \/ LoadRouterSyncHistory(c) \/ SaveRouterSyncHistory(c) \/ AppendFails(c)
    BY <1>2 DEF Next
  <2>2. Others(c)
    BY <2>1, OthersEffect
  <2>3. ASSUME UNCHANGED <<history, saves, exposed>>, pc'[c] = "save" => seen'[c] = history
        PROVE  KeptInv'
    BY <2>2, <2>3 DEF KeptInv, Others
  <2>4. ASSUME NEW order \in Orders, Start(c, order) PROVE KeptInv'
    <3>1. pc'[c] # "save"
      BY <2>4 DEF Start, Goes, Shape
    <3> QED
      BY <2>3, <2>4, <3>1 DEF Start
  <2>5. CASE Preview(c)
    <3>1. pc'[c] # "save"
      BY <2>5, EndsEffect DEF Preview, Goes, Shape
    <3> QED
      BY <2>3, <2>5, <3>1 DEF Preview
  <2>6. CASE SyncRouter(c)
    <3>1. pc'[c] # "save"
      BY <2>6 DEF SyncRouter, Goes, Shape
    <3> QED
      BY <2>3, <2>6, <3>1 DEF SyncRouter
  <2>7. CASE SyncFails(c) \/ AppendFails(c)
    <3>1. pc'[c] # "save"
      BY <2>7, EndsEffect DEF SyncFails, AppendFails
    <3> QED
      BY <2>3, <2>7, <3>1 DEF SyncFails, AppendFails
  <2>8. CASE LoadRouterSyncHistory(c)
    BY <2>3, <2>8 DEF LoadRouterSyncHistory, Shape
  <2>9. CASE SaveRouterSyncHistory(c)
    <3> DEFINE x == Snapshot(c)
    <3>1. PICK k : Pushed(history', seen[c], x, k)
      BY <2>9, TrimmedShape DEF SaveRouterSyncHistory, Shape
    <3>2. x.id = cmd[c].id
      BY DEF Snapshot
    <3>3. saves' = Append(saves, x.id) /\ exposed \subseteq exposed'
      BY <2>9, <3>2 DEF SaveRouterSyncHistory
    <3>4. KeptIn(seen[c], saves, exposed) /\ IsSeq(seen[c]) /\ IsSeq(saves)
      BY <2>9 DEF SaveRouterSyncHistory, KeptInv, Shape
    <3> HIDE DEF x
    <3>5. KeptIn(history', saves', exposed')
      BY <3>1, <3>3, <3>4, KeptPushed
    <3>6. pc'[c] # "save"
      BY <2>9, EndsEffect DEF SaveRouterSyncHistory
    <3>7. ASSUME NEW d \in Slots, pc'[d] = "save"
          PROVE  KeptIn(seen'[d], saves', exposed')
      <4>1. d # c /\ pc[d] = "save" /\ seen'[d] = seen[d]
        BY <2>2, <3>6, <3>7 DEF Others
      <4>2. exposed' = exposed \cup {x.id}
        BY <2>9, <3>2, <4>1 DEF SaveRouterSyncHistory
      <4>3. KeptIn(seen[d], saves, exposed) /\ IsSeq(seen[d])
        BY <4>1 DEF KeptInv, Shape
      <4> QED
        BY <3>3, <3>4, <4>1, <4>2, <4>3, KeptExposed
    <3> QED
      BY <3>5, <3>7 DEF KeptInv
  <2> QED
    BY <2>1, <2>4, <2>5, <2>6, <2>7, <2>8, <2>9
<1> QED
  BY <1>1, <1>2

(* A snapshot that was saved leaves the history only behind Keep newer     *)
(* ones, or because another command was between its read and its write of  *)
(* the file when it was saved (AppendRouterSyncSnapshot).                  *)
THEOREM SnapshotsLostOnlyByOverlap == Spec => []SnapshotKept
<1>1. Init => KeptInv
  BY KeptInit
<1>2. Shape /\ KeptInv /\ [Next]_vars => KeptInv'
  BY KeptStep
<1>3. KeptInv => SnapshotKept
  BY DEF KeptInv, KeptIn, SnapshotKept
<1> QED
  BY <1>1, <1>2, <1>3, ShapeHolds, PTL DEF Spec

-----------------------------------------------------------------------------
LEMMA RecordInit == Init => RecordInv
<1> SUFFICES ASSUME Init PROVE RecordInv
  OBVIOUS
<1>1. Recording = {} /\ Applied(history) = {}
  BY DEF Init, Recording, Applied
<1> QED
  BY <1>1 DEF Init, RecordInv, Recorded, LastIs, LastButOneIs

(* A step that neither applies nor writes.                                 *)
LEMMA RecordQuiet ==
    ASSUME RecordInv, NEW c \in Slots, Others(c), UNCHANGED <<history, applies>>,
           ~disturbed' => ~disturbed /\ Recording' = Recording,
           c \in Recording => cmd'[c] = cmd[c],
           pc'[c] = "save" => seen'[c] = history
    PROVE  RecordInv'
<1> SUFFICES ASSUME ~disturbed'
             PROVE  /\ \A d, e \in Recording' : d = e
                    /\ \A d \in Recording' :
                          Len(applies') >= 1 /\ cmd'[d].routing = applies'[Len(applies')]
                    /\ \A d \in Slots : pc'[d] = "save" => seen'[d] = history'
                    /\ Recorded'
  BY DEF RecordInv
<1>1. ~disturbed /\ Recording' = Recording
  OBVIOUS
<1>2. \A d \in Recording : d \in Slots /\ cmd'[d] = cmd[d]
  BY DEF Others, Recording
<1>3. Recorded'
  BY <1>1 DEF RecordInv, Recorded, LastIs, LastButOneIs
<1>4. \A d \in Slots : pc'[d] = "save" => seen'[d] = history'
  BY <1>1 DEF RecordInv, Others
<1> QED
  BY <1>1, <1>2, <1>3, <1>4 DEF RecordInv

(* What is recorded depends on one slot at a time.                         *)
LEMMA RecordingElsewhere ==
    ASSUME NEW c \in Slots, Others(c)
    PROVE  /\ \A d \in Slots \ {c} : d \in Recording' <=> d \in Recording
           /\ (c \in Recording' <=> c \in Recording) => Recording' = Recording
  BY DEF Others, Recording

LEMMA RecordApply ==
    ASSUME Shape, RecordInv, NEW c \in Slots, SyncRouter(c), ~cmd[c].order.dry
    PROVE  RecordInv'
<1> SUFFICES ASSUME ~disturbed'
             PROVE  /\ \A d, e \in Recording' : d = e
                    /\ \A d \in Recording' :
                          Len(applies') >= 1 /\ cmd'[d].routing = applies'[Len(applies')]
                    /\ \A d \in Slots : pc'[d] = "save" => seen'[d] = history'
                    /\ Recorded'
  BY DEF RecordInv
<1>1. ~disturbed /\ Recording = {}
  BY DEF SyncRouter
<1>2. Others(c) /\ pc'[c] = "load" /\ UNCHANGED <<cmd, seen, history>>
  BY OthersEffect DEF SyncRouter, Goes, Shape
<1>3. Recording' = {c}
  <2>1. c \in Recording'
    BY <1>2 DEF Recording
  <2>2. \A d \in Recording' : d \in Slots
    BY DEF Recording
  <2> QED
    BY <1>1, <1>2, <2>1, <2>2, RecordingElsewhere
<1>4. /\ IsSeq(applies) /\ applies' = Append(applies, cmd[c].routing)
      /\ Len(applies) \in Nat
  BY SeqShape DEF Shape, SyncRouter
<1>5. /\ Len(applies') = Len(applies) + 1 /\ applies'[Len(applies')] = cmd[c].routing
      /\ \A i \in 1..Len(applies) : applies'[i] = applies[i]
  BY <1>4, AppendShape
<1>6. LastIs(history, applies, Len(applies))
  BY <1>1 DEF RecordInv, Recorded
<1>7. LastIs(history, applies', Len(applies))
  BY <1>4, <1>5, <1>6 DEF LastIs
<1>8. Len(applies') - 1 = Len(applies)
  BY <1>4, <1>5
<1>9. Recorded'
  BY <1>2, <1>3, <1>7, <1>8 DEF Recorded, LastIs
<1>10. \A d \in Slots : pc'[d] = "save" => seen'[d] = history'
  BY <1>1, <1>2 DEF RecordInv, Others
<1> QED
  BY <1>2, <1>3, <1>4, <1>5, <1>9, <1>10

LEMMA RecordSave ==
    ASSUME Shape, RecordInv, NEW c \in Slots, SaveRouterSyncHistory(c)
    PROVE  RecordInv'
<1> SUFFICES ASSUME ~disturbed'
             PROVE  /\ \A d, e \in Recording' : d = e
                    /\ \A d \in Recording' :
                          Len(applies') >= 1 /\ cmd'[d].routing = applies'[Len(applies')]
                    /\ \A d \in Slots : pc'[d] = "save" => seen'[d] = history'
                    /\ Recorded'
  BY DEF RecordInv
<1> DEFINE x == Snapshot(c)
<1>1. ~disturbed /\ \A d \in Slots \ {c} : pc[d] # "save"
  BY DEF SaveRouterSyncHistory
<1>2. Others(c) /\ pc'[c] = "idle" /\ UNCHANGED applies /\ pc[c] = "save"
  BY EndsEffect DEF SaveRouterSyncHistory
<1>3. seen[c] = history /\ IsSeq(history)
  BY <1>1, <1>2 DEF RecordInv, Shape
<1>4. PICK k : Pushed(history', history, x, k)
  BY <1>3, TrimmedShape DEF SaveRouterSyncHistory
<1>5. x.routing = cmd[c].routing /\ (x.dry <=> cmd[c].order.dry)
  BY DEF Snapshot
<1> HIDE DEF x
<1>6. \A d \in Slots : pc'[d] # "save"
  BY <1>1, <1>2 DEF Others
<1>7. c \notin Recording' /\ \A d \in Recording' : d \in Slots \ {c}
  BY <1>2 DEF Recording
<1>8. \A d \in Recording' : d \in Recording /\ cmd'[d] = cmd[d]
  BY <1>2, <1>7, RecordingElsewhere DEF Others
<1>9. CASE cmd[c].order.dry
  <2>1. Recording' = Recording
    <3>1. c \notin Recording
      BY <1>9 DEF Recording
    <3> QED
      BY <1>2, <1>7, <3>1, RecordingElsewhere
  <2>2. Recorded
    BY <1>1 DEF RecordInv
  <2>3. Recorded'
    <3>1. CASE Recording = {}
      <4>1. LastIs(history', applies, Len(applies))
            /\ LastButOneIs(history', applies, Len(applies) - 1)
        BY <1>3, <1>4, <1>5, <1>9, <2>2, <3>1, DryPushed DEF Recorded
      <4> QED
        BY <1>2, <2>1, <3>1, <4>1 DEF Recorded, LastIs, LastButOneIs
    <3>2. CASE Recording # {}
      <4>1. LastIs(history', applies, Len(applies) - 1)
        BY <1>3, <1>4, <1>5, <1>9, <2>2, <3>2, DryPushed DEF Recorded
      <4> QED
        BY <1>2, <2>1, <3>2, <4>1 DEF Recorded, LastIs, LastButOneIs
    <3> QED
      BY <3>1, <3>2
  <2> QED
    BY <1>1, <1>2, <1>6, <1>8, <2>3 DEF RecordInv
<1>10. CASE ~cmd[c].order.dry
  <2>1. c \in Recording
    BY <1>2, <1>10 DEF Recording
  <2>2. Recording' = {}
    BY <1>1, <1>7, <1>8, <2>1 DEF RecordInv
  <2>3. Len(applies) \in Nat /\ Len(applies) >= 1 /\ x.routing = applies[Len(applies)]
        /\ LastIs(history, applies, Len(applies) - 1)
    BY <1>1, <1>5, <2>1, SeqShape DEF RecordInv, Shape, Recorded
  <2>4. LastIs(history', applies, Len(applies))
        /\ LastButOneIs(history', applies, Len(applies) - 1)
    BY <1>3, <1>4, <1>5, <1>10, <2>3, AppliedIsLast
  <2>5. Recorded'
    BY <1>2, <2>2, <2>4 DEF Recorded, LastIs, LastButOneIs
  <2> QED
    BY <1>6, <2>2, <2>5
<1> QED
  BY <1>9, <1>10

LEMMA RecordStep == Shape /\ RecordInv /\ [Next]_vars => RecordInv'
<1> SUFFICES ASSUME Shape, RecordInv, [Next]_vars PROVE RecordInv'
  OBVIOUS
<1>1. CASE UNCHANGED vars
  BY <1>1 DEF vars, commands, RecordInv, Recorded, Recording, LastIs, LastButOneIs
<1>2. CASE Next
  <2>1. PICK c \in Slots :
           \/ \E order \in Orders : Start(c, order)
           \/ Preview(c) \/ SyncRouter(c) \/ SyncFails(c)
           \/ LoadRouterSyncHistory(c) \/ SaveRouterSyncHistory(c) \/ AppendFails(c)
    BY <1>2 DEF Next
  <2>2. Others(c)
    BY <2>1, OthersEffect
  <2>3. ASSUME c \notin Recording, c \notin Recording' PROVE Recording' = Recording
    BY <2>2, <2>3, RecordingElsewhere
  <2>4. ASSUME NEW order \in Orders, Start(c, order) PROVE RecordInv'
    <3>1. pc'[c] \in {"sync", "preview"} /\ pc[c] = "idle"
      BY <2>4 DEF Start, Goes, Shape
    <3>2. c \notin Recording /\ c \notin Recording'
      BY <3>1 DEF Recording
    <3> QED
      BY <2>2, <2>3, <2>4, <3>1, <3>2, RecordQuiet DEF Start
  <2>5. CASE Preview(c)
    <3>1. pc'[c] \in {"sync", "idle"} /\ pc[c] = "preview"
      BY <2>5, EndsEffect DEF Preview, Goes, Shape
    <3>2. c \notin Recording /\ c \notin Recording'
      BY <3>1 DEF Recording
    <3> QED
      BY <2>2, <2>3, <2>5, <3>1, <3>2, RecordQuiet DEF Preview
  <2>6. CASE SyncRouter(c) /\ cmd[c].order.dry
    <3>1. pc'[c] = "load" /\ pc[c] = "sync" /\ UNCHANGED <<cmd, history, applies, disturbed>>
      BY <2>6 DEF SyncRouter, Goes, Shape
    <3>2. c \notin Recording /\ c \notin Recording'
      BY <2>6, <3>1 DEF Recording
    <3> QED
      BY <2>2, <2>3, <3>1, <3>2, RecordQuiet
  <2>7. CASE SyncRouter(c) /\ ~cmd[c].order.dry
    BY <2>7, RecordApply
  <2>8. CASE SyncFails(c)
    <3>1. pc'[c] = "idle" /\ pc[c] = "sync" /\ UNCHANGED <<history, applies>>
      BY <2>8, EndsEffect DEF SyncFails
    <3>2. c \notin Recording /\ c \notin Recording'
      BY <3>1 DEF Recording
    <3>3. ~disturbed' => ~disturbed
      BY <2>8 DEF SyncFails
    <3> QED
      BY <2>2, <2>3, <3>1, <3>2, <3>3, RecordQuiet
  <2>9. CASE LoadRouterSyncHistory(c)
    <3>1. /\ pc'[c] = "save" /\ pc[c] = "load" /\ seen'[c] = history
          /\ UNCHANGED <<cmd, history, applies, disturbed>>
      BY <2>9 DEF LoadRouterSyncHistory, Goes, Shape
    <3>2. Recording' = Recording
      <4>1. c \in Recording' <=> c \in Recording
        BY <3>1 DEF Recording
      <4> QED
        BY <2>2, <4>1, RecordingElsewhere
    <3>3. /\ UNCHANGED <<history, applies>>
          /\ ~disturbed' => ~disturbed /\ Recording' = Recording
          /\ c \in Recording => cmd'[c] = cmd[c]
      BY <3>1, <3>2
    <3>4. pc'[c] = "save" => seen'[c] = history
      BY <3>1
    <3> QED
      BY <2>2, <3>3, <3>4, RecordQuiet
  <2>10. CASE SaveRouterSyncHistory(c)
    BY <2>10, RecordSave
  <2>11. CASE AppendFails(c)
    <3>1. pc'[c] = "idle" /\ UNCHANGED <<history, applies>>
      BY <2>11, EndsEffect DEF AppendFails
    <3>2. ASSUME ~disturbed' PROVE ~disturbed /\ c \notin Recording
      BY <2>11, <3>2 DEF AppendFails
    <3>3. c \notin Recording'
      BY <3>1 DEF Recording
    <3>4. CASE disturbed'
      BY <3>4 DEF RecordInv
    <3> QED
      BY <2>2, <2>3, <3>1, <3>2, <3>3, <3>4, RecordQuiet
  <2> QED
    BY <2>1, <2>4, <2>5, <2>6, <2>7, <2>8, <2>9, <2>10, <2>11
<1> QED
  BY <1>1, <1>2

LEMMA RecordRestores == Shape /\ RecordInv => RestoreGoesBack
<1> SUFFICES ASSUME Shape, RecordInv, ~disturbed, Recording = {},
                    NEW p \in Applied(history), NEW q \in Applied(history), p # q
             PROVE  SelectRouterRestoreSnapshot("previous", history).routing
                        = applies[Len(applies) - 1]
  BY DEF RestoreGoesBack
<1> DEFINE A == Applied(history)
<1>1. \A i \in A : i \in Nat
  BY SeqShape DEF Applied, Shape
<1>2. LastIs(history, applies, Len(applies)) /\ LastButOneIs(history, applies, Len(applies) - 1)
  BY DEF RecordInv, Recorded
<1>3. PICK i \in DOMAIN history : IsLast(i, A)
  BY <1>2 DEF LastIs
<1>4. i \in A /\ A \ {i} # {} /\ Last(A) = i
  BY <1>1, <1>3, LastUnique DEF IsLast
<1>5. PICK j \in DOMAIN history :
        IsLast(j, A \ {i}) /\ history[j].routing = applies[Len(applies) - 1]
  BY <1>2, <1>3, <1>4 DEF LastButOneIs
<1>6. Last(A \ {i}) = j
  BY <1>1, <1>5, LastUnique
<1> QED
  BY <1>4, <1>5, <1>6 DEF SelectRouterRestoreSnapshot

(* While every apply was recorded before the next and no sync failed,      *)
(* restoring goes back to the routing before the one in force, however     *)
(* many dry runs were saved in between and however often the history was   *)
(* trimmed (SelectRouterRestoreSnapshot).                                  *)
THEOREM RestoreFindsPrevious == Spec => []RestoreGoesBack
  BY RecordInit, RecordStep, RecordRestores, ShapeHolds, PTL DEF Spec

-----------------------------------------------------------------------------
(* Induction, over a set of numbers.                                       *)
LEMMA LeastNat ==
    ASSUME NEW T, T \subseteq Nat, T # {}
    PROVE  \E x \in T : \A y \in T : x <= y
<1> DEFINE R == OpToRel(<, Nat)
<1>1. IsWellFoundedOn(R, Nat)
  BY NatLessThanWellFounded
<1>2. \A a, b \in Nat : <<a, b>> \in R <=> a < b
  BY DEF OpToRel
<1> HIDE DEF R
<1>3. PICK x \in T : \A y \in T : ~ (<<y, x>> \in R)
  BY <1>1, WFMin
<1>4. ASSUME NEW y \in T
      PROVE  x <= y
  <2>1. y \in Nat /\ x \in Nat
    OBVIOUS
  <2>2. ~(y < x)
    BY <1>2, <1>3, <2>1, Zenon
  <2> QED
    BY <2>1, <2>2
<1> QED
  BY <1>4

LEMMA UpTo ==
    ASSUME NEW N \in Nat, NEW T, 0 \in T,
           \A n \in 0..(N - 1) : n \in T => n + 1 \in T
    PROVE  \A n \in 0..N : n \in T
<1> SUFFICES ASSUME \E n \in 0..N : n \notin T
             PROVE  FALSE
  OBVIOUS
<1> DEFINE Rest == {n \in 0..N : n \notin T}
<1>1. Rest \subseteq Nat /\ Rest # {}
  OBVIOUS
<1>2. PICK x \in Rest : \A y \in Rest : x <= y
  BY <1>1, LeastNat
<1>3. x # 0
  OBVIOUS
<1>4. x - 1 \in 0..(N - 1) /\ x - 1 \notin Rest
  BY <1>2, <1>3
<1>5. x - 1 \in T
  BY <1>4
<1> QED
  BY <1>4, <1>5

(* The recursive functions of RouterSteering satisfy their equations: each *)
(* is the longest of partial ones that extend one another.                 *)
LEMMA PartialSumsUnfold ==
    ASSUME NEW w, Len(w) \in Nat
    PROVE  PartialSums(w)
             = [n \in 0..Len(w) |-> IF n = 0 THEN 0 ELSE PartialSums(w)[n - 1] + w[n]]
<1> DEFINE Part(f, N) == f = [n \in 0..N |-> IF n = 0 THEN 0 ELSE f[n - 1] + w[n]]
           T == {N \in Nat : \E f : Part(f, N)}
<1>1. 0 \in T
  <2>1. Part([n \in 0..0 |-> 0], 0)
    OBVIOUS
  <2> QED
    BY <2>1
<1>2. ASSUME NEW N \in Nat, N \in T
      PROVE  N + 1 \in T
  <2>1. PICK f : Part(f, N)
    BY <1>2
  <2> DEFINE g == [n \in 0..(N + 1) |-> IF n = N + 1 THEN f[N] + w[N + 1] ELSE f[n]]
  <2>2. DOMAIN g = 0..(N + 1)
    OBVIOUS
  <2>3. ASSUME NEW n \in 0..(N + 1)
        PROVE  g[n] = IF n = 0 THEN 0 ELSE g[n - 1] + w[n]
    BY <2>1
  <2>4. Part(g, N + 1)
    BY <2>3
  <2> HIDE DEF g, Part
  <2> QED
    BY <2>4
<1>3. Len(w) \in T
  <2>1. \A n \in 0..(Len(w) - 1) : n \in T => n + 1 \in T
    BY <1>2
  <2> HIDE DEF T
  <2>2. \A n \in 0..Len(w) : n \in T
    BY <1>1, <2>1, UpTo
  <2> QED
    BY <2>2
<1>4. \E f : f = [n \in 0..Len(w) |-> IF n = 0 THEN 0 ELSE f[n - 1] + w[n]]
  BY <1>3
<1> DEFINE F == CHOOSE f : f = [n \in 0..Len(w) |-> IF n = 0 THEN 0 ELSE f[n - 1] + w[n]]
<1>5. F = [n \in 0..Len(w) |-> IF n = 0 THEN 0 ELSE F[n - 1] + w[n]]
  BY <1>4
<1>6. PartialSums(w) = F
  BY DEF PartialSums
<1> HIDE DEF F
<1> QED
  BY <1>5, <1>6

LEMMA CorrectionsUnfold ==
    ASSUME NEW w, NEW unit, NEW units \in Nat
    PROVE  Corrections(w, unit, units)
             = [m \in 0..units |-> IF m = 0 THEN <<w, 1>>
                                  ELSE Moved(Corrections(w, unit, units)[m - 1], unit)]
<1> DEFINE Part(f, N) == f = [m \in 0..N |-> IF m = 0 THEN <<w, 1>> ELSE Moved(f[m - 1], unit)]
           T == {N \in Nat : \E f : Part(f, N)}
<1>1. 0 \in T
  <2>1. Part([m \in 0..0 |-> <<w, 1>>], 0)
    OBVIOUS
  <2> QED
    BY <2>1
<1>2. ASSUME NEW N \in Nat, N \in T
      PROVE  N + 1 \in T
  <2>1. PICK f : Part(f, N)
    BY <1>2
  <2> DEFINE g == [m \in 0..(N + 1) |-> IF m = N + 1 THEN Moved(f[N], unit) ELSE f[m]]
  <2>2. ASSUME NEW m \in 0..(N + 1)
        PROVE  g[m] = IF m = 0 THEN <<w, 1>> ELSE Moved(g[m - 1], unit)
    <3>1. \A k \in 0..N : f[k] = IF k = 0 THEN <<w, 1>> ELSE Moved(f[k - 1], unit)
      BY <2>1
    <3>2. CASE m = 0
      BY <3>1, <3>2
    <3>3. CASE m # 0
      <4>1. g[m - 1] = f[m - 1]
        BY <3>3
      <4>2. g[m] = Moved(f[m - 1], unit)
        <5>1. CASE m = N + 1
          <6>1. m - 1 = N
            BY <5>1
          <6>2. g[m] = Moved(f[N], unit)
            BY <5>1
          <6> QED
            BY <6>1, <6>2
        <5>2. CASE m # N + 1
          <6>1. m \in 0..N /\ g[m] = f[m]
            BY <5>2
          <6> QED
            BY <3>1, <3>3, <6>1
        <5> QED
          BY <5>1, <5>2
      <4> HIDE DEF g
      <4> QED
        BY <3>3, <4>1, <4>2
    <3> QED
      BY <3>2, <3>3
  <2>3. Part(g, N + 1)
    BY <2>2
  <2> HIDE DEF g, Part
  <2> QED
    BY <2>3
<1>3. units \in T
  <2>1. \A n \in 0..(units - 1) : n \in T => n + 1 \in T
    BY <1>2
  <2> HIDE DEF T
  <2>2. \A n \in 0..units : n \in T
    BY <1>1, <2>1, UpTo
  <2> QED
    BY <2>2
<1>4. \E f : f = [m \in 0..units |-> IF m = 0 THEN <<w, 1>> ELSE Moved(f[m - 1], unit)]
  BY <1>3
<1> DEFINE F == CHOOSE f : f = [m \in 0..units |->
                                 IF m = 0 THEN <<w, 1>> ELSE Moved(f[m - 1], unit)]
<1>5. F = [m \in 0..units |-> IF m = 0 THEN <<w, 1>> ELSE Moved(F[m - 1], unit)]
  BY <1>4
<1>6. Corrections(w, unit, units) = F
  BY DEF Corrections
<1> HIDE DEF F
<1> QED
  BY <1>5, <1>6

-----------------------------------------------------------------------------
(* Sums of weights.                                                        *)
LEMMA SumSteps ==
    ASSUME NEW w \in Seq(Int)
    PROVE  /\ PartialSums(w)[0] = 0
           /\ \A n \in 1..Len(w) : PartialSums(w)[n] = PartialSums(w)[n - 1] + w[n]
           /\ \A n \in 0..Len(w) : PartialSums(w)[n] \in Int
<1> DEFINE P == PartialSums(w)
           T == {n \in 0..Len(w) : P[n] \in Int}
<1>1. P = [n \in 0..Len(w) |-> IF n = 0 THEN 0 ELSE P[n - 1] + w[n]]
  BY PartialSumsUnfold
<1> HIDE DEF P
<1>2. P[0] = 0 /\ \A n \in 1..Len(w) : P[n] = P[n - 1] + w[n]
  <2>1. Len(w) \in Nat
    BY LenProperties
  <2>2. ASSUME NEW n \in 0..Len(w)
        PROVE  P[n] = IF n = 0 THEN 0 ELSE P[n - 1] + w[n]
    BY <1>1, <2>1
  <2> QED
    BY <2>1, <2>2
<1>3. \A n \in 0..Len(w) : n \in T
  <2>1. 0 \in T
    BY <1>2
  <2>2. \A n \in 0..(Len(w) - 1) : n \in T => n + 1 \in T
    BY <1>2
  <2> HIDE DEF T
  <2>3. Len(w) \in Nat
    BY LenProperties
  <2> QED
    BY <2>1, <2>2, <2>3, UpTo
<1> QED
  BY <1>2, <1>3 DEF P

(* The sum grows by what one of the weights grows.                         *)
LEMMA SumMoves ==
    ASSUME NEW w \in Seq(Int), NEW v \in Seq(Int), Len(v) = Len(w), NEW d \in Int,
           NEW i \in 1..Len(w), v[i] = w[i] + d, \A j \in 1..Len(w) : j # i => v[j] = w[j]
    PROVE  SumOf(v) = SumOf(w) + d
<1> DEFINE P == PartialSums(w)
           Q == PartialSums(v)
           T == {n \in 0..Len(w) : Q[n] = P[n] + (IF n < i THEN 0 ELSE d)}
<1>1. /\ P[0] = 0 /\ \A n \in 1..Len(w) : P[n] = P[n - 1] + w[n]
      /\ \A n \in 0..Len(w) : P[n] \in Int
  BY SumSteps
<1>2. /\ Q[0] = 0 /\ \A n \in 1..Len(w) : Q[n] = Q[n - 1] + v[n]
      /\ \A n \in 0..Len(w) : Q[n] \in Int
  BY SumSteps
<1> HIDE DEF P, Q
<1>3. \A n \in 0..Len(w) : n \in T
  <2>1. 0 \in T
    BY <1>1, <1>2
  <2>2. ASSUME NEW n \in 0..(Len(w) - 1), n \in T
        PROVE  n + 1 \in T
    <3>1. n + 1 \in 1..Len(w) /\ (n + 1) - 1 = n
      OBVIOUS
    <3>2. P[n + 1] = P[n] + w[n + 1] /\ Q[n + 1] = Q[n] + v[n + 1]
      BY <1>1, <1>2, <3>1
    <3>3. Q[n] = P[n] + (IF n < i THEN 0 ELSE d) /\ P[n] \in Int /\ w[n + 1] \in Int
      BY <1>1, <2>2, <3>1
    <3>4. v[n + 1] = IF n + 1 = i THEN w[n + 1] + d ELSE w[n + 1]
      BY <3>1
    <3>5. Q[n + 1] = P[n + 1] + (IF n + 1 < i THEN 0 ELSE d)
      BY <3>2, <3>3, <3>4
    <3> QED
      BY <3>1, <3>5
  <2>3. \A n \in 0..(Len(w) - 1) : n \in T => n + 1 \in T
    BY <2>2
  <2> HIDE DEF T
  <2>4. Len(w) \in Nat
    BY LenProperties
  <2> QED
    BY <2>1, <2>3, <2>4, UpTo
<1>4. Len(w) \in T
  BY <1>3
<1> QED
  BY <1>4 DEF P, Q, SumOf

(* No weight is above the sum of weights none of which is negative.        *)
LEMMA SumCovers ==
    ASSUME NEW w \in Seq(Nat)
    PROVE  SumOf(w) \in Nat /\ \A i \in 1..Len(w) : w[i] <= SumOf(w)
<1> DEFINE P == PartialSums(w)
           T == {n \in 0..Len(w) : P[n] \in Nat /\ \A i \in 1..n : w[i] <= P[n]}
<1>1. /\ P[0] = 0 /\ \A n \in 1..Len(w) : P[n] = P[n - 1] + w[n]
  <2>1. w \in Seq(Int)
    OBVIOUS
  <2> QED
    BY <2>1, SumSteps
<1> HIDE DEF P
<1>2. \A n \in 0..Len(w) : n \in T
  <2>1. 0 \in T
    BY <1>1
  <2>2. ASSUME NEW n \in 0..(Len(w) - 1), n \in T
        PROVE  n + 1 \in T
    <3>1. n + 1 \in 1..Len(w) /\ (n + 1) - 1 = n
      OBVIOUS
    <3>2. P[n + 1] = P[n] + w[n + 1] /\ w[n + 1] \in Nat
      BY <1>1, <3>1
    <3>3. P[n] \in Nat /\ \A i \in 1..n : w[i] <= P[n]
      BY <2>2
    <3>4. ASSUME NEW i \in 1..(n + 1)
          PROVE  w[i] <= P[n + 1]
      <4>1. CASE i = n + 1
        BY <3>2, <3>3, <4>1
      <4>2. CASE i # n + 1
        <5>1. i \in 1..n /\ w[i] \in Nat
          BY <4>2
        <5> QED
          BY <3>2, <3>3, <5>1
      <4> QED
        BY <4>1, <4>2
    <3> QED
      BY <3>1, <3>2, <3>3, <3>4
  <2>3. \A n \in 0..(Len(w) - 1) : n \in T => n + 1 \in T
    BY <2>2
  <2> HIDE DEF T
  <2>4. Len(w) \in Nat
    BY LenProperties
  <2> QED
    BY <2>1, <2>3, <2>4, UpTo
<1>3. Len(w) \in T
  BY <1>2
<1> QED
  BY <1>3 DEF P, SumOf

(* Weights of at least one add up to at least their number, and to no more *)
(* if they are ones.                                                       *)
LEMMA SumCounts ==
    ASSUME NEW w \in Seq(Int), \A i \in 1..Len(w) : w[i] >= 1
    PROVE  /\ SumOf(w) \in Int /\ SumOf(w) >= Len(w)
           /\ (\A i \in 1..Len(w) : w[i] = 1) => SumOf(w) = Len(w)
<1> DEFINE P == PartialSums(w)
           T == {n \in 0..Len(w) : P[n] \in Int /\ P[n] >= n
                                   /\ ((\A i \in 1..n : w[i] = 1) => P[n] = n)}
<1>1. /\ P[0] = 0 /\ \A n \in 1..Len(w) : P[n] = P[n - 1] + w[n]
  BY SumSteps
<1> HIDE DEF P
<1>2. \A n \in 0..Len(w) : n \in T
  <2>1. 0 \in T
    BY <1>1
  <2>2. ASSUME NEW n \in 0..(Len(w) - 1), n \in T
        PROVE  n + 1 \in T
    <3>1. n + 1 \in 1..Len(w) /\ (n + 1) - 1 = n
      OBVIOUS
    <3>2. P[n + 1] = P[n] + w[n + 1] /\ w[n + 1] \in Int /\ w[n + 1] >= 1
      BY <1>1, <3>1
    <3>3. P[n] \in Int /\ P[n] >= n /\ ((\A i \in 1..n : w[i] = 1) => P[n] = n)
      BY <2>2
    <3>4. P[n + 1] \in Int /\ P[n + 1] >= n + 1
      BY <3>2, <3>3
    <3>5. ASSUME \A i \in 1..(n + 1) : w[i] = 1
          PROVE  P[n + 1] = n + 1
      <4>1. w[n + 1] = 1 /\ \A i \in 1..n : w[i] = 1
        BY <3>5
      <4> QED
        BY <3>2, <3>3, <4>1
    <3> QED
      BY <3>1, <3>4, <3>5
  <2>3. \A n \in 0..(Len(w) - 1) : n \in T => n + 1 \in T
    BY <2>2
  <2> HIDE DEF T
  <2>4. Len(w) \in Nat
    BY LenProperties
  <2> QED
    BY <2>1, <2>3, <2>4, UpTo
<1>3. Len(w) \in T
  BY <1>2
<1> QED
  BY <1>3 DEF P, SumOf

-----------------------------------------------------------------------------
(* The loop of rebalanceEndpointWeights.                                   *)
LEMMA AheadOn ==
    ASSUME NEW n \in Nat \ {0}, NEW i \in 1..n, NEW k \in 0..n
    PROVE  Ahead(i, k, n) = IF i + k <= n THEN i + k ELSE i + k - n
  BY DEF Ahead

(* Every weight is at least one, and there is one.                         *)
Floored(w) == w \in Seq(Int) /\ Len(w) >= 1 /\ \A i \in 1..Len(w) : w[i] >= 1

AllOnes(w) == \A i \in 1..Len(w) : w[i] = 1

(* The loop goes from place i and weights v to place j and weights u: one  *)
(* unit more or less, unless there is none to take.                        *)
OneUnit(v, i, unit, u, j) ==
    /\ Floored(u) /\ Len(u) = Len(v) /\ j \in 1..Len(v)
    /\ SumOf(u) = SumOf(v) + unit \/ (unit = -1 /\ u = v /\ AllOnes(v))
    /\ unit = -1 => \A k \in 1..Len(v) : u[k] <= v[k]
    /\ unit = 1 => /\ j = IF i < Len(v) THEN i + 1 ELSE 1
                   /\ \A k \in 1..Len(v) : u[k] = IF k = i THEN v[k] + 1 ELSE v[k]

LEMMA MovedUnit ==
    ASSUME NEW v, Floored(v), NEW i \in 1..Len(v), NEW unit \in {1, -1}
    PROVE  \E u, j : Moved(<<v, i>>, unit) = <<u, j>> /\ OneUnit(v, i, unit, u, j)
<1> DEFINE n == Len(v)
           able == {k \in 0..(n - 1) : unit > 0 \/ v[Ahead(i, k, n)] > 1}
           nearest == CHOOSE k \in able : \A l \in able : k <= l
           p == Ahead(i, nearest, n)
           u == [v EXCEPT ![p] = @ + unit]
<1>1. Moved(<<v, i>>, unit) = IF able = {} THEN <<v, i>> ELSE <<u, Ahead(p, 1, n)>>
  BY DEF Moved
<1>2. n \in Nat \ {0} /\ v \in Seq(Int) /\ \A j \in 1..n : v[j] \in Int /\ v[j] >= 1
  BY LenProperties, ElementOfSeq DEF Floored
<1>3. \A a \in 1..n, k \in 0..n : Ahead(a, k, n) = IF a + k <= n THEN a + k ELSE a + k - n
  <2> HIDE DEF n
  <2> QED
    BY <1>2, AheadOn
<1>4. CASE able = {}
  <2>1. unit = -1 /\ \A k \in 0..(n - 1) : ~(v[Ahead(i, k, n)] > 1)
    <3>1. 0 \in 0..(n - 1)
      BY <1>2
    <3>2. ~(unit > 0)
      BY <1>4, <3>1
    <3> QED
      BY <1>4, <3>2
  <2>2. ASSUME NEW j \in 1..n
        PROVE  v[j] = 1
    <3> DEFINE k == IF i <= j THEN j - i ELSE j + n - i
    <3>1. k \in 0..(n - 1)
      BY <1>2
    <3>2. Ahead(i, k, n) = j
      <4>1. Ahead(i, k, n) = IF i + k <= n THEN i + k ELSE i + k - n
        BY <1>2, <1>3, <3>1
      <4> QED
        BY <1>2, <4>1
    <3>3. ~(v[j] > 1)
      BY <2>1, <3>1, <3>2
    <3> QED
      BY <1>2, <3>3
  <2> QED
    BY <1>1, <1>2, <1>4, <2>1, <2>2 DEF AllOnes, OneUnit
<1>5. CASE able # {}
  <2>1. able \subseteq Nat
    BY <1>2
  <2>2. nearest \in able
    <3> HIDE DEF able
    <3> QED
      BY <1>5, <2>1, LeastNat
  <2>3. p \in 1..n /\ (unit > 0 \/ v[p] > 1)
    <3>1. nearest \in 0..(n - 1) /\ (unit > 0 \/ v[Ahead(i, nearest, n)] > 1)
      BY <2>2
    <3> HIDE DEF nearest
    <3>2. p = IF i + nearest <= n THEN i + nearest ELSE i + nearest - n
      BY <1>2, <1>3, <3>1
    <3> QED
      BY <1>2, <3>1, <3>2
  <2>4. unit = 1 => p = i
    <3>1. ASSUME unit = 1
          PROVE  nearest = 0
      <4>1. 0 \in able /\ \A l \in able : l \in Nat
        BY <1>2, <3>1
      <4> HIDE DEF able
      <4>2. \A l \in able : 0 <= l
        BY <4>1
      <4>3. \A l \in able : nearest <= l
        BY <1>5, <2>1, LeastNat
      <4>4. nearest <= 0 /\ nearest \in Nat
        BY <2>1, <2>2, <4>1, <4>3
      <4> QED
        BY <4>4
    <3>2. i \in 1..n /\ 0 \in 0..n
      BY <1>2
    <3>3. Ahead(i, 0, n) = i
      BY <1>2, <1>3, <3>2
    <3> QED
      BY <3>1, <3>3
  <2> HIDE DEF p, able
  <2>5. Ahead(p, 1, n) \in 1..n
    <3>1. Ahead(p, 1, n) = IF p + 1 <= n THEN p + 1 ELSE p + 1 - n
      BY <1>2, <1>3, <2>3
    <3> QED
      BY <1>2, <2>3, <3>1
  <2>6. u \in Seq(Int) /\ Len(u) = n /\ u[p] = v[p] + unit
        /\ \A j \in 1..n : j # p => u[j] = v[j]
    BY <1>2, <2>3, ExceptSeq
  <2> HIDE DEF u
  <2>7. ASSUME NEW j \in 1..n
        PROVE  u[j] >= 1
    <3>1. CASE j = p
      BY <1>2, <2>3, <2>6, <3>1
    <3>2. CASE j # p
      BY <1>2, <2>6, <3>2
    <3> QED
      BY <3>1, <3>2
  <2>8. SumOf(u) = SumOf(v) + unit
    BY <1>2, <2>3, <2>6, SumMoves
  <2>9. Floored(u)
    BY <1>2, <2>6, <2>7 DEF Floored
  <2>10. unit = 1 => Ahead(p, 1, n) = IF i < n THEN i + 1 ELSE 1
    BY <1>2, <1>3, <2>3, <2>4
  <2>11. ASSUME NEW k \in 1..n
         PROVE  /\ unit = -1 => u[k] <= v[k]
                /\ unit = 1 => u[k] = IF k = i THEN v[k] + 1 ELSE v[k]
    <3>1. CASE k = p
      BY <1>2, <2>4, <2>6, <3>1
    <3>2. CASE k # p
      BY <1>2, <2>4, <2>6, <3>2
    <3> QED
      BY <3>1, <3>2
  <2>12. Moved(<<v, i>>, unit) = <<u, Ahead(p, 1, n)>>
    BY <1>1, <1>5
  <2> QED
    BY <2>5, <2>6, <2>8, <2>9, <2>10, <2>11, <2>12 DEF OneUnit
<1> QED
  BY <1>4, <1>5

(* From weights of at least one the loop ends at the total, or at ones.    *)
(* Too many units are only taken away, and if no more are missing than     *)
(* there are endpoints none gets more than one of them.                    *)
LEMMA CorrectedEnds ==
    ASSUME NEW w, Floored(w)
    PROVE  LET v == Corrected(w, Total - SumOf(w))
           IN  /\ Floored(v) /\ Len(v) = Len(w) /\ SumOf(v) = Larger(Total, Len(v))
               /\ SumOf(w) >= Total => \A k \in 1..Len(w) : v[k] <= w[k]
               /\ SumOf(w) < Total /\ Total - SumOf(w) <= Len(w) =>
                     \A k \in 1..Len(w) : w[k] <= v[k] /\ v[k] <= w[k] + 1
<1> DEFINE n == Len(w)
           sum == SumOf(w)
           delta == Total - sum
           unit == IF delta > 0 THEN 1 ELSE -1
           units == IF delta > 0 THEN delta ELSE -delta
           C == Corrections(w, unit, units)
           Reached(m, v) == SumOf(v) = sum + unit * m \/ (AllOnes(v) /\ Len(v) >= Total)
           Down(v) == unit = -1 => \A k \in 1..n : v[k] <= w[k]
           Up(m, v, i) ==
              unit = 1 /\ units <= n =>
                 /\ i = IF m < n THEN m + 1 ELSE 1
                 /\ \A k \in 1..n : v[k] = IF k <= m THEN w[k] + 1 ELSE w[k]
           At(m, v, i) ==
              /\ C[m] = <<v, i>> /\ Floored(v) /\ Len(v) = n /\ i \in 1..n
              /\ Reached(m, v) /\ Down(v) /\ Up(m, v, i)
           T == {m \in 0..units : \E v, i : At(m, v, i)}
<1>1. sum \in Int /\ delta \in Int /\ delta = 100 - sum /\ n \in Nat /\ n >= 1 /\ sum >= n
      /\ \A k \in 1..n : w[k] \in Int
  BY SumCounts, LenProperties, ElementOfSeq DEF Floored, Total
<1> HIDE DEF sum, n
<1>2. units \in Nat /\ unit \in {1, -1} /\ delta = unit * units
  BY <1>1
<1>3. Corrected(w, delta) = C[units][1]
  BY DEF Corrected
<1>4. C = [m \in 0..units |-> IF m = 0 THEN <<w, 1>> ELSE Moved(C[m - 1], unit)]
  <2> HIDE DEF unit, units
  <2> QED
    BY <1>2, CorrectionsUnfold
<1>5. /\ sum >= Total => unit = -1
      /\ sum < Total => unit = 1 /\ units = Total - sum
  BY <1>1 DEF Total
<1> HIDE DEF C, delta, unit, units
<1>6. 0 \in T
  <2>1. C[0] = <<w, 1>>
    BY <1>2, <1>4
  <2>2. unit * 0 = 0 /\ 1 \in 1..n
    BY <1>1, <1>2
  <2>3. Reached(0, w) /\ Down(w) /\ Up(0, w, 1)
    <3>1. Reached(0, w)
      BY <1>1, <2>2 DEF sum
    <3>2. Down(w) /\ Up(0, w, 1)
      BY <1>1
    <3> QED
      BY <3>1, <3>2
  <2>4. At(0, w, 1)
    BY <2>1, <2>2, <2>3 DEF n
  <2> HIDE DEF At
  <2> QED
    BY <1>2, <2>4
<1>7. ASSUME NEW m \in 0..(units - 1), m \in T
      PROVE  m + 1 \in T
  <2>1. PICK v, i : At(m, v, i)
    BY <1>7
  <2>2. PICK u, j : Moved(<<v, i>>, unit) = <<u, j>> /\ OneUnit(v, i, unit, u, j)
    <3>1. Floored(v) /\ i \in 1..Len(v)
      BY <2>1
    <3> QED
      BY <1>2, <3>1, MovedUnit
  <2>3. C[m + 1] = <<u, j>>
    <3>1. m + 1 \in 0..units /\ m + 1 # 0 /\ (m + 1) - 1 = m
      BY <1>2
    <3>2. C[m + 1] = Moved(C[m], unit)
      BY <1>4, <3>1
    <3>3. C[m] = <<v, i>>
      BY <2>1
    <3> QED
      BY <2>2, <3>2, <3>3
  <2>4. unit * (m + 1) = unit * m + unit
    BY <1>2
  <2>5. SumOf(v) \in Int /\ SumOf(v) >= n /\ (AllOnes(v) => SumOf(v) = n)
        /\ \A k \in 1..n : v[k] \in Int
    BY <2>1, SumCounts, ElementOfSeq DEF Floored, AllOnes
  <2>6. Floored(u) /\ Len(u) = n /\ Len(v) = n /\ i \in 1..n /\ j \in 1..n
    BY <2>1, <2>2 DEF OneUnit
  <2>7. SumOf(u) \in Int /\ SumOf(u) >= n /\ \A k \in 1..n : u[k] \in Int
    BY <2>6, SumCounts, ElementOfSeq DEF Floored
  <2>8. Reached(m + 1, u)
    <3>1. CASE SumOf(v) = sum + unit * m
      <4>1. CASE SumOf(u) = SumOf(v) + unit
        BY <1>1, <1>2, <2>4, <3>1, <4>1
      <4>2. CASE unit = -1 /\ u = v /\ AllOnes(v)
        <5>1. sum - m = n /\ sum >= Total /\ units = sum - 100
          BY <1>1, <1>2, <1>5, <2>5, <3>1, <4>2 DEF Total, delta
        <5> QED
          BY <1>1, <1>2, <2>6, <4>2, <5>1 DEF Total
      <4> QED
        BY <2>2, <4>1, <4>2 DEF OneUnit
    <3>2. CASE AllOnes(v) /\ Len(v) >= Total
      <4>1. unit = -1
        BY <1>1, <1>5, <2>6, <3>2 DEF Total
      <4>2. u = v
        BY <2>2, <2>5, <2>7, <3>2, <4>1 DEF OneUnit
      <4> QED
        BY <3>2, <4>2
    <3> QED
      BY <2>1, <3>1, <3>2
  <2>9. Down(u)
    <3> SUFFICES ASSUME unit = -1, NEW k \in 1..n
                 PROVE  u[k] <= w[k]
      OBVIOUS
    <3>1. u[k] <= v[k]
      BY <2>2, <2>6 DEF OneUnit
    <3>2. v[k] <= w[k]
      BY <2>1
    <3> QED
      BY <1>1, <2>5, <2>7, <3>1, <3>2
  <2>10. Up(m + 1, u, j)
    <3> SUFFICES ASSUME unit = 1, units <= n
                 PROVE  /\ j = IF m + 1 < n THEN m + 2 ELSE 1
                        /\ \A k \in 1..n : u[k] = IF k <= m + 1 THEN w[k] + 1 ELSE w[k]
      BY <1>1, <1>2
    <3>1. i = IF m < n THEN m + 1 ELSE 1
      BY <2>1
    <3>2. i = m + 1 /\ m < n
      BY <1>1, <1>2, <3>1
    <3>3. j = IF i < n THEN i + 1 ELSE 1
      BY <2>2, <2>6 DEF OneUnit
    <3>4. ASSUME NEW k \in 1..n
          PROVE  u[k] = IF k <= m + 1 THEN w[k] + 1 ELSE w[k]
      <4>1. u[k] = IF k = i THEN v[k] + 1 ELSE v[k]
        BY <2>2, <2>6 DEF OneUnit
      <4>2. v[k] = IF k <= m THEN w[k] + 1 ELSE w[k]
        BY <2>1
      <4> QED
        BY <1>1, <3>2, <4>1, <4>2
    <3> QED
      BY <1>1, <3>2, <3>3, <3>4
  <2> HIDE DEF Reached, Down, Up
  <2>11. At(m + 1, u, j)
    BY <2>3, <2>6, <2>8, <2>9, <2>10
  <2> HIDE DEF At
  <2> QED
    BY <1>2, <2>11
<1>8. units \in T
  <2>1. \A m \in 0..(units - 1) : m \in T => m + 1 \in T
    BY <1>7
  <2> HIDE DEF T
  <2>2. \A m \in 0..units : m \in T
    BY <1>2, <1>6, <2>1, UpTo
  <2> QED
    BY <1>2, <2>2
<1>9. PICK v, i : At(units, v, i)
  BY <1>8
<1>10. Corrected(w, delta) = v
  BY <1>3, <1>9
<1>11. SumOf(v) = Larger(Total, Len(v))
  <2>1. SumOf(v) \in Int /\ SumOf(v) >= Len(v) /\ (AllOnes(v) => SumOf(v) = Len(v))
        /\ Len(v) \in Nat
    BY <1>9, SumCounts, LenProperties DEF Floored, AllOnes
  <2>2. CASE SumOf(v) = sum + unit * units
    BY <1>1, <1>2, <2>1, <2>2 DEF Total, Larger
  <2>3. CASE AllOnes(v) /\ Len(v) >= Total
    BY <2>1, <2>3 DEF Total, Larger
  <2> QED
    BY <1>9, <2>2, <2>3
<1>12. ASSUME sum >= Total, NEW k \in 1..n
       PROVE  v[k] <= w[k]
  BY <1>5, <1>9, <1>12
<1>13. ASSUME sum < Total, Total - sum <= n, NEW k \in 1..n
       PROVE  w[k] <= v[k] /\ v[k] <= w[k] + 1
  <2>1. unit = 1 /\ units <= n
    BY <1>5, <1>13
  <2>2. v[k] = IF k <= units THEN w[k] + 1 ELSE w[k]
    BY <1>9, <2>1
  <2> QED
    BY <1>1, <2>2
<1> QED
  BY <1>9, <1>10, <1>11, <1>12, <1>13 DEF delta, sum, n

-----------------------------------------------------------------------------
(* Rounding.                                                               *)
LEMMA RoundedNear ==
    ASSUME NEW a \in Nat, NEW b \in Nat, NEW c \in Nat \ {0}
    PROVE  /\ Rounded(a, b, c) \in Nat
           /\ 2 * c * Rounded(a, b, c) <= 2 * a * b + c
           /\ 2 * a * b + c < 2 * c * Rounded(a, b, c) + 2 * c
           /\ IsHalf(a, b, c) => 2 * c * Rounded(a, b, c) = 2 * a * b + c
<1> DEFINE x == 2 * a * b
           d == 2 * c
           q == (x + c) \div d
<1>1. x \in Nat /\ d \in Nat /\ d > 0 /\ d = c + c
  OBVIOUS
<1>2. Rounded(a, b, c) = q
  BY DEF Rounded
<1>3. IsHalf(a, b, c) <=> x % d = c
  BY DEF IsHalf
<1> HIDE DEF x, d
<1>4. q \in Nat /\ d * q <= x + c /\ x + c < d * q + d
  BY <1>1
<1>5. ASSUME x % d = c
      PROVE  d * q = x + c
  <2> DEFINE r == x \div d
  <2>1. r \in Nat /\ x = d * r + c
    BY <1>1, <1>5
  <2> HIDE DEF r
  <2>2. x + c = d * (r + 1)
    BY <1>1, <2>1
  <2>3. q = r + 1
    BY <1>1, <1>4, <2>1, <2>2
  <2> QED
    BY <2>2, <2>3
<1> QED
  BY <1>2, <1>3, <1>4, <1>5 DEF x, d

(* Multiplication, for the steps that need not know more of it.            *)
Times(a, b) == a * b

LEMMA TimesInt == \A a, b \in Int : Times(a, b) \in Int
  BY DEF Times

LEMMA TimesZero == \A a \in Int : Times(a, 0) = 0
  BY DEF Times

LEMMA TimesAdds == \A a, b, c \in Int : Times(a, b + c) = Times(a, b) + Times(a, c)
  BY DEF Times

(* Sums of weights that are bounded one by one.                            *)
LEMMA SumAdds ==
    ASSUME NEW v \in Seq(Int), NEW w \in Seq(Int), NEW x \in Seq(Int),
           Len(v) = Len(w), Len(x) = Len(w), \A i \in 1..Len(w) : v[i] <= w[i] + x[i]
    PROVE  SumOf(v) <= SumOf(w) + SumOf(x)
<1> DEFINE P == PartialSums(v)
           Q == PartialSums(w)
           R == PartialSums(x)
           T == {n \in 0..Len(w) : P[n] <= Q[n] + R[n]}
<1>1. /\ P[0] = 0 /\ \A n \in 1..Len(w) : P[n] = P[n - 1] + v[n]
      /\ \A n \in 0..Len(w) : P[n] \in Int
  BY SumSteps
<1>2. /\ Q[0] = 0 /\ \A n \in 1..Len(w) : Q[n] = Q[n - 1] + w[n]
      /\ \A n \in 0..Len(w) : Q[n] \in Int
  BY SumSteps
<1>3. /\ R[0] = 0 /\ \A n \in 1..Len(w) : R[n] = R[n - 1] + x[n]
      /\ \A n \in 0..Len(w) : R[n] \in Int
  BY SumSteps
<1>4. Len(w) \in Nat
  BY LenProperties
<1> HIDE DEF P, Q, R
<1>5. \A n \in 0..Len(w) : n \in T
  <2>1. 0 \in T
    BY <1>1, <1>2, <1>3, <1>4
  <2>2. ASSUME NEW n \in 0..(Len(w) - 1), n \in T
        PROVE  n + 1 \in T
    <3>1. n + 1 \in 1..Len(w) /\ n \in 0..Len(w) /\ (n + 1) - 1 = n
      BY <1>4
    <3>2. P[n + 1] = P[n] + v[n + 1] /\ Q[n + 1] = Q[n] + w[n + 1] /\ R[n + 1] = R[n] + x[n + 1]
      BY <1>1, <1>2, <1>3, <3>1
    <3>3. P[n] \in Int /\ Q[n] \in Int /\ R[n] \in Int
          /\ v[n + 1] \in Int /\ w[n + 1] \in Int /\ x[n + 1] \in Int
      BY <1>1, <1>2, <1>3, <3>1, ElementOfSeq
    <3>4. P[n] <= Q[n] + R[n] /\ v[n + 1] <= w[n + 1] + x[n + 1]
      BY <2>2, <3>1
    <3>5. P[n] + v[n + 1] <= (Q[n] + w[n + 1]) + (R[n] + x[n + 1])
      <4>1. \A a, b, c, d, e, f \in Int :
               a <= b + c /\ d <= e + f => a + d <= (b + e) + (c + f)
        OBVIOUS
      <4> QED
        BY <3>3, <3>4, <4>1
    <3>6. P[n + 1] <= Q[n + 1] + R[n + 1]
      BY <3>2, <3>5
    <3> QED
      BY <1>4, <3>1, <3>6
  <2>3. \A n \in 0..(Len(w) - 1) : n \in T => n + 1 \in T
    BY <2>2
  <2> HIDE DEF T
  <2> QED
    BY <1>4, <2>1, <2>3, UpTo
<1>6. Len(w) \in T
  <2>1. Len(w) \in 0..Len(w)
    BY <1>4
  <2> QED
    BY <1>5, <2>1
<1> QED
  BY <1>6 DEF P, Q, R, SumOf

LEMMA SumScales ==
    ASSUME NEW v \in Seq(Int), NEW w \in Seq(Int), Len(v) = Len(w), NEW a \in Int,
           \A i \in 1..Len(w) : v[i] = Times(a, w[i])
    PROVE  SumOf(v) = Times(a, SumOf(w))
<1> DEFINE P == PartialSums(v)
           Q == PartialSums(w)
           T == {n \in 0..Len(w) : P[n] = Times(a, Q[n])}
<1>1. /\ P[0] = 0 /\ \A n \in 1..Len(w) : P[n] = P[n - 1] + v[n]
      /\ \A n \in 0..Len(w) : P[n] \in Int
  BY SumSteps
<1>2. /\ Q[0] = 0 /\ \A n \in 1..Len(w) : Q[n] = Q[n - 1] + w[n]
      /\ \A n \in 0..Len(w) : Q[n] \in Int
  BY SumSteps
<1>3. Len(w) \in Nat
  BY LenProperties
<1> HIDE DEF P, Q
<1>4. \A n \in 0..Len(w) : n \in T
  <2>1. 0 \in T
    BY <1>1, <1>2, <1>3, TimesZero
  <2>2. ASSUME NEW n \in 0..(Len(w) - 1), n \in T
        PROVE  n + 1 \in T
    <3>1. n + 1 \in 1..Len(w) /\ n \in 0..Len(w) /\ (n + 1) - 1 = n
      BY <1>3
    <3>2. P[n + 1] = P[n] + v[n + 1] /\ Q[n + 1] = Q[n] + w[n + 1]
      BY <1>1, <1>2, <3>1
    <3>3. Q[n] \in Int /\ w[n + 1] \in Int
      BY <1>2, <3>1, ElementOfSeq
    <3>4. P[n] = Times(a, Q[n]) /\ v[n + 1] = Times(a, w[n + 1])
      BY <2>2, <3>1
    <3>5. Times(a, Q[n] + w[n + 1]) = Times(a, Q[n]) + Times(a, w[n + 1])
      BY <3>3, TimesAdds
    <3>6. P[n + 1] = Times(a, Q[n + 1])
      BY <3>2, <3>4, <3>5
    <3> QED
      BY <1>3, <3>1, <3>6
  <2>3. \A n \in 0..(Len(w) - 1) : n \in T => n + 1 \in T
    BY <2>2
  <2> HIDE DEF T
  <2> QED
    BY <1>3, <2>1, <2>3, UpTo
<1>5. Len(w) \in T
  <2>1. Len(w) \in 0..Len(w)
    BY <1>3
  <2> QED
    BY <1>4, <2>1
<1> QED
  BY <1>5 DEF P, Q, SumOf

LEMMA FunctionSeq ==
    ASSUME NEW n \in Nat, NEW S, NEW f \in [1..n -> S]
    PROVE  f \in Seq(S) /\ Len(f) = n
<1>1. f \in Seq(S)
  BY SeqDef
<1> QED
  BY <1>1, LenProperties

(* All weights d, but for an e.                                            *)
LEMMA SumButOne ==
    ASSUME NEW n \in Nat, NEW c \in 1..n, NEW d \in Int, NEW e \in Int
    PROVE  SumOf([i \in 1..n |-> IF i = c THEN e ELSE d]) = Times(d, n - 1) + e
<1> DEFINE x == [i \in 1..n |-> IF i = c THEN e ELSE d]
           y == [i \in 1..n |-> d]
           one == [i \in 1..n |-> 1]
<1>1. x \in Seq(Int) /\ Len(x) = n
  BY FunctionSeq
<1>2. y \in Seq(Int) /\ Len(y) = n
  BY FunctionSeq
<1>3. one \in Seq(Int) /\ Len(one) = n
  BY FunctionSeq
<1>4. SumOf(one) = n
  <2>1. \A i \in 1..n : one[i] = 1
    OBVIOUS
  <2> HIDE DEF one
  <2> QED
    BY <1>3, <2>1, SumCounts
<1>5. SumOf(y) = Times(d, n)
  <2>1. \A i \in 1..n : y[i] = Times(d, one[i])
    BY DEF Times
  <2> HIDE DEF y, one
  <2> QED
    BY <1>2, <1>3, <1>4, <2>1, SumScales
<1>6. SumOf(x) = SumOf(y) + (e - d)
  <2> DEFINE more == e - d
  <2>1. more \in Int /\ x[c] = y[c] + more /\ \A j \in 1..n : j # c => x[j] = y[j]
    OBVIOUS
  <2> HIDE DEF x, y, more
  <2>2. Len(x) = Len(y) /\ c \in 1..Len(y) /\ \A j \in 1..Len(y) : j # c => x[j] = y[j]
    BY <1>1, <1>2, <2>1
  <2>3. SumOf(x) = SumOf(y) + more
    BY <1>1, <1>2, <2>1, <2>2, SumMoves, Zenon
  <2> QED
    BY <2>3 DEF more
<1>7. Times(d, n - 1) = Times(d, n) - d /\ Times(d, n) \in Int
  BY DEF Times
<1> QED
  BY <1>5, <1>6, <1>7

(* What holds of each weight up to a surplus d, and e for the one at c,    *)
(* holds of the sums.                                                      *)
LEMMA SumCompared ==
    ASSUME NEW v \in Seq(Int), NEW w \in Seq(Int), Len(v) = Len(w), NEW c \in 1..Len(w),
           NEW a \in Int, NEW b \in Int, NEW d \in Int, NEW e \in Int,
           \A i \in 1..Len(w) :
              Times(a, v[i]) <= Times(b, w[i]) + (IF i = c THEN e ELSE d)
    PROVE  Times(a, SumOf(v)) <= Times(b, SumOf(w)) + Times(d, Len(w) - 1) + e
<1> DEFINE n == Len(w)
           av == [i \in 1..n |-> Times(a, v[i])]
           bw == [i \in 1..n |-> Times(b, w[i])]
           x == [i \in 1..n |-> IF i = c THEN e ELSE d]
<1>1. n \in Nat /\ \A i \in 1..n : v[i] \in Int /\ w[i] \in Int
  BY LenProperties, ElementOfSeq
<1>2. av \in Seq(Int) /\ Len(av) = n
  <2>1. av \in [1..n -> Int]
    BY <1>1, TimesInt
  <2> HIDE DEF av, n
  <2> QED
    BY <1>1, <2>1, FunctionSeq
<1>3. bw \in Seq(Int) /\ Len(bw) = n
  <2>1. bw \in [1..n -> Int]
    BY <1>1, TimesInt
  <2> HIDE DEF bw, n
  <2> QED
    BY <1>1, <2>1, FunctionSeq
<1>4. x \in Seq(Int) /\ Len(x) = n
  <2>1. x \in [1..n -> Int]
    BY <1>1
  <2> HIDE DEF x, n
  <2> QED
    BY <1>1, <2>1, FunctionSeq
<1>5. \A i \in 1..n : av[i] <= bw[i] + x[i]
  OBVIOUS
<1>6. SumOf(x) = Times(d, n - 1) + e
  BY <1>1, SumButOne
<1>7. \A i \in 1..Len(v) : av[i] = Times(a, v[i])
  OBVIOUS
<1>8. \A i \in 1..Len(w) : bw[i] = Times(b, w[i])
  OBVIOUS
<1> HIDE DEF av, bw, x
<1>9. SumOf(av) = Times(a, SumOf(v))
  BY <1>2, <1>7, SumScales, Zenon
<1>10. SumOf(bw) = Times(b, SumOf(w))
  BY <1>3, <1>8, SumScales, Zenon
<1> HIDE DEF n
<1>11. SumOf(av) <= SumOf(bw) + SumOf(x)
  BY <1>2, <1>3, <1>4, <1>5, SumAdds
<1>12. SumOf(v) \in Int /\ SumOf(w) \in Int
  <2>1. Len(v) \in 0..Len(v) /\ Len(w) \in 0..Len(w)
    BY LenProperties
  <2> QED
    BY <2>1, SumSteps DEF SumOf
<1>13. Times(b, SumOf(w)) \in Int
  BY <1>12, TimesInt
<1>14. Times(d, n - 1) \in Int
  <2>1. n - 1 \in Int
    BY <1>1
  <2> QED
    BY <2>1, TimesInt, Zenon
<1>15. \A p, q, r \in Int : p + (q + r) = p + q + r
  OBVIOUS
<1> QED
  BY <1>6, <1>9, <1>10, <1>11, <1>13, <1>14, <1>15 DEF n

(* x is a / S of the total, rounded to one of its neighbours or up to one. *)
Near(x, a, S) ==
    /\ 2 * a * Total <= 2 * S * x + S
    /\ x = 1 \/ 2 * S * x <= 2 * a * Total + S

(* It is no more than a if S is above the total, and no less if S is below.*)
LEMMA NearBelow ==
    ASSUME NEW x \in Int, NEW a \in Int, NEW S \in Int, x >= 1, a >= 1, S >= Total, Near(x, a, S)
    PROVE  x <= a
<1> SUFFICES ASSUME x >= a + 1
             PROVE  FALSE
  OBVIOUS
<1>1. 2 * S * x <= 200 * a + S
  BY DEF Near, Total
<1>2. S * x >= S * (a + 1)
  BY DEF Total
<1>3. S * (a + 1) = S * a + S
  OBVIOUS
<1>4. S * a >= 100 * a
  BY DEF Total
<1> QED
  BY <1>1, <1>2, <1>3, <1>4 DEF Total

LEMMA NearAbove ==
    ASSUME NEW x \in Int, NEW a \in Int, NEW S \in Int, x >= 1, a >= 1, S >= 1, S < Total,
           Near(x, a, S)
    PROVE  x >= a
<1> SUFFICES ASSUME x <= a - 1
             PROVE  FALSE
  OBVIOUS
<1>1. 200 * a <= 2 * S * x + S
  BY DEF Near, Total
<1>2. S * x <= S * (a - 1)
  OBVIOUS
<1>3. S * (a - 1) = S * a - S
  OBVIOUS
<1>4. S * a <= 100 * a
  BY DEF Total
<1> QED
  BY <1>1, <1>2, <1>3, <1>4 DEF Total

(* How far it may fall short of a when S is above the total ...            *)
LEMMA NearShort ==
    ASSUME NEW x \in Int, NEW a \in Int, NEW S \in Int, NEW n \in Int, a >= 1, a <= S, n >= 2,
           S >= Total, S - Total <= n - 2, Near(x, a, S)
    PROVE  x >= a - (n - 2)
<1> SUFFICES ASSUME x <= a - n + 1
             PROVE  FALSE
  OBVIOUS
<1>1. 200 * a <= 2 * S * x + S
  BY DEF Near, Total
<1>2. S * x <= S * (a - n + 1)
  BY DEF Total
<1>3. S * (a - n + 1) = S * a - S * n + S
  OBVIOUS
<1>4. (S - 100) * a <= (n - 2) * a
  BY DEF Total
<1>5. (n - 2) * a <= (n - 2) * S
  OBVIOUS
<1>6. (S - 100) * a = S * a - 100 * a /\ (n - 2) * S = S * n - 2 * S
  OBVIOUS
<1>7. S * a \in Int /\ S * n \in Int /\ S * x \in Int /\ (S - 100) * a \in Int
      /\ (n - 2) * a \in Int
  OBVIOUS
<1> QED
  BY <1>1, <1>2, <1>3, <1>4, <1>5, <1>6, <1>7 DEF Total

(* ... and exceed it when S is below.                                      *)
LEMMA NearOver ==
    ASSUME NEW x \in Int, NEW a \in Int, NEW S \in Int, NEW n \in Int, a >= 1, a <= S, n >= 3,
           S < Total, 2 * (Total - S) <= n - 1, Near(x, a, S)
    PROVE  x <= a + (n - 2)
<1> SUFFICES ASSUME x >= a + n - 1
             PROVE  FALSE
  OBVIOUS
<1>1. 2 * S * x <= 200 * a + S
  BY DEF Near, Total
<1>2. S * x >= S * (a + n - 1)
  OBVIOUS
<1>3. S * (a + n - 1) = S * a + S * n - S
  OBVIOUS
<1>4. (2 * (100 - S)) * a <= (n - 1) * a
  BY DEF Total
<1>5. (n - 1) * a <= (n - 1) * S
  OBVIOUS
<1>6. (2 * (100 - S)) * a = 200 * a - 2 * S * a /\ (n - 1) * S = S * n - S
  OBVIOUS
<1>7. S * n >= 3 * S
  OBVIOUS
<1>8. S * a \in Int /\ S * n \in Int /\ S * x \in Int /\ (2 * (100 - S)) * a \in Int
      /\ (n - 1) * a \in Int
  OBVIOUS
<1> QED
  BY <1>1, <1>2, <1>3, <1>4, <1>5, <1>6, <1>7, <1>8 DEF Total

LEMMA RoundedShare ==
    ASSUME NEW a \in Nat \ {0}, NEW S \in Nat \ {0}, NEW short \in {0, 1},
           short = 1 => IsHalf(a, Total, S)
    PROVE  LET x == Larger(1, Rounded(a, Total, S) - short)
           IN  x \in Int /\ x >= 1 /\ Near(x, a, S)
<1> DEFINE r == Rounded(a, Total, S)
           x == Larger(1, r - short)
<1>1. /\ r \in Nat /\ 2 * S * r <= 2 * a * Total + S
      /\ 2 * a * Total + S < 2 * S * r + 2 * S
      /\ IsHalf(a, Total, S) => 2 * S * r = 2 * a * Total + S
  <2>1. Total \in Nat
    BY DEF Total
  <2> QED
    BY <2>1, RoundedNear
<1> HIDE DEF r
<1>2. 2 * a * Total <= 2 * S * (r - short) + S
  BY <1>1 DEF Total
<1>3. 2 * S * (r - short) <= 2 * a * Total + S
  BY <1>1 DEF Total
<1>4. r - short \in Int
  BY <1>1
<1>5. x \in Int /\ x >= 1 /\ x >= r - short /\ x \in {1, r - short}
  BY <1>4 DEF Larger
<1> HIDE DEF x
<1>6. Near(x, a, S)
  <2>1. CASE x = r - short
    BY <1>2, <1>3, <2>1 DEF Near
  <2>2. CASE x = 1
    <3>1. 2 * S * (r - short) <= 2 * S * x
      BY <1>4, <1>5
    <3>2. 2 * a * Total <= 2 * S * x + S
      BY <1>2, <1>4, <1>5, <3>1 DEF Total
    <3> QED
      BY <2>2, <3>2 DEF Near
  <2> QED
    BY <1>5, <2>1, <2>2
<1> QED
  BY <1>5, <1>6 DEF x, r

(* Every weight is scaled to its neighbourhood, and less is lost in all    *)
(* than there are endpoints.                                               *)
LEMMA Scaled ==
    ASSUME NEW u, Floored(u), NEW s \in Scalings(u)
    PROVE  /\ Floored(s) /\ Len(s) = Len(u)
           /\ \A i \in 1..Len(u) : Near(s[i], u[i], SumOf(u))
           /\ Total - SumOf(s) <= Len(u)
<1> DEFINE S == SumOf(u)
           n == Len(u)
<1>1. /\ S \in Int /\ S >= n /\ n \in Nat /\ n >= 1 /\ u \in Seq(Int) /\ DOMAIN u = 1..n
      /\ \A i \in 1..n : u[i] \in Int /\ u[i] >= 1
  BY SumCounts, LenProperties, ElementOfSeq DEF Floored
<1>2. CASE S = Total
  <2>1. s = u
    BY <1>2 DEF Scalings
  <2>2. \A i \in 1..n : Near(u[i], u[i], S)
    BY <1>1, <1>2 DEF Near, Total
  <2> QED
    BY <1>1, <1>2, <2>1, <2>2 DEF Total
<1>3. CASE S # Total
  <2> DEFINE halves == {i \in DOMAIN u : IsHalf(u[i], Total, S)}
             at(i, H) == Larger(1, Rounded(u[i], Total, S) - (IF i \in H THEN 1 ELSE 0))
  <2>1. PICK H \in SUBSET halves : s = [i \in DOMAIN u |-> at(i, H)]
    BY <1>3 DEF Scalings
  <2>2. ASSUME NEW i \in 1..n
        PROVE  s[i] \in Int /\ s[i] >= 1 /\ Near(s[i], u[i], S)
    <3> DEFINE short == IF i \in H THEN 1 ELSE 0
    <3>1. u[i] \in Nat \ {0} /\ S \in Nat \ {0} /\ short \in {0, 1}
          /\ (short = 1 => IsHalf(u[i], Total, S))
      BY <1>1, <2>1
    <3>2. s[i] = Larger(1, Rounded(u[i], Total, S) - short)
      BY <1>1, <2>1
    <3> HIDE DEF short, S
    <3> QED
      BY <3>1, <3>2, RoundedShare
  <2>3. s \in Seq(Int) /\ Len(s) = n
    <3>1. s \in [1..n -> Int]
      BY <1>1, <2>1, <2>2
    <3> HIDE DEF n
    <3> QED
      BY <1>1, <3>1, FunctionSeq
  <2>4. Floored(s)
    BY <1>1, <2>2, <2>3 DEF Floored
  <2>5. Total - SumOf(s) <= n
    <3>1. \A i \in 1..n : Times(200, u[i]) <= Times(2 * S, s[i]) + (IF i = 1 THEN S ELSE S)
      BY <1>1, <2>2 DEF Near, Times, Total
    <3>2. Len(u) = Len(s) /\ 1 \in 1..Len(s) /\ 2 * S \in Int /\ Len(s) = n
      BY <1>1, <2>3
    <3>3. SumOf(s) \in Int
      BY <2>4, SumCounts DEF Floored
    <3>4. Times(200, S) <= Times(2 * S, SumOf(s)) + Times(S, n - 1) + S
      <4> DEFINE Double == 2 * S
      <4>1. \A i \in 1..Len(s) : Times(200, u[i]) <= Times(Double, s[i]) + (IF i = 1 THEN S ELSE S)
        BY <3>1, <3>2
      <4>2. Double \in Int
        BY <1>1
      <4> HIDE DEF Double
      <4>3. 200 \in Int
        OBVIOUS
      <4>4. Times(200, SumOf(u)) <= Times(Double, SumOf(s)) + Times(S, Len(s) - 1) + S
        BY <1>1, <2>3, <3>2, <4>1, <4>2, <4>3, SumCompared, Zenon
      <4> QED
        BY <3>2, <4>4 DEF Double
    <3> DEFINE y == SumOf(s)
    <3> HIDE DEF S, n, y
    <3>5. 200 * S <= 2 * S * y + S * (n - 1) + S
      BY <3>4 DEF Times, y
    <3>6. 2 * S * y + S * (n - 1) + S = S * (2 * y + n)
      BY <1>1, <3>3 DEF y
    <3>7. S >= 1 /\ y \in Int /\ n \in Int
      BY <1>1, <3>3 DEF y
    <3>8. 200 <= 2 * y + n
      <4> SUFFICES ASSUME 2 * y + n <= 199
                   PROVE  FALSE
        BY <3>7
      <4>1. S * (2 * y + n) <= S * 199
        BY <1>1, <3>7
      <4> QED
        BY <1>1, <3>5, <3>6, <3>7, <4>1
    <3> QED
      BY <1>1, <3>7, <3>8 DEF Total, y
  <2> QED
    BY <2>2, <2>3, <2>4, <2>5
<1> QED
  BY <1>2, <1>3

-----------------------------------------------------------------------------
(* What the weights are to be after a rebalancing.                         *)
Balanced(w) == Floored(w) /\ SumOf(w) = Larger(Total, Len(w))

LEMMA NearOneMore ==
    ASSUME NEW x \in Int, NEW a \in Int, NEW S \in Int, x >= 1, a >= 1, S >= 1, Near(x, a, S)
    PROVE  S * x <= 100 * a + S
<1>1. CASE x = 1
  BY <1>1
<1>2. CASE 2 * S * x <= 2 * a * Total + S
  <2> DEFINE y == S * x
  <2>1. y \in Int /\ 2 * y <= 200 * a + S
    BY <1>2 DEF Total
  <2> HIDE DEF y
  <2>2. y <= 100 * a + S
    BY <2>1
  <2> QED
    BY <2>2 DEF y
<1> QED
  BY <1>1, <1>2 DEF Near

LEMMA RebalancedBalanced ==
    ASSUME NEW w \in Seq(Int), Len(w) >= 1, NEW r \in Rebalanced(w)
    PROVE  Balanced(r) /\ Len(r) = Len(w)
<1> DEFINE f == [i \in DOMAIN w |-> Larger(w[i], 1)]
           n == Len(w)
<1>1. n \in Nat /\ DOMAIN w = 1..n /\ \A i \in 1..n : w[i] \in Int
  BY LenProperties, ElementOfSeq
<1>2. Floored(f) /\ Len(f) = n
  <2>1. \A i \in 1..n : Larger(w[i], 1) \in Int /\ Larger(w[i], 1) >= 1
    BY <1>1 DEF Larger
  <2>2. f \in [1..n -> Int] /\ \A i \in 1..n : f[i] >= 1
    BY <1>1, <2>1
  <2>3. n >= 1
    OBVIOUS
  <2> HIDE DEF f, n
  <2>4. f \in Seq(Int) /\ Len(f) = n
    BY <1>1, <2>2, FunctionSeq
  <2> QED
    BY <2>2, <2>3, <2>4 DEF Floored
<1>3. PICK s \in Scalings(f) : r = Corrected(s, Total - SumOf(s))
  BY DEF Rebalanced
<1> HIDE DEF f
<1>4. Floored(s) /\ Len(s) = n
  BY <1>2, <1>3, Scaled
<1> QED
  BY <1>3, <1>4, CorrectedEnds DEF Balanced

LEMMA CutBack ==
    ASSUME NEW S \in Int, NEW p \in Int, NEW n \in Int, NEW x \in Int, S >= 1, p >= 1, S < 100,
           100 * p <= S * (n - 1) + S * x
    PROVE  p <= n - 1 + x
<1> SUFFICES ASSUME p >= n + x
             PROVE  FALSE
  OBVIOUS
<1> DEFINE a == S * (n - 1)
           b == S * x
           c == S * p
           d == S * (n + x)
<1>1. a \in Int /\ b \in Int /\ c \in Int /\ d \in Int
  OBVIOUS
<1>2. a + b + S = d
  OBVIOUS
<1>3. c >= d
  OBVIOUS
<1>4. c <= 100 * p
  OBVIOUS
<1>5. 100 * p <= a + b
  OBVIOUS
<1> HIDE DEF a, b, c, d
<1> QED
  BY <1>1, <1>2, <1>3, <1>4, <1>5

(* Rebalancing weights that nearly add up to the total leaves each of them *)
(* within one unit per other endpoint.                                     *)
LEMMA RebalancedClose ==
    ASSUME NEW u, Floored(u), Len(u) >= 2, Len(u) <= Total, NEW c \in 1..Len(u),
           SumOf(u) - Total <= Len(u) - 2, 2 * (Total - SumOf(u)) <= Len(u) - 1,
           NEW r \in Rebalanced(u)
    PROVE  r[c] - u[c] \in -(Len(u) - 1)..(Len(u) - 1)
<1> DEFINE n == Len(u)
           S == SumOf(u)
           p == u[c]
           x == r[c]
<1>1. /\ S \in Int /\ S >= n /\ n \in Nat /\ u \in Seq(Int) /\ DOMAIN u = 1..n
      /\ \A i \in 1..n : u[i] \in Int /\ u[i] >= 1
  BY SumCounts, LenProperties, ElementOfSeq DEF Floored
<1>2. p \in Int /\ p >= 1 /\ p <= S
  <2>1. u \in [1..n -> Nat]
    BY <1>1
  <2>2. u \in Seq(Nat)
    <3> HIDE DEF n
    <3> QED
      BY <1>1, <2>1, FunctionSeq
  <2> QED
    BY <1>1, <2>2, SumCovers
<1>3. [i \in DOMAIN u |-> Larger(u[i], 1)] = u
  <2>1. ASSUME NEW i \in 1..n
        PROVE  Larger(u[i], 1) = u[i]
    BY <1>1 DEF Larger
  <2> QED
    BY <1>1, <2>1
<1>4. PICK s \in Scalings(u) : r = Corrected(s, Total - SumOf(s))
  BY <1>3 DEF Rebalanced
<1>5. Floored(s) /\ Len(s) = n /\ (\A i \in 1..n : Near(s[i], u[i], S)) /\ Total - SumOf(s) <= n
  BY <1>4, Scaled
<1>6. SumOf(s) \in Int /\ \A i \in 1..n : s[i] \in Int /\ s[i] >= 1
  BY <1>5, SumCounts, ElementOfSeq DEF Floored
<1>7. /\ Floored(r) /\ Len(r) = n /\ SumOf(r) = Total
      /\ SumOf(s) >= Total => \A k \in 1..n : r[k] <= s[k]
      /\ SumOf(s) < Total => \A k \in 1..n : s[k] <= r[k] /\ r[k] <= s[k] + 1
  <2>1. /\ Floored(r) /\ Len(r) = n /\ SumOf(r) = Larger(Total, Len(r))
        /\ SumOf(s) >= Total => \A k \in 1..Len(s) : r[k] <= s[k]
        /\ SumOf(s) < Total /\ Total - SumOf(s) <= Len(s) =>
              \A k \in 1..Len(s) : s[k] <= r[k] /\ r[k] <= s[k] + 1
    BY <1>4, <1>5, CorrectedEnds
  <2>2. Larger(Total, n) = Total
    <3>1. n \in Nat /\ n <= Total
      BY <1>1
    <3> HIDE DEF n
    <3> QED
      BY <3>1 DEF Larger, Total
  <2> QED
    BY <1>5, <2>1, <2>2
<1>8. r \in Seq(Int) /\ \A i \in 1..n : r[i] \in Int /\ r[i] >= 1
  BY <1>7, ElementOfSeq DEF Floored
<1> DEFINE y == s[c]
           t == SumOf(s)
<1>9. /\ x \in Int /\ x >= 1 /\ y \in Int /\ y >= 1 /\ Near(y, p, S) /\ t \in Int
      /\ t >= Total => x <= y
      /\ t < Total => y <= x /\ x <= y + 1
  BY <1>5, <1>6, <1>7, <1>8
<1>10. n >= 2 /\ S - Total <= n - 2 /\ 2 * (Total - S) <= n - 1
  BY DEF Total
<1>11. SUFFICES p - (n - 1) <= x /\ x <= p + (n - 1)
  BY <1>1, <1>2, <1>9
<1>12. CASE S >= Total /\ t >= Total
  <2>1. \A i \in 1..n : r[i] <= u[i]
    <3> SUFFICES ASSUME NEW i \in 1..n
                 PROVE  r[i] <= u[i]
      OBVIOUS
    <3>1. r[i] <= s[i]
      BY <1>7, <1>12
    <3>2. s[i] <= u[i]
      BY <1>1, <1>5, <1>6, <1>12, NearBelow
    <3> QED
      BY <1>1, <1>6, <1>8, <3>1, <3>2
  <2> DEFINE less == x - p
  <2>2. \A i \in 1..Len(u) : Times(1, r[i]) <= Times(1, u[i]) + (IF i = c THEN less ELSE 0)
    <3> SUFFICES ASSUME NEW i \in 1..n
                 PROVE  r[i] <= u[i] + (IF i = c THEN less ELSE 0)
      BY <1>1, <1>8 DEF Times
    <3>1. CASE i = c
      BY <1>2, <1>9, <3>1
    <3>2. CASE i # c
      BY <1>1, <1>8, <2>1, <3>2
    <3> QED
      BY <3>1, <3>2
  <2>3. less \in Int /\ 1 \in Int /\ 0 \in Int /\ Len(r) = Len(u)
    BY <1>2, <1>7, <1>9
  <2> HIDE DEF less
  <2>4. Times(1, SumOf(r)) <= Times(1, SumOf(u)) + Times(0, Len(u) - 1) + less
    BY <1>1, <1>8, <2>2, <2>3, SumCompared, Zenon
  <2>5. 100 <= S + less
    BY <1>1, <1>7, <2>3, <2>4 DEF Times, Total
  <2>6. x <= p
    BY <2>1
  <2> HIDE DEF n, S, p, x
  <2> QED
    BY <1>1, <1>2, <1>9, <1>10, <2>5, <2>6 DEF less, Total
<1>13. CASE S >= Total /\ t < Total
  <2> HIDE DEF n, S, p, x, y, t
  <2>1. y <= p
    BY <1>1, <1>2, <1>9, <1>13, NearBelow
  <2>2. y >= p - (n - 2)
    BY <1>1, <1>2, <1>9, <1>10, <1>13, NearShort
  <2> QED
    BY <1>1, <1>2, <1>9, <1>10, <1>13, <2>1, <2>2
<1>14. CASE S < Total
  <2>1. n >= 3 /\ S >= 1
    BY <1>1, <1>10, <1>14 DEF Total
  <2>2. y <= p + (n - 2) /\ y >= p
    <3> HIDE DEF n, S, p, x, y, t
    <3>1. y <= p + (n - 2)
      BY <1>1, <1>2, <1>9, <1>10, <1>14, <2>1, NearOver
    <3>2. y >= p
      BY <1>1, <1>2, <1>9, <1>14, <2>1, NearAbove
    <3> QED
      BY <3>1, <3>2
  <2>3. x <= p + (n - 1)
    <3> HIDE DEF n, S, p, x, y, t
    <3> QED
      BY <1>1, <1>2, <1>9, <2>2 DEF Total
  <2>4. x >= p - (n - 1)
    <3>1. CASE t < Total
      <4> HIDE DEF n, S, p, x, y, t
      <4> QED
        BY <1>1, <1>2, <1>9, <2>1, <2>2, <3>1
    <3>2. CASE t >= Total
      <4> DEFINE rest == S * x - 100 * p
      <4>1. \A i \in 1..Len(u) : Times(S, r[i]) <= Times(100, u[i]) + (IF i = c THEN rest ELSE S)
        <5> SUFFICES ASSUME NEW i \in 1..n
                     PROVE  S * r[i] <= 100 * u[i] + (IF i = c THEN rest ELSE S)
          BY DEF Times
        <5>1. CASE i = c
          BY <1>1, <1>2, <1>9, <5>1
        <5>2. CASE i # c
          <6> DEFINE a == u[i]
                     b == s[i]
                     z == r[i]
          <6>1. a \in Int /\ a >= 1 /\ b \in Int /\ b >= 1 /\ z \in Int /\ z <= b /\ Near(b, a, S)
            BY <1>1, <1>5, <1>6, <1>7, <1>8, <3>2
          <6> HIDE DEF a, b, z, S
          <6>2. S * b <= 100 * a + S
            BY <1>1, <2>1, <6>1, NearOneMore
          <6>3. S * z <= S * b
            BY <1>1, <2>1, <6>1
          <6>4. S * z \in Int /\ S * b \in Int /\ 100 * a + S \in Int
            BY <1>1, <6>1
          <6>5. S * z <= 100 * a + S
            BY <6>2, <6>3, <6>4
          <6> QED
            BY <5>2, <6>5 DEF a, z
        <5> QED
          BY <5>1, <5>2
      <4>2. rest \in Int /\ 100 \in Int /\ Len(r) = Len(u)
        BY <1>1, <1>2, <1>7, <1>9
      <4> HIDE DEF rest
      <4>3. Times(S, SumOf(r)) <= Times(100, SumOf(u)) + Times(S, Len(u) - 1) + rest
        BY <1>1, <1>8, <4>1, <4>2, SumCompared, Zenon
      <4> HIDE DEF S, n, p, x
      <4>4. S * 100 <= 100 * S + S * (n - 1) + rest
        BY <1>7, <4>3 DEF Times, Total, S, n
      <4>5. 100 * p <= S * (n - 1) + S * x
        <5>1. S * (n - 1) \in Int /\ S * x \in Int
          BY <1>1, <1>9
        <5> QED
          BY <1>1, <1>2, <4>4, <5>1 DEF rest
      <4>6. n \in Int /\ S \in Int /\ x \in Int /\ p \in Int /\ p >= 1 /\ S >= 1 /\ S < 100
        BY <1>1, <1>2, <1>9, <1>14, <2>1 DEF Total
      <4>7. p <= n - 1 + x
        BY <4>5, <4>6, CutBack, Zenon
      <4> QED
        BY <4>6, <4>7
    <3> QED
      BY <1>9, <3>1, <3>2 DEF Total
  <2> QED
    BY <2>3, <2>4
<1> QED
  BY <1>1, <1>9, <1>12, <1>13, <1>14 DEF Total

-----------------------------------------------------------------------------
(* What ApplyCanaryWeights gives an endpoint other than the canary.        *)
LEMMA OtherShare ==
    ASSUME NEW b \in Nat \ {0}, NEW O \in Nat \ {0}, NEW B \in Nat \ {0}
    PROVE  LET x == Larger(1, Rounded(b, O, B))
           IN  /\ x \in Int /\ x >= 1 /\ B * x <= O * b + (B - 1)
               /\ 2 * O * b <= 2 * B * x + B
<1> DEFINE q == Rounded(b, O, B)
           x == Larger(1, q)
           z == O * b
<1>1. q \in Nat /\ 2 * B * q <= 2 * b * O + B /\ 2 * b * O + B < 2 * B * q + 2 * B
  BY RoundedNear
<1> HIDE DEF q
<1>2. z \in Nat /\ z >= 1 /\ 2 * b * O = 2 * z /\ 2 * O * b = 2 * z
  OBVIOUS
<1>3. x \in Int /\ x >= 1 /\ x >= q /\ x \in {1, q}
  BY <1>1 DEF Larger
<1> HIDE DEF x, z
<1>4. B * x <= z + (B - 1)
  <2>1. CASE x = 1
    BY <1>2, <2>1
  <2>2. CASE x = q
    <3> DEFINE y == B * q
    <3>1. y \in Int /\ 2 * y <= 2 * z + B
      BY <1>1, <1>2
    <3> HIDE DEF y
    <3>2. y <= z + (B - 1)
      BY <1>2, <3>1
    <3> QED
      BY <2>2, <3>2 DEF y
  <2> QED
    BY <1>3, <2>1, <2>2
<1>5. 2 * z <= 2 * B * x + B
  <2> DEFINE y == B * q
             t == B * x
  <2>1. y <= t
    BY <1>1, <1>3
  <2>2. y \in Int /\ t \in Int /\ 2 * B * q = 2 * y /\ 2 * B * x = 2 * t
    BY <1>1, <1>3
  <2> HIDE DEF y, t
  <2>3. 2 * z + B < 2 * y + 2 * B
    BY <1>1, <1>2, <2>2
  <2>4. 2 * z <= 2 * t + B
    BY <1>2, <2>1, <2>2, <2>3
  <2> QED
    BY <2>2, <2>4
<1>6. B * x <= O * b + (B - 1) /\ 2 * O * b <= 2 * B * x + B
  BY <1>2, <1>4, <1>5 DEF z
<1> QED
  BY <1>3, <1>6 DEF x, q

(* The share of the canary and that of the others, as ApplyCanaryWeights   *)
(* sets out with them.                                                     *)
LEMMA SharesSplit ==
    ASSUME NEW w, Len(w) \in Nat, Len(w) >= 2, NEW percent \in Int
    PROVE  LET share == CanaryPercent(w, percent)
               others == Larger(Total - Clamp(percent, 1, 99), Len(w) - 1)
           IN  /\ share \in Nat \ {0} /\ others \in Nat \ {0}
               /\ Len(w) <= Total => share + others = Total
               /\ Len(w) > Total => share = 1
<1> DEFINE n == Len(w)
           P == Clamp(percent, 1, 99)
<1>1. P \in 1..99
  BY DEF Clamp
<1> HIDE DEF P
<1>2. CanaryPercent(w, percent) = Larger(1, Clamp(P, 1, Total - (n - 1)))
  BY DEF CanaryPercent, P
<1> HIDE DEF n
<1>3. n \in Nat /\ n >= 2
  BY DEF n
<1>4. /\ Larger(1, Clamp(P, 1, Total - (n - 1))) \in Nat \ {0}
      /\ Larger(Total - P, n - 1) \in Nat \ {0}
      /\ n <= Total => Larger(1, Clamp(P, 1, Total - (n - 1))) + Larger(Total - P, n - 1) = Total
      /\ n > Total => Larger(1, Clamp(P, 1, Total - (n - 1))) = 1
  BY <1>1, <1>3 DEF Larger, Clamp, Total
<1> QED
  BY <1>2, <1>4 DEF n, P

(* With more endpoints than there are units to share each has one.         *)
LEMMA BalancedOnes ==
    ASSUME NEW r, Balanced(r), Len(r) > Total, NEW c \in 1..Len(r)
    PROVE  r[c] = 1
<1> DEFINE n == Len(r)
           one == [i \in 1..n |-> 1]
           less == 1 - r[c]
<1>1. r \in Seq(Int) /\ n \in Nat /\ (\A i \in 1..n : r[i] \in Int /\ r[i] >= 1) /\ SumOf(r) = n
  <2>1. r \in Seq(Int) /\ n \in Nat /\ (\A i \in 1..n : r[i] \in Int /\ r[i] >= 1)
    BY LenProperties, ElementOfSeq DEF Balanced, Floored
  <2>2. Larger(Total, n) = n
    <3>1. n > Total
      OBVIOUS
    <3> HIDE DEF n
    <3> QED
      BY <2>1, <3>1 DEF Larger, Total
  <2> QED
    BY <2>1, <2>2 DEF Balanced
<1>2. one \in Seq(Int) /\ Len(one) = n
  <2>1. one \in [1..n -> Int]
    OBVIOUS
  <2> HIDE DEF one, n
  <2> QED
    BY <1>1, <2>1, FunctionSeq
<1>3. SumOf(one) = n
  <2>1. \A i \in 1..Len(one) : one[i] = 1
    BY <1>2
  <2> HIDE DEF one
  <2>2. \A i \in 1..Len(one) : one[i] >= 1
    BY <2>1
  <2> QED
    BY <1>2, <2>1, <2>2, SumCounts
<1>4. \A i \in 1..Len(r) : Times(1, one[i]) <= Times(1, r[i]) + (IF i = c THEN less ELSE 0)
  <2> SUFFICES ASSUME NEW i \in 1..n
               PROVE  1 <= r[i] + (IF i = c THEN less ELSE 0)
    BY <1>1 DEF Times
  <2>1. r[i] \in Int /\ r[i] >= 1 /\ r[c] \in Int
    BY <1>1
  <2> QED
    BY <2>1
<1>5. less \in Int /\ 1 \in Int /\ 0 \in Int /\ Len(one) = Len(r) /\ r[c] \in Int /\ r[c] >= 1
  BY <1>1, <1>2
<1> HIDE DEF less, one
<1>6. Times(1, SumOf(one)) <= Times(1, SumOf(r)) + Times(0, Len(r) - 1) + less
  BY <1>1, <1>2, <1>4, <1>5, SumCompared, Zenon
<1>7. n <= n + less
  BY <1>1, <1>3, <1>5, <1>6 DEF Times
<1> HIDE DEF n
<1> QED
  BY <1>1, <1>5, <1>7 DEF less

(* The arithmetic of the two bounds on the sum of all shares.              *)
LEMMA SharesOver ==
    ASSUME NEW B \in Int, NEW n \in Int, NEW S \in Int, NEW share \in Int, NEW others \in Int,
           B >= 1, n >= 2, share + others = 100,
           B * S <= others * B + (B - 1) * (n - 1) + B * share
    PROVE  S - 100 <= n - 2
<1> SUFFICES ASSUME S >= 100 + n - 1
             PROVE  FALSE
  OBVIOUS
<1>1. others = 100 - share
  OBVIOUS
<1>2. others * B + B * share = B * 100
  BY <1>1
<1>3. (B - 1) * (n - 1) = B * (n - 1) - (n - 1)
  OBVIOUS
<1>4. B * (100 + n - 1) = B * 100 + B * (n - 1)
  OBVIOUS
<1>5. B * S >= B * (100 + n - 1)
  OBVIOUS
<1> DEFINE p == B * S
           q == others * B
           r == B * share
           t == B * (n - 1)
           o == B * (100 + n - 1)
           m == (B - 1) * (n - 1)
<1>6. p \in Int /\ q \in Int /\ r \in Int /\ t \in Int /\ o \in Int /\ m \in Int
  OBVIOUS
<1>7. /\ q + r = B * 100 /\ m = t - (n - 1) /\ o = B * 100 + t /\ p >= o
      /\ p <= q + m + r
  BY <1>2, <1>3, <1>4, <1>5
<1> HIDE DEF p, q, r, t, o, m
<1>8. \A x1, x2, x3, x4, x5, x6 \in Int :
         ~ (x2 + x3 = B * 100 /\ x6 = x4 - (n - 1) /\ x5 = B * 100 + x4 /\ x1 >= x5
            /\ x1 <= x2 + x6 + x3)
  OBVIOUS
<1> QED
  BY <1>6, <1>7, <1>8

LEMMA SharesUnder ==
    ASSUME NEW B \in Int, NEW n \in Int, NEW S \in Int, NEW share \in Int, NEW others \in Int,
           B >= 1, n >= 2, share + others = 100,
           (2 * others) * B + 2 * B * share <= (2 * B) * S + B * (n - 1)
    PROVE  2 * (100 - S) <= n - 1
<1> SUFFICES ASSUME 2 * S + n - 1 <= 199
             PROVE  FALSE
  OBVIOUS
<1>1. others = 100 - share
  OBVIOUS
<1>2. (2 * others) * B = 200 * B - 2 * B * share
  BY <1>1
<1>3. (2 * B) * S + B * (n - 1) = B * (2 * S + n - 1)
  OBVIOUS
<1>4. B * (2 * S + n - 1) <= B * 199
  OBVIOUS
<1> DEFINE p == (2 * others) * B
           q == (2 * B) * S
           r == 2 * B * share
           t == B * (n - 1)
           o == B * (2 * S + n - 1)
<1>5. p \in Int /\ q \in Int /\ r \in Int /\ t \in Int /\ o \in Int
  OBVIOUS
<1>6. p = 200 * B - r /\ q + t = o /\ o <= B * 199 /\ p + r <= q + t
  BY <1>2, <1>3, <1>4
<1> HIDE DEF p, q, r, t, o
<1>7. \A x1, x2, x3, x4, x5 \in Int :
         ~ (x1 = 200 * B - x3 /\ x2 + x4 = x5 /\ x5 <= B * 199 /\ x1 + x3 <= x2 + x4)
  OBVIOUS
<1> QED
  BY <1>5, <1>6, <1>7

(* The weights u that ApplyCanaryWeights rebalances: a share for the       *)
(* canary at c, and for the others what they weigh among themselves.       *)
Shared(u, base, c, share, others) ==
    /\ base \in Seq(Nat) /\ Len(base) >= 2 /\ u \in Seq(Int) /\ Len(u) = Len(base)
    /\ c \in 1..Len(base) /\ share \in Nat \ {0} /\ others \in Nat \ {0}
    /\ base[c] = 0 /\ u[c] = share
    /\ \A i \in 1..Len(base) : i # c => base[i] >= 1
    /\ \A i \in 1..Len(base) :
          i # c => u[i] = Larger(1, Rounded(base[i], others, SumOf(base)))

(* They nearly add up to the total.                                        *)
LEMMA SharesClose ==
    ASSUME NEW u, NEW base, NEW c, NEW share, NEW others, Shared(u, base, c, share, others),
           share + others = Total
    PROVE  SumOf(u) - Total <= Len(u) - 2 /\ 2 * (Total - SumOf(u)) <= Len(u) - 1
<1> DEFINE n == Len(base)
<1>1. /\ base \in Seq(Nat) /\ n \in Nat /\ n >= 2 /\ u \in Seq(Int) /\ Len(u) = n
      /\ c \in 1..n /\ share \in Nat \ {0} /\ others \in Nat \ {0} /\ base[c] = 0 /\ u[c] = share
      /\ (\A i \in 1..n : i # c => base[i] >= 1)
      /\ \A i \in 1..n : i # c => u[i] = Larger(1, Rounded(base[i], others, SumOf(base)))
  BY LenProperties DEF Shared
<1> DEFINE B == SumOf(base)
           S == SumOf(u)
<1>2. B \in Nat \ {0}
  <2>1. B \in Nat /\ \A i \in 1..n : base[i] <= B
    BY <1>1, SumCovers
  <2> DEFINE j == IF c = 1 THEN 2 ELSE 1
  <2>2. j \in 1..n /\ j # c
    BY <1>1
  <2> HIDE DEF j
  <2>3. base[j] >= 1 /\ base[j] <= B /\ base[j] \in Nat
    BY <1>1, <2>1, <2>2, ElementOfSeq
  <2> HIDE DEF B
  <2> QED
    BY <1>1, <2>1, <2>3
<1>3. S \in Int
  <2>1. Len(u) \in 0..Len(u)
    BY <1>1
  <2> QED
    BY <1>1, <2>1, SumSteps DEF SumOf
<1>4. ASSUME NEW i \in 1..n, i # c
      PROVE  /\ u[i] \in Int /\ base[i] \in Int
             /\ B * u[i] <= others * base[i] + (B - 1)
             /\ 2 * others * base[i] <= 2 * B * u[i] + B
  <2>1. base[i] \in Nat \ {0}
    BY <1>1, <1>4, ElementOfSeq
  <2>2. u[i] = Larger(1, Rounded(base[i], others, B))
    BY <1>1, <1>4
  <2> DEFINE b == base[i]
             x == u[i]
  <2> HIDE DEF B, b, x
  <2>3. b \in Nat \ {0} /\ x = Larger(1, Rounded(b, others, B))
    BY <1>1, <2>1, <2>2 DEF b, x
  <2>4. x \in Int /\ B * x <= others * b + (B - 1) /\ 2 * others * b <= 2 * B * x + B
    BY <1>1, <1>2, <2>3, OtherShare
  <2> QED
    BY <1>1, <2>1, <2>4 DEF b, x
<1>5. base \in Seq(Int)
  BY <1>1
<1>6. S - Total <= n - 2
  <2> DEFINE d == B - 1
             e == B * share
  <2>1. /\ d \in Int /\ e \in Int /\ B \in Int /\ others \in Int
        /\ Len(u) = Len(base) /\ c \in 1..Len(base)
    BY <1>1, <1>2
  <2>2. ASSUME NEW i \in 1..n
        PROVE  Times(B, u[i]) <= Times(others, base[i]) + (IF i = c THEN e ELSE d)
    <3>1. CASE i = c
      <4>1. Times(B, u[i]) = e /\ Times(others, base[i]) = 0
        BY <1>1, <1>2, <3>1 DEF Times
      <4> HIDE DEF e
      <4> QED
        BY <1>1, <2>1, <3>1, <4>1
    <3>2. CASE i # c
      BY <1>1, <1>4, <3>2 DEF Times
    <3> QED
      BY <1>1, <3>1, <3>2
  <2>3. \A i \in 1..Len(base) : Times(B, u[i]) <= Times(others, base[i]) + (IF i = c THEN e ELSE d)
    BY <1>1, <2>2
  <2> HIDE DEF d, e
  <2>4. Times(B, SumOf(u)) <= Times(others, SumOf(base)) + Times(d, Len(base) - 1) + e
    BY <1>1, <1>5, <2>1, <2>3, SumCompared, Zenon
  <2> HIDE DEF B, S
  <2>5. B * S <= others * B + (B - 1) * (n - 1) + B * share
    BY <1>1, <2>4 DEF Times, B, S, d, e
  <2>6. B \in Int /\ n \in Int /\ share \in Int /\ others \in Int /\ B >= 1
        /\ share + others = 100
    BY <1>1, <1>2 DEF Total
  <2>7. S - 100 <= n - 2
    BY <1>1, <1>3, <2>5, <2>6, SharesOver, Zenon
  <2> QED
    BY <1>1, <2>7 DEF Total
<1>7. 2 * (Total - S) <= n - 1
  <2> DEFINE a == 2 * others
             b == 2 * B
             e == -(2 * B * share)
  <2>1. a \in Int /\ b \in Int /\ e \in Int /\ B \in Int /\ Len(base) = Len(u) /\ c \in 1..Len(u)
    BY <1>1, <1>2
  <2>2. ASSUME NEW i \in 1..n
        PROVE  Times(a, base[i]) <= Times(b, u[i]) + (IF i = c THEN e ELSE B)
    <3>1. CASE i = c
      <4>1. u[i] = share /\ base[i] = 0 /\ share \in Int
        BY <1>1, <3>1
      <4>2. Times(b, share) = -e
        BY <1>2, <4>1 DEF Times
      <4>3. Times(a, 0) = 0
        BY <2>1, TimesZero
      <4> HIDE DEF a, b, e
      <4> QED
        BY <2>1, <3>1, <4>1, <4>2, <4>3
    <3>2. CASE i # c
      BY <1>1, <1>4, <3>2 DEF Times
    <3> QED
      BY <3>1, <3>2
  <2>3. \A i \in 1..Len(u) : Times(a, base[i]) <= Times(b, u[i]) + (IF i = c THEN e ELSE B)
    BY <1>1, <2>2
  <2> HIDE DEF a, b, e
  <2>4. Times(a, SumOf(base)) <= Times(b, SumOf(u)) + Times(B, Len(u) - 1) + e
    BY <1>1, <1>5, <2>1, <2>3, SumCompared, Zenon
  <2> HIDE DEF B, S
  <2>5. (2 * others) * B <= (2 * B) * S + B * (n - 1) + -(2 * B * share)
    BY <1>1, <2>4 DEF Times, B, S, a, b, e
  <2>6. B \in Int /\ n \in Int /\ share \in Int /\ others \in Int /\ B >= 1 /\ n >= 2
        /\ share + others = 100
    BY <1>1, <1>2 DEF Total
  <2>7. 2 * (100 - S) <= n - 1
    <3>1. (2 * others) * B + 2 * B * share <= (2 * B) * S + B * (n - 1)
      <4> DEFINE p == (2 * others) * B
                 q == 2 * B * share
                 t == (2 * B) * S + B * (n - 1)
      <4>1. p \in Int /\ q \in Int /\ t \in Int /\ p <= t + -q
        BY <1>3, <2>5, <2>6
      <4> HIDE DEF p, q, t
      <4>2. p + q <= t
        BY <4>1
      <4> QED
        BY <4>2 DEF p, q, t
    <3> QED
      BY <1>3, <2>6, <3>1, SharesUnder, Zenon
  <2> QED
    BY <2>7 DEF Total
<1> QED
  BY <1>1, <1>6, <1>7

(* What ApplyCanaryWeights comes to: the weights add up, and the canary is *)
(* within one unit per other endpoint of its share.                        *)
LEMMA CanaryWeighed ==
    ASSUME NEW w \in Seq(Int), Len(w) >= 2, NEW c \in 1..Len(w), NEW percent \in Int,
           NEW r \in ApplyCanaryWeights(w, c, percent)
    PROVE  /\ Balanced(r) /\ Len(r) = Len(w)
           /\ r[c] - CanaryPercent(r, percent) \in -(Len(r) - 1)..(Len(r) - 1)
<1> DEFINE n == Len(w)
           share == CanaryPercent(w, percent)
           others == Larger(Total - Clamp(percent, 1, 99), Len(w) - 1)
           base == [i \in DOMAIN w |-> IF i = c THEN 0 ELSE Larger(w[i], 1)]
           u == [i \in DOMAIN w |-> IF i = c THEN share
                                   ELSE Larger(1, Rounded(base[i], others, SumOf(base)))]
<1>1. r \in Rebalanced(u)
  BY DEF ApplyCanaryWeights
<1>2. n \in Nat /\ n >= 2 /\ DOMAIN w = 1..n /\ \A i \in 1..n : w[i] \in Int
  BY LenProperties, ElementOfSeq
<1>3. /\ share \in Nat \ {0} /\ others \in Nat \ {0}
      /\ n <= Total => share + others = Total
      /\ n > Total => share = 1
  BY <1>2, SharesSplit
<1> HIDE DEF share, others
<1>4. /\ base \in [1..n -> Nat] /\ base[c] = 0
      /\ \A i \in 1..n : i # c => base[i] >= 1
  <2>1. \A i \in 1..n : Larger(w[i], 1) \in Nat /\ Larger(w[i], 1) >= 1
    BY <1>2 DEF Larger
  <2> QED
    BY <1>2, <2>1
<1>5. base \in Seq(Nat) /\ Len(base) = n
  <2> HIDE DEF base, n
  <2> QED
    BY <1>2, <1>4, FunctionSeq
<1>6. SumOf(base) \in Nat \ {0}
  <2> HIDE DEF base
  <2>1. SumOf(base) \in Nat /\ \A i \in 1..n : base[i] <= SumOf(base)
    BY <1>5, SumCovers
  <2> DEFINE j == IF c = 1 THEN 2 ELSE 1
  <2>2. j \in 1..n /\ j # c
    BY <1>2
  <2> HIDE DEF j
  <2>3. base[j] >= 1 /\ base[j] <= SumOf(base) /\ base[j] \in Nat
    BY <1>4, <2>1, <2>2
  <2> QED
    BY <2>1, <2>3
<1>7. /\ u \in [1..n -> Int] /\ u[c] = share /\ (\A i \in 1..n : u[i] >= 1)
      /\ \A i \in 1..n : i # c => u[i] = Larger(1, Rounded(base[i], others, SumOf(base)))
  <2> HIDE DEF base
  <2>1. ASSUME NEW i \in 1..n, i # c
        PROVE  /\ Larger(1, Rounded(base[i], others, SumOf(base))) \in Int
               /\ Larger(1, Rounded(base[i], others, SumOf(base))) >= 1
    <3>1. base[i] \in Nat
      BY <1>4
    <3>2. Rounded(base[i], others, SumOf(base)) \in Nat
      BY <1>3, <1>6, <3>1, RoundedNear
    <3> QED
      BY <3>2 DEF Larger
  <2>2. ASSUME NEW i \in 1..n
        PROVE  /\ u[i] \in Int /\ u[i] >= 1 /\ (i = c => u[i] = share)
               /\ i # c => u[i] = Larger(1, Rounded(base[i], others, SumOf(base)))
    <3>1. CASE i = c
      BY <1>2, <1>3, <3>1
    <3>2. CASE i # c
      BY <1>2, <2>1, <3>2
    <3> QED
      BY <3>1, <3>2
  <2>3. DOMAIN u = 1..n /\ u = [i \in DOMAIN u |-> u[i]]
    BY <1>2
  <2> HIDE DEF u
  <2>4. u \in [1..n -> Int]
    BY <2>2, <2>3
  <2> QED
    BY <2>2, <2>4
<1> HIDE DEF base, u
<1>8. u \in Seq(Int) /\ Len(u) = n
  <2> HIDE DEF n
  <2> QED
    BY <1>2, <1>7, FunctionSeq
<1>9. Floored(u)
  BY <1>2, <1>7, <1>8 DEF Floored
<1>10. Balanced(r) /\ Len(r) = n
  BY <1>1, <1>2, <1>8, RebalancedBalanced
<1>11. CanaryPercent(r, percent) = share
  BY <1>10 DEF CanaryPercent, share
<1>12. r[c] - share \in -(n - 1)..(n - 1)
  <2>1. CASE n <= Total
    <3>1. SumOf(u) - Total <= n - 2 /\ 2 * (Total - SumOf(u)) <= n - 1
      <4>1. share + others = Total
        BY <1>3, <2>1
      <4>2. Shared(u, base, c, share, others)
        BY <1>2, <1>3, <1>4, <1>5, <1>7, <1>8 DEF Shared
      <4>3. SumOf(u) - Total <= Len(u) - 2 /\ 2 * (Total - SumOf(u)) <= Len(u) - 1
        BY <4>1, <4>2, SharesClose
      <4> QED
        BY <1>8, <4>3
    <3>2. r[c] - u[c] \in -(Len(u) - 1)..(Len(u) - 1)
      BY <1>1, <1>2, <1>8, <1>9, <2>1, <3>1, RebalancedClose
    <3> QED
      BY <1>7, <1>8, <3>2
  <2>2. CASE n > Total
    <3>1. r[c] = 1
      BY <1>10, <2>2, BalancedOnes
    <3>2. share = 1
      BY <1>3, <2>2
    <3> HIDE DEF n
    <3> QED
      BY <1>2, <3>1, <3>2
  <2> QED
    BY <1>2, <2>1, <2>2 DEF Total
<1> QED
  BY <1>10, <1>11, <1>12

LEMMA ScoredBalanced ==
    ASSUME NEW w \in Seq(Int), Len(w) >= 1, NEW multiplier,
           \A i \in 1..Len(w) : multiplier[i] \in Int, NEW r \in Scored(w, multiplier)
    PROVE  Balanced(r) /\ Len(r) = Len(w)
<1> DEFINE n == Len(w)
           at(i) == Larger(1, Rounded(Larger(w[i], 100), Clamp(multiplier[i], 1, 500), 100))
           u == [i \in DOMAIN w |-> at(i)]
<1>1. n \in Nat /\ n >= 1 /\ DOMAIN w = 1..n /\ \A i \in 1..n : w[i] \in Int
  BY LenProperties, ElementOfSeq
<1>2. ASSUME NEW i \in 1..n
      PROVE  at(i) \in Int
  <2>1. Larger(w[i], 100) \in Nat
    BY <1>1 DEF Larger
  <2>2. Clamp(multiplier[i], 1, 500) \in Nat
    BY DEF Clamp
  <2>3. Rounded(Larger(w[i], 100), Clamp(multiplier[i], 1, 500), 100) \in Nat
    <3> DEFINE a == Larger(w[i], 100)
               b == Clamp(multiplier[i], 1, 500)
    <3>1. a \in Nat /\ b \in Nat /\ 100 \in Nat \ {0}
      BY <2>1, <2>2
    <3> HIDE DEF a, b
    <3>2. Rounded(a, b, 100) \in Nat
      BY <3>1, RoundedNear, Zenon
    <3> QED
      BY <3>2 DEF a, b
  <2> QED
    BY <2>3 DEF Larger
<1>3. u \in [1..n -> Int]
  <2> HIDE DEF at
  <2> QED
    BY <1>1, <1>2
<1>4. r \in Rebalanced(u)
  BY DEF Scored
<1> HIDE DEF u
<1>5. u \in Seq(Int) /\ Len(u) = n
  <2> HIDE DEF n
  <2> QED
    BY <1>1, <1>3, FunctionSeq
<1> QED
  BY <1>1, <1>4, <1>5, RebalancedBalanced

(* What GenerateRouterRoutingConfig comes to, for settings as they can be. *)
LEMMA GeneratedBalanced ==
    ASSUME NEW n \in Nat \ {0}, NEW scoring, scoring = <<>> \/ scoring \in [1..n -> Int],
           NEW canary, canary = <<>> \/ canary \in (1..n) \X Int,
           NEW w \in Generated(n, scoring, canary)
    PROVE  /\ w \in Seq(Int) /\ Len(w) = n
           /\ scoring # <<>> \/ (canary # <<>> /\ n >= 2) => Balanced(w)
<1> DEFINE equal == [i \in 1..n |-> 100]
           scored == IF scoring = <<>> THEN {equal} ELSE Scored(equal, scoring)
<1>1. equal \in Seq(Int) /\ Len(equal) = n
  <2>1. equal \in [1..n -> Int]
    OBVIOUS
  <2> HIDE DEF equal
  <2> QED
    BY <2>1, FunctionSeq
<1>2. IF canary = <<>> \/ n < 2 THEN w \in scored
      ELSE \E v \in scored : w \in ApplyCanaryWeights(v, canary[1], canary[2])
  BY DEF Generated
<1> HIDE DEF equal
<1>3. ASSUME NEW v \in scored
      PROVE  v \in Seq(Int) /\ Len(v) = n /\ (scoring # <<>> => Balanced(v))
  <2>1. CASE scoring = <<>>
    BY <1>1, <2>1
  <2>2. CASE scoring # <<>>
    <3>1. v \in Scored(equal, scoring) /\ \A i \in 1..n : scoring[i] \in Int
      BY <2>2
    <3>2. Balanced(v) /\ Len(v) = n
      BY <1>1, <3>1, ScoredBalanced
    <3> QED
      BY <3>2 DEF Balanced, Floored
  <2> QED
    BY <2>1, <2>2
<1> HIDE DEF scored
<1>4. CASE canary = <<>> \/ n < 2
  BY <1>2, <1>3, <1>4
<1>5. CASE ~(canary = <<>> \/ n < 2)
  <2>1. PICK v \in scored : w \in ApplyCanaryWeights(v, canary[1], canary[2])
    BY <1>2, <1>5
  <2>2. canary[1] \in 1..n /\ canary[2] \in Int /\ n >= 2
    BY <1>5
  <2>3. v \in Seq(Int) /\ Len(v) = n
    BY <1>3
  <2>4. Balanced(w) /\ Len(w) = n
    BY <2>1, <2>2, <2>3, CanaryWeighed
  <2> QED
    BY <2>4 DEF Balanced, Floored
<1> QED
  BY <1>4, <1>5

-----------------------------------------------------------------------------
(* What a command set out to sync was computed by the rules above.         *)
Weighed(c) ==
    /\ Steered(c) => Balanced(cmd[c].routing)
    /\ Busy(c, {"shift"}) =>
          LET w == cmd[c].routing
              shift == cmd[c].order.shift
          IN  w[shift[1]] - CanaryPercent(w, shift[2]) \in -(Len(w) - 1)..(Len(w) - 1)

WeighedInv == setting \in Settings /\ \A c \in Slots : Weighed(c)

LEMMA WeighedInit == Init => WeighedInv
  BY DEF Init, WeighedInv, Weighed, Steered, Busy

LEMMA StartWeighs ==
    ASSUME Shape, setting \in Settings, NEW c \in Slots, NEW order \in Orders, Start(c, order)
    PROVE  Weighed(c)'
<1> DEFINE n == setting.endpoints
           generated == Generated(n, setting.scoring, setting.canary)
<1>1. PICK w \in Desired(order) :
         cmd' = [cmd EXCEPT ![c] = [order |-> order, id |-> runs + 1, routing |-> w]]
  BY DEF Start
<1>2. cmd'[c].order = order /\ cmd'[c].routing = w /\ setting' = setting
  BY <1>1 DEF Start, Shape
<1>3. /\ n \in Nat \ {0}
      /\ setting.scoring = <<>> \/ setting.scoring \in [1..n -> Int]
      /\ setting.canary = <<>> \/ setting.canary \in (1..n) \X Int
      /\ setting.shifts \subseteq (Nat \ {0}) \X Int
  BY SettingsAssumption
<1>4. ASSUME NEW v \in generated
      PROVE  /\ v \in Seq(Int) /\ Len(v) = n
             /\ setting.scoring # <<>> \/ (setting.canary # <<>> /\ n >= 2) => Balanced(v)
  BY <1>3, GeneratedBalanced
<1>5. CASE order.kind = "shift"
  <2>1. w \in UNION {ApplyCanaryWeights(v, order.shift[1], order.shift[2]) : v \in generated}
    BY <1>1, <1>5 DEF Desired
  <2>2. PICK v \in generated : w \in ApplyCanaryWeights(v, order.shift[1], order.shift[2])
    BY <2>1
  <2>3. order.shift \in setting.shifts
    BY <1>5 DEF Orders
  <2>4. n >= 2 /\ order.shift[1] \in 1..n /\ order.shift[2] \in Int
    BY <1>3, <1>5, <2>3 DEF Start, MayStart
  <2>5. v \in Seq(Int) /\ Len(v) = n
    BY <1>4
  <2> HIDE DEF n, generated
  <2>6. /\ Balanced(w)
        /\ w[order.shift[1]] - CanaryPercent(w, order.shift[2]) \in -(Len(w) - 1)..(Len(w) - 1)
    BY <2>2, <2>4, <2>5, CanaryWeighed
  <2> QED
    BY <1>2, <2>6 DEF Weighed
<1>6. CASE order.kind = "sync"
  <2>1. w \in generated
    BY <1>1, <1>6 DEF Desired
  <2>2. Steered(c)' => setting.scoring # <<>> \/ (setting.canary # <<>> /\ n >= 2)
    BY <1>2, <1>6 DEF Steered, Busy
  <2>3. ~Busy(c, {"shift"})'
    BY <1>2, <1>6 DEF Busy
  <2> QED
    BY <1>2, <1>4, <2>1, <2>2, <2>3 DEF Weighed
<1>7. CASE order.kind \notin {"shift", "sync"}
  BY <1>2, <1>7 DEF Weighed, Steered, Busy
<1> QED
  BY <1>5, <1>6, <1>7

LEMMA WeighedStep == Shape /\ WeighedInv /\ [Next]_vars => WeighedInv'
<1> SUFFICES ASSUME Shape, WeighedInv, [Next]_vars PROVE WeighedInv'
  OBVIOUS
<1>1. CASE UNCHANGED vars
  BY <1>1 DEF vars, commands, WeighedInv, Weighed, Steered, Busy
<1>2. CASE Next
  <2>1. PICK c \in Slots :
           \/ \E order \in Orders : Start(c, order)
           \/ Preview(c) \/ SyncRouter(c) \/ SyncFails(c)
           \/ LoadRouterSyncHistory(c) \/ SaveRouterSyncHistory(c) \/ AppendFails(c)
    BY <1>2 DEF Next
  <2>2. Others(c)
    BY <2>1, OthersEffect
  <2>3. setting' = setting
    BY <2>1 DEF Start, Preview, SyncRouter, SyncFails, LoadRouterSyncHistory,
                SaveRouterSyncHistory, AppendFails
  <2>4. ASSUME NEW d \in Slots, pc'[d] = "idle" \/ (pc[d] # "idle" /\ cmd'[d] = cmd[d])
        PROVE  Weighed(d)'
    BY <2>3, <2>4 DEF WeighedInv, Weighed, Steered, Busy
  <2>5. ASSUME NEW d \in Slots \ {c}
        PROVE  Weighed(d)'
    BY <2>2, <2>4 DEF Others
  <2>6. Weighed(c)'
    <3>1. ASSUME NEW order \in Orders, Start(c, order) PROVE Weighed(c)'
      BY <3>1, StartWeighs DEF WeighedInv
    <3>2. CASE Preview(c)
      BY <2>4, <3>2, EndsEffect DEF Preview
    <3>3. CASE SyncRouter(c) \/ LoadRouterSyncHistory(c)
      BY <2>4, <3>3 DEF SyncRouter, LoadRouterSyncHistory
    <3>4. CASE SyncFails(c) \/ SaveRouterSyncHistory(c) \/ AppendFails(c)
      BY <2>4, <3>4, EndsEffect DEF SyncFails, SaveRouterSyncHistory, AppendFails
    <3> QED
      BY <2>1, <3>1, <3>2, <3>3, <3>4
  <2> QED
    BY <2>3, <2>5, <2>6 DEF WeighedInv
<1> QED
  BY <1>1, <1>2

LEMMA WeighedHolds == Spec => []WeighedInv
  BY WeighedInit, WeighedStep, ShapeHolds, PTL DEF Spec

(* For any number of endpoints, any multipliers and percentages and        *)
(* whichever way a half is rounded, the weights that scoring and canary    *)
(* shifts hand to the router plugin add up to 100 with nobody at zero, or  *)
(* are one each if there are more endpoints than that                      *)
(* (rebalanceEndpointWeights).                                             *)
THEOREM SteeredWeightsAddUp == Spec => []WeightsTotal
<1>1. WeighedInv => WeightsTotal
  <2> SUFFICES ASSUME WeighedInv, NEW c \in Slots, Steered(c)
               PROVE  /\ \A i \in DOMAIN cmd[c].routing : cmd[c].routing[i] >= 1
                      /\ SumOf(cmd[c].routing) = Larger(Total, Len(cmd[c].routing))
    BY DEF WeightsTotal
  <2>1. Balanced(cmd[c].routing)
    BY DEF WeighedInv, Weighed
  <2>2. DOMAIN cmd[c].routing = 1..Len(cmd[c].routing)
    BY <2>1, LenProperties DEF Balanced, Floored
  <2> QED
    BY <2>1, <2>2 DEF Balanced, Floored
<1> QED
  BY <1>1, WeighedHolds, PTL

(* Under the same conditions a shifted canary ends up within one unit per  *)
(* other endpoint of the share it asks for and can have, although the      *)
(* rebalancing scales and corrects its weight along with theirs            *)
(* (ApplyCanaryWeights).                                                   *)
THEOREM CanaryGetsItsShare == Spec => []CanaryShare
<1>1. WeighedInv => CanaryShare
  BY DEF WeighedInv, Weighed, CanaryShare
<1> QED
  BY <1>1, WeighedHolds, PTL
=============================================================================
