-------------------------- MODULE StatusPage_proof --------------------------
(***************************************************************************)
(* Proofs about the page's list of detected remotes.                       *)
(***************************************************************************)
EXTENDS StatusPage, Induction

(* kept[k] is what filter() keeps of the first k items.                    *)
Filtered(kept, s, p) ==
    /\ Without(s, p) = kept[Len(s)]
    /\ kept[0] = <<>>
    /\ \A k \in 1 .. Len(s) :
         kept[k] = IF s[k] = p THEN kept[k - 1] ELSE Append(kept[k - 1], s[k])

LEMMA WithoutSteps ==
    ASSUME NEW S, NEW s \in Seq(S), NEW p
    PROVE  \E kept \in [0 .. Len(s) -> Seq(S)] : Filtered(kept, s, p)
<1> DEFINE Kept(f, k) == IF k = 0 THEN <<>>
                         ELSE IF s[k] = p THEN f[k - 1] ELSE Append(f[k - 1], s[k])
           step == [x \in (1 .. Len(s)) \X Seq(S) |->
                      IF s[x[1]] = p THEN x[2] ELSE Append(x[2], s[x[1]])]
<1>1. step \in [(1 .. Len(s)) \X Seq(S) -> Seq(S)] /\ <<>> \in Seq(S) /\ Len(s) \in Nat
    OBVIOUS
<1>2. \A k \in 1 .. Len(s), q \in Seq(S) :
         step[<<k, q>>] = IF s[k] = p THEN q ELSE Append(q, s[k])
    OBVIOUS
<1> HIDE DEF step
<1>3. PICK f : Stepwise(f, Len(s), <<>>, step)
    BY <1>1, StepByStep, Zenon
<1>4. f \in [0 .. Len(s) -> Seq(S)]
    BY <1>1, <1>3, StepByStepType, Zenon
<1>5. f = [k \in 0 .. Len(s) |-> Kept(f, k)]
  <2>1. ASSUME NEW k \in 0 .. Len(s) PROVE f[k] = Kept(f, k)
    <3>1. CASE k = 0
        BY <1>3, <3>1 DEF Stepwise
    <3>2. CASE k # 0
      <4>1. k \in 1 .. Len(s) /\ k - 1 \in 0 .. Len(s)
          BY <1>1, <3>2
      <4>2. f[k] = step[<<k, f[k - 1]>>] /\ f[k - 1] \in Seq(S)
          BY <1>3, <1>4, <4>1 DEF Stepwise
      <4> QED
          BY <1>2, <3>2, <4>1, <4>2
    <3> QED
        BY <3>1, <3>2
  <2> HIDE DEF Kept
  <2> QED
      BY <1>4, <2>1
<1> DEFINE kept == CHOOSE g : g = [k \in 0 .. Len(s) |-> Kept(g, k)]
<1>6. kept = [k \in 0 .. Len(s) |-> Kept(kept, k)]
  <2> HIDE DEF Kept
  <2> QED
      BY <1>5
<1>7. Without(s, p) = kept[Len(s)]
    BY DEF Without
<1> HIDE DEF kept
<1>8. \A k \in 0 .. Len(s) : kept[k] = Kept(kept, k)
  <2> HIDE DEF Kept
  <2> QED
      BY <1>6
<1>9. kept[0] = <<>>
  <2>1. 0 \in 0 .. Len(s)
      BY <1>1
  <2> QED
      BY <1>8, <2>1
<1>10. ASSUME NEW k \in 1 .. Len(s)
       PROVE  kept[k] = IF s[k] = p THEN kept[k - 1] ELSE Append(kept[k - 1], s[k])
  <2>1. k \in 0 .. Len(s) /\ k # 0
      BY <1>1
  <2> QED
      BY <1>8, <2>1
<1>11. kept = [k \in 0 .. Len(s) |-> kept[k]]
    BY <1>6
<1>12. kept \in [0 .. Len(s) -> Seq(S)]
  <2> DEFINE T == {n \in 0 .. Len(s) : kept[n] \in Seq(S)}
  <2>1. 0 \in T
    <3>1. 0 \in 0 .. Len(s)
        BY <1>1
    <3> QED
        BY <1>1, <1>9, <3>1
  <2>2. ASSUME NEW n \in 0 .. Len(s) - 1, n \in T PROVE n + 1 \in T
    <3>1. n + 1 \in 1 .. Len(s) /\ n + 1 \in 0 .. Len(s) /\ (n + 1) - 1 = n
        BY <1>1
    <3>2. kept[n + 1] = IF s[n + 1] = p THEN kept[n] ELSE Append(kept[n], s[n + 1])
        BY <1>10, <3>1
    <3>3. s[n + 1] \in S /\ kept[n] \in Seq(S)
        BY <2>2, <3>1
    <3>4. kept[n + 1] \in Seq(S)
        BY <3>2, <3>3
    <3> QED
        BY <3>1, <3>4
  <2>3. 0 .. Len(s) \subseteq T
    <3> HIDE DEF T
    <3> QED
        BY <1>1, <2>1, <2>2, UpTo
  <2> QED
      BY <1>11, <2>3
<1> QED
    BY <1>7, <1>9, <1>10, <1>12 DEF Filtered

(* The list that filter() leaves: no longer, without p, of the same items, *)
(* and none of them twice if there was none.                               *)
LEMMA WithoutKeeps ==
    ASSUME NEW S, NEW s \in Seq(S), NEW p
    PROVE  /\ Without(s, p) \in Seq(S)
           /\ Len(Without(s, p)) <= Len(s)
           /\ p \notin ToSet(Without(s, p))
           /\ ToSet(Without(s, p)) \subseteq ToSet(s)
           /\ IsInjective(s) => IsInjective(Without(s, p))
<1>1. PICK kept \in [0 .. Len(s) -> Seq(S)] : Filtered(kept, s, p)
    BY WithoutSteps, Zenon
<1> DEFINE Items(q, k) == \A i \in 1 .. Len(q) : \E j \in 1 .. k : q[i] = s[j] /\ s[j] # p
           Once(q) == \A i, j \in 1 .. Len(q) : q[i] = q[j] => i = j
           Good(k) == /\ kept[k] \in Seq(S)
                      /\ Len(kept[k]) <= k
                      /\ Items(kept[k], k)
                      /\ IsInjective(s) => Once(kept[k])
           T == {k \in 0 .. Len(s) : Good(k)}
<1>2. Len(s) \in Nat /\ s \in [1 .. Len(s) -> S]
    OBVIOUS
<1>3. 0 \in T
  <2>1. 0 \in 0 .. Len(s)
      BY <1>2
  <2> QED
      BY <1>1, <2>1 DEF Filtered
<1>4. ASSUME NEW n \in 0 .. Len(s) - 1, n \in T
      PROVE  n + 1 \in T
  <2>1. n + 1 \in 0 .. Len(s) /\ n + 1 \in 1 .. Len(s) /\ (n + 1) - 1 = n /\ n \in Nat
      BY <1>2
  <2>2. kept[n + 1] = IF s[n + 1] = p THEN kept[n] ELSE Append(kept[n], s[n + 1])
      BY <1>1, <2>1 DEF Filtered
  <2> DEFINE q == kept[n]
  <2>3. q \in Seq(S) /\ Len(q) \in Nat /\ Len(q) <= n /\ Items(q, n)
      BY <1>4
  <2>4. IsInjective(s) => Once(q)
      BY <1>4
  <2> HIDE DEF q
  <2>5. CASE s[n + 1] = p
    <3>1. kept[n + 1] = q
        BY <2>2, <2>5 DEF q
    <3>2. Items(q, n + 1)
        BY <2>1, <2>3
    <3> QED
        BY <2>1, <2>3, <2>4, <3>1, <3>2
  <2>6. CASE s[n + 1] # p
    <3> DEFINE r == Append(q, s[n + 1])
    <3>1. kept[n + 1] = r
        BY <2>2, <2>6 DEF q
    <3>2. /\ r \in Seq(S) /\ Len(r) = Len(q) + 1
          /\ \A i \in 1 .. Len(q) : r[i] = q[i]
          /\ r[Len(q) + 1] = s[n + 1]
        BY <1>2, <2>1, <2>3
    <3> HIDE DEF r
    <3>3. Items(r, n + 1)
      <4>1. ASSUME NEW i \in 1 .. Len(q) PROVE \E j \in 1 .. n + 1 : r[i] = s[j] /\ s[j] # p
        <5>1. PICK j \in 1 .. n : q[i] = s[j] /\ s[j] # p
            BY <2>3
        <5>2. j \in 1 .. n + 1 /\ r[i] = s[j]
            BY <2>1, <3>2, <5>1
        <5> QED
            BY <5>1, <5>2
      <4>2. n + 1 \in 1 .. n + 1 /\ r[Len(q) + 1] = s[n + 1] /\ s[n + 1] # p
          BY <2>1, <2>6, <3>2
      <4>3. \A i \in 1 .. Len(r) : i \in 1 .. Len(q) \/ i = Len(q) + 1
          BY <2>3, <3>2
      <4> QED
          BY <4>1, <4>2, <4>3
    <3>4. ASSUME IsInjective(s) PROVE Once(r)
      <4>1. \A i \in 1 .. Len(q) : r[i] # s[n + 1]
        <5> SUFFICES ASSUME NEW i \in 1 .. Len(q) PROVE q[i] # s[n + 1]
            BY <3>2
        <5>1. PICK j \in 1 .. n : q[i] = s[j]
            BY <2>3
        <5>2. j \in DOMAIN s /\ n + 1 \in DOMAIN s /\ j # n + 1
            BY <1>2, <2>1
        <5> QED
            BY <3>4, <5>1, <5>2 DEF IsInjective
      <4>2. Once(q)
          BY <2>4, <3>4
      <4>3. SUFFICES ASSUME NEW i \in 1 .. Len(r), NEW j \in 1 .. Len(r), r[i] = r[j]
                     PROVE  i = j
          OBVIOUS
      <4>4. CASE i \in 1 .. Len(q) /\ j \in 1 .. Len(q)
          BY <3>2, <4>2, <4>3, <4>4
      <4>5. CASE i = Len(q) + 1 \/ j = Len(q) + 1
          BY <2>3, <3>2, <4>1, <4>3, <4>5
      <4> QED
          BY <2>3, <3>2, <4>4, <4>5
    <3>5. Len(r) <= n + 1
        BY <2>1, <2>3, <3>2
    <3>6. Good(n + 1)
      <4> HIDE DEF Items, Once
      <4> QED
        BY <3>1, <3>2, <3>3, <3>4, <3>5
    <3> QED
        BY <2>1, <3>6
  <2> QED
      BY <2>5, <2>6
<1>5. Len(s) \in T
  <2> HIDE DEF T
  <2>1. 0 .. Len(s) \subseteq T
      BY <1>2, <1>3, <1>4, UpTo
  <2> QED
      BY <1>2, <2>1
<1> DEFINE q == Without(s, p)
<1>6. /\ q \in Seq(S) /\ Len(q) <= Len(s) /\ Items(q, Len(s))
      /\ IsInjective(s) => Once(q)
    BY <1>1, <1>5 DEF Filtered
<1> HIDE DEF q
<1>7. DOMAIN q = 1 .. Len(q) /\ DOMAIN s = 1 .. Len(s)
    BY <1>2, <1>6
<1>8. p \notin ToSet(q) /\ ToSet(q) \subseteq ToSet(s)
    BY <1>6, <1>7 DEF ToSet
<1>9. IsInjective(s) => IsInjective(q)
    BY <1>6, <1>7 DEF IsInjective
<1> QED
    BY <1>6, <1>8, <1>9 DEF q

(* slice() and splice().                                                   *)
LEMMA TakeKeeps ==
    ASSUME NEW S, NEW s \in Seq(S), NEW n \in Nat
    PROVE  /\ Take(s, n) \in Seq(S)
           /\ Len(Take(s, n)) = IF Len(s) < n THEN Len(s) ELSE n
           /\ \A i \in 1 .. Len(Take(s, n)) : Take(s, n)[i] = s[i]
BY DEF Take

LEMMA TakeAll ==
    ASSUME NEW S, NEW s \in Seq(S), NEW n \in Nat, Len(s) <= n
    PROVE  Take(s, n) = s
<1>1. Len(s) \in Nat /\ Take(s, n) = SubSeq(s, 1, Len(s))
    BY DEF Take
<1> QED
    BY <1>1

LEMMA RemoveAtKeeps ==
    ASSUME NEW S, NEW s \in Seq(S), NEW k \in DOMAIN s
    PROVE  /\ RemoveAt(s, k) \in Seq(S)
           /\ Len(RemoveAt(s, k)) = Len(s) - 1
           /\ \A i \in 1 .. Len(s) - 1 :
                RemoveAt(s, k)[i] = IF i < k THEN s[i] ELSE s[i + 1]
<1> DEFINE front == SubSeq(s, 1, k - 1)
           back == SubSeq(s, k + 1, Len(s))
<1>1. k \in 1 .. Len(s) /\ Len(s) \in Nat
    OBVIOUS
<1>2. /\ front \in Seq(S) /\ Len(front) = k - 1
      /\ \A i \in 1 .. k - 1 : front[i] = s[i]
    BY <1>1
<1>3. /\ back \in Seq(S) /\ Len(back) = Len(s) - k
      /\ \A i \in 1 .. Len(s) - k : back[i] = s[i + k]
    BY <1>1
<1>4. RemoveAt(s, k) = front \o back
    BY DEF RemoveAt
<1> HIDE DEF front, back
<1>5. front \o back \in Seq(S) /\ Len(front \o back) = Len(s) - 1
    BY <1>1, <1>2, <1>3
<1>6. ASSUME NEW i \in 1 .. Len(s) - 1
      PROVE  (front \o back)[i] = IF i < k THEN s[i] ELSE s[i + 1]
  <2>1. CASE i < k
      BY <1>1, <1>2, <1>3, <2>1
  <2>2. CASE ~(i < k)
    <3>1. (front \o back)[i] = back[i - Len(front)]
        BY <1>1, <1>2, <1>3, <2>2
    <3>2. i - Len(front) \in 1 .. Len(s) - k /\ (i - Len(front)) + k = i + 1
        BY <1>1, <1>2, <2>2
    <3> QED
        BY <1>3, <2>2, <3>1, <3>2
  <2> QED
      BY <2>1, <2>2
<1> QED
    BY <1>4, <1>5, <1>6

(* The list that remember() makes of the detected remotes.                 *)
LEMMA RememberKeeps ==
    ASSUME NEW S, NEW s \in Seq(S), NEW p \in S
    PROVE  LET items == Take(<<p>> \o Without(s, p), MaxDetected) IN
           /\ items \in Seq(S) /\ Len(items) <= MaxDetected
           /\ ToSet(items) \subseteq ToSet(s) \cup {p}
           /\ IsInjective(s) => IsInjective(items)
<1> DEFINE rest == Without(s, p)
           all == <<p>> \o rest
           items == Take(all, MaxDetected)
<1>1. /\ rest \in Seq(S) /\ Len(rest) \in Nat
      /\ p \notin ToSet(rest) /\ ToSet(rest) \subseteq ToSet(s)
      /\ IsInjective(s) => IsInjective(rest)
    BY WithoutKeeps
<1> HIDE DEF rest
<1>2. /\ all \in Seq(S) /\ Len(all) = Len(rest) + 1
      /\ all[1] = p
      /\ \A i \in 2 .. Len(all) : all[i] = rest[i - 1]
    BY <1>1
<1> HIDE DEF all
<1>3. /\ items \in Seq(S) /\ Len(items) \in Nat
      /\ Len(items) <= MaxDetected /\ Len(items) <= Len(all)
      /\ \A i \in 1 .. Len(items) : items[i] = all[i]
    BY <1>2, TakeKeeps, MaxAssumption
<1> HIDE DEF items
<1>4. DOMAIN rest = 1 .. Len(rest) /\ DOMAIN items = 1 .. Len(items)
    BY <1>1, <1>3
<1>5. \A i \in 2 .. Len(items) : items[i] = rest[i - 1] /\ i - 1 \in DOMAIN rest
    BY <1>1, <1>2, <1>3, <1>4
<1>6. Len(items) # 0 => items[1] = p
    BY <1>2, <1>3
<1>7. ToSet(items) \subseteq ToSet(s) \cup {p}
  <2>1. \A i \in 2 .. Len(items) : items[i] \in ToSet(rest)
      BY <1>5 DEF ToSet
  <2>2. \A i \in 1 .. Len(items) : items[i] = p \/ items[i] \in ToSet(rest)
      BY <1>3, <1>6, <2>1
  <2> QED
      BY <1>1, <1>4, <2>2 DEF ToSet
<1>8. ASSUME IsInjective(s) PROVE IsInjective(items)
  <2>1. \A i \in 2 .. Len(items) : items[i] # p
      BY <1>1, <1>5 DEF ToSet
  <2>2. \A i, j \in 2 .. Len(items) : items[i] = items[j] => i = j
    <3> SUFFICES ASSUME NEW i \in 2 .. Len(items), NEW j \in 2 .. Len(items),
                        items[i] = items[j]
                 PROVE  i = j
        OBVIOUS
    <3>1. i - 1 = j - 1
        BY <1>1, <1>5, <1>8 DEF IsInjective
    <3> QED
        BY <3>1
  <2>3. \A i \in 1 .. Len(items) : i = 1 \/ i \in 2 .. Len(items)
      BY <1>3
  <2> QED
      BY <1>4, <1>6, <2>1, <2>2, <2>3, <1>3 DEF IsInjective
<1> QED
    BY <1>3, <1>7, <1>8 DEF items, all, rest

-----------------------------------------------------------------------------
LEMMA SeqOfMore ==
    ASSUME NEW S, NEW T, S \subseteq T, NEW s \in Seq(S)
    PROVE  s \in Seq(T)
<1>1. s \in [1 .. Len(s) -> T] /\ Len(s) \in Nat
    OBVIOUS
<1> QED
    BY <1>1

LEMMA EventFields ==
    /\ \A e \in Events :
         /\ e.protocol \in Protocols \cup {NoProtocol}
         /\ e.hasAc => e.protocol \in Protocols
         /\ e.degrees \in Temps \cup {NoDegrees}
         /\ e.fan \in Fans
    /\ \A p \in Protocols : Generated(p) \in Events
<1>1. ASSUME NEW p \in Protocols PROVE Generated(p) \in Events
  <2>1. Generated(p) \in WithoutAc
      BY DEF Generated, WithoutAc
  <2> QED
      BY <2>1 DEF Events
<1> USE FansAssumption, AcProtocolsAssumption DEF Event
<1>2. ASSUME NEW e \in Events
      PROVE  /\ e.protocol \in Protocols \cup {NoProtocol}
             /\ e.hasAc => e.protocol \in Protocols
             /\ e.degrees \in Temps \cup {NoDegrees}
             /\ e.fan \in Fans
  <2>1. CASE \E p \in AcProtocols, d \in Temps, f \in Fans : e = Event(p, TRUE, d, f)
      BY <2>1
  <2>2. CASE \E p \in AcProtocols : e = Event(p, TRUE, NoDegrees, "Auto")
      BY <2>2
  <2>3. CASE \E p \in Protocols \cup {NoProtocol} : e = Event(p, FALSE, NoDegrees, "Auto")
      BY <2>3
  <2> QED
      BY <1>2, <2>1, <2>2, <2>3 DEF Events, WithAc, WithoutAc
<1> QED
    BY <1>1, <1>2

(* What the page shows, in terms of what it has been answered.             *)
LEMMA ResponseFields ==
    ASSUME TypeOK, NEW n \in 0 .. Len(log)
    PROVE  /\ Response(n).protocol \in Protocols \cup {NoProtocol}
           /\ Response(n).hasAc => Response(n).protocol \in Protocols
           /\ Response(n).degrees \in Temps \cup {NoDegrees}
           /\ Response(n).fan \in Fans
           /\ n = 0 => Response(n).protocol = NoProtocol
<1>1. CASE n = 0
    BY <1>1, FansAssumption DEF Response, NoResponse, Event
<1>2. CASE n # 0
  <2>1. Response(n) = log[n] /\ log[n] \in Events
      BY <1>2 DEF Response, TypeOK
  <2> QED
      BY <1>2, <2>1, EventFields
<1> QED
    BY <1>1, <1>2

Inv == TypeOK /\ DetectedInOrder

(* remember(): the list stays in order, it is saved, and what is new in it *)
(* is the protocol that is remembered.                                     *)
LEMMA RememberStep ==
    ASSUME Inv, NEW p \in Protocols \cup {NoProtocol}, Remember(p)
    PROVE  /\ detected' \in Seq(Protocols) /\ stored' = detected'
           /\ IsInjective(detected') /\ Len(detected') <= MaxDetected
           /\ ToSet(detected') \ ToSet(detected) \subseteq {p} \ {NoProtocol}
<1> USE DEF Inv
<1>1. CASE p = NoProtocol
    BY <1>1 DEF Remember, TypeOK, DetectedInOrder
<1>2. CASE p \in Protocols
  <2> DEFINE items == Take(<<p>> \o Without(detected, p), MaxDetected)
  <2>1. p # NoProtocol
      BY <1>2, NoProtocolAssumption
  <2>2. detected' = items /\ stored' = Take(items, MaxSaved)
      BY <2>1 DEF Remember
  <2>3. /\ items \in Seq(Protocols) /\ Len(items) <= MaxDetected
        /\ ToSet(items) \subseteq ToSet(detected) \cup {p}
        /\ IsInjective(items)
      BY <1>2, RememberKeeps DEF TypeOK, DetectedInOrder
  <2> HIDE DEF items
  <2>4. Take(items, MaxSaved) = items
    <3>1. Len(items) \in Nat /\ Len(items) <= MaxSaved
        BY <2>3, MaxAssumption
    <3> QED
        BY <2>3, <3>1, TakeAll, MaxAssumption
  <2> QED
      BY <2>1, <2>2, <2>3, <2>4
<1> QED
    BY <1>1, <1>2

(* splice() keeps the order, and adds nothing.                             *)
LEMMA RemoveStep ==
    ASSUME NEW S, NEW s \in Seq(S), NEW k \in DOMAIN s
    PROVE  /\ ToSet(RemoveAt(s, k)) \subseteq ToSet(s)
           /\ IsInjective(s) => IsInjective(RemoveAt(s, k))
<1> DEFINE r == RemoveAt(s, k)
<1>1. k \in 1 .. Len(s) /\ Len(s) \in Nat /\ DOMAIN s = 1 .. Len(s)
    OBVIOUS
<1>2. /\ r \in Seq(S) /\ Len(r) = Len(s) - 1
      /\ \A i \in 1 .. Len(s) - 1 : r[i] = IF i < k THEN s[i] ELSE s[i + 1]
    BY RemoveAtKeeps
<1> HIDE DEF r
<1>3. DOMAIN r = 1 .. Len(s) - 1
    BY <1>2
<1>4. ToSet(r) \subseteq ToSet(s)
    BY <1>1, <1>2, <1>3 DEF ToSet
<1>5. ASSUME IsInjective(s) PROVE IsInjective(r)
    BY <1>1, <1>2, <1>3, <1>5, SMTT(20) DEF IsInjective
<1> QED
    BY <1>4, <1>5 DEF r

-----------------------------------------------------------------------------
LEMMA InvInit == Init => Inv
<1> SUFFICES ASSUME Init PROVE Inv
    OBVIOUS
<1>1. Asked \in 0 .. Len(log) \cup {Asked} /\ Len(ticks) = 1 /\ Len(log) = 0
    BY DEF Init
<1>4. /\ stored \in Seq(Protocols) /\ Len(stored) <= MaxDetected
      /\ detected = stored /\ IsInjective(stored)
  <2>1. PICK n \in 0 .. MaxDetected : stored \in [1 .. n -> Protocols]
      BY DEF Init, Lists
  <2>2. stored \in Seq(Protocols) /\ Len(stored) = n /\ n <= MaxDetected
      BY <2>1, MaxAssumption
  <2> QED
      BY <2>2 DEF Init, Lists
<1>2. TypeOK
    BY <1>1, <1>4, MaxAssumption, FansAssumption DEF Init, TypeOK, Temps
<1>3. DetectedInOrder
    BY <1>4 DEF Init, DetectedInOrder
<1> QED
    BY <1>2, <1>3 DEF Inv

LEMMA InvStep == Inv /\ [Next]_vars => Inv'
<1> SUFFICES ASSUME Inv, [Next]_vars PROVE Inv'
    OBVIOUS
<1> USE DEF Inv
<1>1. Len(log) \in Nat /\ Asked \in Nat /\ Len(ticks) \in Nat
    BY MaxAssumption DEF TypeOK, Asked
<1>2. ASSUME NEW event \in Events, Len(log) < MaxEvents,
             log' = Append(log, event)
      PROVE  /\ log' \in Seq(Events)
             /\ Len(log') = Len(log) + 1 /\ Len(log') <= MaxEvents
             /\ ticks \in Seq(0 .. Len(log') \cup {Asked})
             /\ shown \in 0 .. Len(log')
  <2>1. log' \in Seq(Events) /\ Len(log') = Len(log) + 1
      BY <1>2 DEF TypeOK
  <2>2. Len(log') <= MaxEvents /\ shown \in 0 .. Len(log')
      BY <1>1, <1>2, <2>1, MaxAssumption DEF TypeOK
  <2>3. 0 .. Len(log) \cup {Asked} \subseteq 0 .. Len(log') \cup {Asked}
      BY <1>1, <2>1
  <2>4. ticks \in Seq(0 .. Len(log') \cup {Asked})
      BY <2>3, SeqOfMore, Zenon DEF TypeOK
  <2> QED
      BY <2>1, <2>2, <2>4
<1>3. ASSUME NEW event \in Events, Record(event)
      PROVE  Inv'
    BY <1>2, <1>3 DEF Record, page, TypeOK, DetectedInOrder, Temps, NoDegrees
<1>4. ASSUME NEW body \in posts, Serve(body)
      PROVE  Inv'
  <2>1. Generated(body.protocol) \in Events
      BY EventFields DEF TypeOK
  <2> QED
      BY <1>2, <1>4, <2>1 DEF Serve, page, TypeOK, DetectedInOrder, Temps, NoDegrees
<1>5. CASE Tick
    BY <1>1, <1>5, MaxAssumption DEF Tick, page, TypeOK, DetectedInOrder
<1>6. ASSUME NEW t \in DOMAIN ticks, Answer(t) \/ AnswerError(t)
      PROVE  Inv'
    BY <1>1, <1>6 DEF Answer, AnswerError, page, TypeOK, DetectedInOrder
<1>7. ASSUME NEW t \in DOMAIN ticks
      PROVE  /\ RemoveAt(ticks, t) \in Seq(0 .. Len(log) \cup {Asked})
             /\ Len(RemoveAt(ticks, t)) <= MaxTicks
  <2>1. /\ RemoveAt(ticks, t) \in Seq(0 .. Len(log) \cup {Asked})
        /\ Len(RemoveAt(ticks, t)) = Len(ticks) - 1
      BY RemoveAtKeeps DEF TypeOK
  <2> QED
      BY <1>1, <2>1, MaxAssumption DEF TypeOK
<1>8. ASSUME NEW t \in DOMAIN ticks, Arrive(t)
      PROVE  Inv'
  <2>1. ticks[t] \in 0 .. Len(log)
      BY <1>8 DEF Arrive, TypeOK
  <2>2. /\ Response(ticks[t]).protocol \in Protocols \cup {NoProtocol}
        /\ Response(ticks[t]).degrees \in Temps \cup {NoDegrees}
        /\ Response(ticks[t]).fan \in Fans
      BY <2>1, ResponseFields
  <2>3. degrees' \in Temps \cup {NoDegrees} /\ fan' \in Fans
      BY <1>8, <2>2, FansAssumption DEF Arrive, RenderLatest, UpdateControls
  <2>4. /\ detected' \in Seq(Protocols) /\ stored' = detected'
        /\ IsInjective(detected') /\ Len(detected') <= MaxDetected
      BY <1>8, <2>2, RememberStep DEF Arrive, RenderLatest
  <2>5. ticks' = RemoveAt(ticks, t) /\ shown' = ticks[t] /\ UNCHANGED <<log, posts, reloads>>
      BY <1>8 DEF Arrive, RenderLatest
  <2>6. TypeOK'
      BY <1>7, <2>1, <2>3, <2>4, <2>5 DEF TypeOK
  <2>7. DetectedInOrder'
      BY <2>4 DEF DetectedInOrder
  <2> QED
      BY <2>6, <2>7
<1>9. ASSUME NEW t \in DOMAIN ticks, Lost(t)
      PROVE  Inv'
    BY <1>7, <1>9 DEF Lost, page, TypeOK, DetectedInOrder
<1>10. CASE GenerateCurrent
  <2>1. /\ Response(shown).protocol \in Protocols
        /\ Response(shown).degrees \in Temps \cup {NoDegrees}
      BY <1>10, ResponseFields DEF GenerateCurrent, TypeOK
  <2>2. Default \in Temps
      BY MaxAssumption DEF Default, Temps
  <2>3. posts' \subseteq [protocol : Protocols, degrees : Temps, fan : Fans,
                          displayed : Temps \cup {NoDegrees}]
      BY <1>10, <2>1, <2>2 DEF GenerateCurrent, TypeOK
  <2> QED
      BY <1>10, <2>3 DEF GenerateCurrent, page, TypeOK, DetectedInOrder
<1>11. CASE TempMinus \/ TempPlus
  <2>1. degrees' \in Temps
      BY <1>11, MaxAssumption DEF TempMinus, TempPlus, Temps
  <2> QED
      BY <1>11, <2>1 DEF TempMinus, TempPlus, TypeOK, DetectedInOrder
<1>12. ASSUME NEW f \in Fans, SelectFan(f)
       PROVE  Inv'
    BY <1>12 DEF SelectFan, TypeOK, DetectedInOrder
<1>13. ASSUME NEW k \in DOMAIN detected, RemoveItem(k)
       PROVE  Inv'
  <2> DEFINE r == RemoveAt(detected, k)
  <2>1. /\ r \in Seq(Protocols) /\ Len(r) = Len(detected) - 1 /\ IsInjective(r)
      BY RemoveAtKeeps, RemoveStep DEF TypeOK, DetectedInOrder
  <2>2. detected' = r /\ stored' = Take(r, MaxSaved)
        /\ UNCHANGED <<log, ticks, posts, shown, degrees, fan, reloads>>
      BY <1>13 DEF RemoveItem
  <2> HIDE DEF r
  <2>3. Len(r) \in Nat /\ Len(r) <= MaxDetected /\ Len(r) <= MaxSaved
      BY <2>1, MaxAssumption DEF TypeOK, DetectedInOrder
  <2>4. Take(r, MaxSaved) = r
      BY <2>1, <2>3, TakeAll, MaxAssumption
  <2> QED
      BY <2>1, <2>2, <2>3, <2>4 DEF TypeOK, DetectedInOrder
<1>14. CASE Reload
  <2>1. ticks' = <<Asked>> /\ Len(ticks') = 1
      BY <1>14 DEF Reload
  <2>2. ticks' \in Seq(0 .. Len(log) \cup {Asked}) /\ Len(ticks') <= MaxTicks
      BY <2>1, MaxAssumption
  <2>3. reloads' \in 0 .. MaxReloads
      BY <1>14, MaxAssumption DEF Reload, TypeOK
  <2> QED
      BY <1>1, <1>14, <2>2, <2>3, FansAssumption DEF Reload, TypeOK, DetectedInOrder
<1>15. CASE UNCHANGED vars
    BY <1>15 DEF vars, TypeOK, DetectedInOrder
<1> QED
    BY <1>3, <1>4, <1>5, <1>6, <1>8, <1>9, <1>10, <1>11, <1>12, <1>13, <1>14, <1>15 DEF Next

(* Every variable of the page and its server has its type; an answer under *)
(* way is an event of the log.                                             *)
THEOREM TypeCorrect == Spec => []TypeOK
<1>1. Inv => TypeOK
    BY DEF Inv
<1> QED
    BY InvInit, InvStep, <1>1, PTL DEF Spec

(* The detected remotes are never more than the page keeps, no protocol is *)
(* among them twice, and localStorage has the same list.                   *)
THEOREM DetectedStaysInOrder == Spec => []DetectedInOrder
<1>1. Inv => DetectedInOrder
    BY DEF Inv
<1> QED
    BY InvInit, InvStep, <1>1, PTL DEF Spec

(* What comes into the list is the protocol of the response then shown.    *)
LEMMA DetectedStep ==
    ASSUME Inv, [Next]_vars
    PROVE  \A p \in ToSet(detected') \ ToSet(detected) :
             shown' # 0 /\ Response(shown').protocol = p
<1> USE DEF Inv
<1>1. ASSUME NEW t \in DOMAIN ticks, Arrive(t), NEW p \in ToSet(detected') \ ToSet(detected)
      PROVE  shown' # 0 /\ Response(shown').protocol = p
  <2>1. ticks[t] \in 0 .. Len(log) /\ shown' = ticks[t] /\ log' = log
      BY <1>1 DEF Arrive, RenderLatest, TypeOK
  <2>2. /\ Response(ticks[t]).protocol \in Protocols \cup {NoProtocol}
        /\ ticks[t] = 0 => Response(ticks[t]).protocol = NoProtocol
      BY <2>1, ResponseFields
  <2>3. p \in {Response(ticks[t]).protocol} \ {NoProtocol}
      BY <1>1, <2>2, RememberStep DEF Arrive, RenderLatest
  <2> QED
      BY <2>1, <2>2, <2>3
<1>2. ASSUME NEW k \in DOMAIN detected, RemoveItem(k)
      PROVE  ToSet(detected') \subseteq ToSet(detected)
    BY <1>2, RemoveStep DEF RemoveItem, TypeOK
<1>3. CASE Reload
    BY <1>3 DEF Reload, DetectedInOrder
<1>4. CASE UNCHANGED detected
    BY <1>4
<1>5. \/ \E t \in DOMAIN ticks : Arrive(t)
      \/ \E k \in DOMAIN detected : RemoveItem(k)
      \/ Reload
      \/ UNCHANGED detected
    BY DEF Next, vars, page, Record, Serve, Tick, Answer, AnswerError, Lost, GenerateCurrent,
           TempMinus, TempPlus, SelectFan
<1> QED
    BY <1>1, <1>2, <1>3, <1>4, <1>5

(* A protocol that was removed comes back with an answer that shows it     *)
(* alone: not by a reload, nor by what other polls or the user do.         *)
THEOREM RemovedComesBackOnlyShown == Spec => RemovedStaysRemoved
<1>1. Inv /\ [Next]_vars =>
        [\A p \in ToSet(detected') \ ToSet(detected) :
           shown' # 0 /\ Response(shown').protocol = p]_vars
    BY DetectedStep
<1> QED
    BY InvInit, InvStep, <1>1, PTL DEF Spec, RemovedStaysRemoved
=============================================================================
