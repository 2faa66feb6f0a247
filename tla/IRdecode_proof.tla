--------------------------- MODULE IRdecode_proof ---------------------------
(***************************************************************************)
(* What IRdecode says of one call of decode(), for all receptions and any  *)
(* max_skip: its types; that a message goes to the first decoder that does *)
(* not refuse it; that a message which one of its own decoders recognises  *)
(* is not missed, and is not taken by a decoder that the comments in       *)
(* decode() put behind its own; and that the noise filter takes a flash    *)
(* out of a space and nothing else.                                        *)
(***************************************************************************)
EXTENDS IRdecode, Induction, SequenceTheorems, FiniteSetTheorems

-----------------------------------------------------------------------------
(* Where in Decoders the decoders of the messages are that the comments    *)
(* put first, and where those are that they put behind them.               *)
EarlyPlace ==
    [AiwaRCT501 |-> 1, SanyoLC7461 |-> 2, CarrierAC |-> 3,
     Pioneer |-> 4, Epson |-> 5, Milestag2Msg |-> 7,
     Milestag2Shot |-> 8, FujitsuAC120 |-> 16, FujitsuAC48 |-> 16,
     FujitsuAC128 |-> 16, FujitsuAC56 |-> 16, Denon48 |-> 17,
     LG32 |-> 23, GICable |-> 24, Bosch144 |-> 31, Kelvinator |-> 34,
     HitachiAc424 |-> 49, Mitsubishi136 |-> 50, HitachiAc344 |-> 56,
     HitachiAc264 |-> 57, HitachiAc296 |-> 58, HitachiAC2 |-> 59,
     SamsungAC168 |-> 63, Truma |-> 98, Toto48 |-> 129]
LatePlace ==
    [SanyoLC7461 |-> 2, NEC |-> 6, Sony |-> 9, Denon48 |-> 17,
     Panasonic |-> 20, Panasonic40 |-> 21, JVC |-> 25, SAMSUNG |-> 26,
     COOLIX |-> 32, NEC_LIKE |-> 43, Gree |-> 45,
     HitachiAc3_136 |-> 54, HitachiAC |-> 60, SamsungAC112 |-> 64,
     Multibrackets |-> 99, Toto24 |-> 130]

(* The name and the messages of a call of a decoder.                       *)
LEMMA Tried ==
    /\ \A n, d : Try(n, d).name = n /\ Try(n, d).reads = {n}
    /\ \A ns, n, d : TryFor(ns, n, d).name = n /\ TryFor(ns, n, d).reads = ns
BY DEF Try, TryFor

(* Those of the first part of Decoders are where EarlyPlace and LatePlace  *)
(* say; so with the two other parts.                                       *)
LEMMA FirstPlaces ==
    ASSUME NEW i \in 1 .. 33
    PROVE  /\ \A a \in FirstDecoders[i].reads :
                a \in DOMAIN EarlyPlace => i = EarlyPlace[a]
           /\ FirstDecoders[i].name \in DOMAIN LatePlace =>
                i = LatePlace[FirstDecoders[i].name]
<1>1. CASE i = 1 \/ i = 2 \/ i = 3 \/ i = 4 \/ i = 5 \/ i = 6
    BY <1>1, Tried DEF FirstDecoders, EarlyPlace, LatePlace
<1>2. CASE i = 7 \/ i = 8 \/ i = 9 \/ i = 10 \/ i = 11 \/ i = 12
    BY <1>2, Tried DEF FirstDecoders, EarlyPlace, LatePlace
<1>3. CASE i = 13 \/ i = 14 \/ i = 15 \/ i = 16 \/ i = 17 \/ i = 18
    BY <1>3, Tried DEF FirstDecoders, EarlyPlace, LatePlace
<1>4. CASE i = 19 \/ i = 20 \/ i = 21 \/ i = 22 \/ i = 23 \/ i = 24
    BY <1>4, Tried DEF FirstDecoders, EarlyPlace, LatePlace
<1>5. CASE i = 25 \/ i = 26 \/ i = 27 \/ i = 28 \/ i = 29 \/ i = 30
    BY <1>5, Tried DEF FirstDecoders, EarlyPlace, LatePlace
<1>6. CASE i = 31 \/ i = 32 \/ i = 33
    BY <1>6, Tried DEF FirstDecoders, EarlyPlace, LatePlace
<1> QED
    BY <1>1, <1>2, <1>3, <1>4, <1>5, <1>6

(* See FirstPlaces: 33 decoders are in front of the middle part.           *)
LEMMA MiddlePlaces ==
    ASSUME NEW i \in 1 .. 48
    PROVE  /\ \A a \in MiddleDecoders[i].reads :
                a \in DOMAIN EarlyPlace => i + 33 = EarlyPlace[a]
           /\ MiddleDecoders[i].name \in DOMAIN LatePlace =>
                i + 33 = LatePlace[MiddleDecoders[i].name]
<1>1. CASE i = 1 \/ i = 2 \/ i = 3 \/ i = 4 \/ i = 5 \/ i = 6
    BY <1>1, Tried DEF MiddleDecoders, EarlyPlace, LatePlace
<1>2. CASE i = 7 \/ i = 8 \/ i = 9 \/ i = 10 \/ i = 11 \/ i = 12
    BY <1>2, Tried DEF MiddleDecoders, EarlyPlace, LatePlace
<1>3. CASE i = 13 \/ i = 14 \/ i = 15 \/ i = 16 \/ i = 17 \/ i = 18
    BY <1>3, Tried DEF MiddleDecoders, EarlyPlace, LatePlace
<1>4. CASE i = 19 \/ i = 20 \/ i = 21 \/ i = 22 \/ i = 23 \/ i = 24
    BY <1>4, Tried DEF MiddleDecoders, EarlyPlace, LatePlace
<1>5. CASE i = 25 \/ i = 26 \/ i = 27 \/ i = 28 \/ i = 29 \/ i = 30
    BY <1>5, Tried DEF MiddleDecoders, EarlyPlace, LatePlace
<1>6. CASE i = 31 \/ i = 32 \/ i = 33 \/ i = 34 \/ i = 35 \/ i = 36
    BY <1>6, Tried DEF MiddleDecoders, EarlyPlace, LatePlace
<1>7. CASE i = 37 \/ i = 38 \/ i = 39 \/ i = 40 \/ i = 41 \/ i = 42
    BY <1>7, Tried DEF MiddleDecoders, EarlyPlace, LatePlace
<1>8. CASE i = 43 \/ i = 44 \/ i = 45 \/ i = 46 \/ i = 47 \/ i = 48
    BY <1>8, Tried DEF MiddleDecoders, EarlyPlace, LatePlace
<1> QED
    BY <1>1, <1>2, <1>3, <1>4, <1>5, <1>6, <1>7, <1>8

(* See FirstPlaces: 81 decoders are in front of the last part.             *)
LEMMA LastPlaces ==
    ASSUME NEW i \in 1 .. 59
    PROVE  /\ \A a \in LastDecoders[i].reads :
                a \in DOMAIN EarlyPlace => i + 81 = EarlyPlace[a]
           /\ LastDecoders[i].name \in DOMAIN LatePlace =>
                i + 81 = LatePlace[LastDecoders[i].name]
<1>1. CASE i = 1 \/ i = 2 \/ i = 3 \/ i = 4 \/ i = 5 \/ i = 6
    BY <1>1, Tried DEF LastDecoders, EarlyPlace, LatePlace
<1>2. CASE i = 7 \/ i = 8 \/ i = 9 \/ i = 10 \/ i = 11 \/ i = 12
    BY <1>2, Tried DEF LastDecoders, EarlyPlace, LatePlace
<1>3. CASE i = 13 \/ i = 14 \/ i = 15 \/ i = 16 \/ i = 17 \/ i = 18
    BY <1>3, Tried DEF LastDecoders, EarlyPlace, LatePlace
<1>4. CASE i = 19 \/ i = 20 \/ i = 21 \/ i = 22 \/ i = 23 \/ i = 24
    BY <1>4, Tried DEF LastDecoders, EarlyPlace, LatePlace
<1>5. CASE i = 25 \/ i = 26 \/ i = 27 \/ i = 28 \/ i = 29 \/ i = 30
    BY <1>5, Tried DEF LastDecoders, EarlyPlace, LatePlace
<1>6. CASE i = 31 \/ i = 32 \/ i = 33 \/ i = 34 \/ i = 35 \/ i = 36
    BY <1>6, Tried DEF LastDecoders, EarlyPlace, LatePlace
<1>7. CASE i = 37 \/ i = 38 \/ i = 39 \/ i = 40 \/ i = 41 \/ i = 42
    BY <1>7, Tried DEF LastDecoders, EarlyPlace, LatePlace
<1>8. CASE i = 43 \/ i = 44 \/ i = 45 \/ i = 46 \/ i = 47 \/ i = 48
    BY <1>8, Tried DEF LastDecoders, EarlyPlace, LatePlace
<1>9. CASE i = 49 \/ i = 50 \/ i = 51 \/ i = 52 \/ i = 53 \/ i = 54
    BY <1>9, Tried DEF LastDecoders, EarlyPlace, LatePlace
<1>10. CASE i = 55 \/ i = 56 \/ i = 57 \/ i = 58 \/ i = 59
    BY <1>10, Tried DEF LastDecoders, EarlyPlace, LatePlace
<1> QED
    BY <1>1, <1>2, <1>3, <1>4, <1>5, <1>6, <1>7, <1>8, <1>9, <1>10

(* Decoders is its three parts, one behind the other.                      *)
LEMMA DecodersMade ==
    /\ Len(Decoders) = 140 /\ DOMAIN Decoders = 1 .. 140
    /\ \A i \in 1 .. 33 : Decoders[i] = FirstDecoders[i]
    /\ \A i \in 1 .. 48 : Decoders[i + 33] = MiddleDecoders[i]
    /\ \A i \in 1 .. 59 : Decoders[i + 81] = LastDecoders[i]
<1> DEFINE All == {FirstDecoders[i] : i \in 1 .. 33}
                    \cup {MiddleDecoders[i] : i \in 1 .. 48}
                    \cup {LastDecoders[i] : i \in 1 .. 59}
<1>1. FirstDecoders = [i \in 1 .. 33 |-> FirstDecoders[i]]
    BY DEF FirstDecoders
<1>2. MiddleDecoders = [i \in 1 .. 48 |-> MiddleDecoders[i]]
    BY DEF MiddleDecoders
<1>3. LastDecoders = [i \in 1 .. 59 |-> LastDecoders[i]]
    BY DEF LastDecoders
<1>4. FirstDecoders \in Seq(All) /\ Len(FirstDecoders) = 33
    BY <1>1
<1>5. MiddleDecoders \in Seq(All) /\ Len(MiddleDecoders) = 48
    BY <1>2
<1>6. LastDecoders \in Seq(All) /\ Len(LastDecoders) = 59
    BY <1>3
<1> HIDE DEF All
<1> DEFINE s == FirstDecoders \o MiddleDecoders
<1>7. s \in Seq(All) /\ Len(s) = Len(FirstDecoders) + Len(MiddleDecoders)
    BY <1>4, <1>5, ConcatProperties
<1>8. \A i \in 1 .. Len(FirstDecoders) + Len(MiddleDecoders) :
          s[i] = IF i <= Len(FirstDecoders) THEN FirstDecoders[i]
                 ELSE MiddleDecoders[i - Len(FirstDecoders)]
    BY <1>4, <1>5, ConcatProperties
<1>9. Decoders = s \o LastDecoders
    BY DEF Decoders
<1> HIDE DEF s
<1>type. s \in Seq(All) /\ LastDecoders \in Seq(All)
    BY <1>6, <1>7
<1>10. Len(s \o LastDecoders) = Len(s) + Len(LastDecoders)
    BY <1>type, ConcatProperties
<1>11. \A i \in 1 .. Len(s) + Len(LastDecoders) :
           (s \o LastDecoders)[i] = IF i <= Len(s) THEN s[i] ELSE LastDecoders[i - Len(s)]
    BY <1>type, ConcatProperties
<1>12. s \o LastDecoders \in Seq(All)
    BY <1>type, ConcatProperties
<1> QED
  <2>1. Len(Decoders) = 140 /\ Len(s) = 81
      BY <1>4, <1>5, <1>6, <1>7, <1>9, <1>10
  <2>2. Decoders \in Seq(All)
      BY <1>9, <1>12
  <2>3. \A i \in 1 .. 140 : Decoders[i] = IF i <= 81 THEN s[i] ELSE LastDecoders[i - 81]
    <3> TAKE i \in 1 .. 140
    <3>1. i \in 1 .. Len(s) + Len(LastDecoders)
        BY <2>1, <1>6
    <3>2. Decoders[i] = IF i <= Len(s) THEN s[i] ELSE LastDecoders[i - Len(s)]
        BY <3>1, <1>9, <1>11
    <3> QED
        BY <2>1, <3>2
  <2>4. \A i \in 1 .. 81 : s[i] = IF i <= 33 THEN FirstDecoders[i] ELSE MiddleDecoders[i - 33]
    <3> TAKE i \in 1 .. 81
    <3>1. i \in 1 .. Len(FirstDecoders) + Len(MiddleDecoders)
        BY <1>4, <1>5
    <3>2. s[i] = IF i <= Len(FirstDecoders) THEN FirstDecoders[i]
                 ELSE MiddleDecoders[i - Len(FirstDecoders)]
        BY <3>1, <1>8
    <3> QED
        BY <1>4, <3>2
  <2>5. DOMAIN Decoders = 1 .. 140
      BY <2>1, <2>2
  <2> QED
      BY <2>1, <2>3, <2>4, <2>5

(* The decoders of the messages that the comments put first, and those     *)
(* that they put behind them, are where EarlyPlace and LatePlace say.      *)
LEMMA Places ==
    ASSUME NEW i \in DOMAIN Decoders
    PROVE  /\ \A a \in Decoders[i].reads : a \in DOMAIN EarlyPlace => i = EarlyPlace[a]
           /\ Decoders[i].name \in DOMAIN LatePlace => i = LatePlace[Decoders[i].name]
<1>1. CASE i \in 1 .. 33
    BY <1>1, FirstPlaces, DecodersMade
<1>2. CASE i \in 34 .. 81
  <2>1. i - 33 \in 1 .. 48 /\ (i - 33) + 33 = i
      BY <1>2
  <2>2. Decoders[i] = MiddleDecoders[i - 33]
      BY <2>1, DecodersMade
  <2> QED
      BY <2>1, <2>2, MiddlePlaces
<1>3. CASE i \in 82 .. 140
  <2>1. i - 81 \in 1 .. 59 /\ (i - 81) + 81 = i
      BY <1>3
  <2>2. Decoders[i] = LastDecoders[i - 81]
      BY <2>1, DecodersMade
  <2> QED
      BY <2>1, <2>2, LastPlaces
<1> QED
    BY <1>1, <1>2, <1>3, DecodersMade

(* What the comments in decode() tell is so: any decoder meant for the one *)
(* message is in front of the other decoder (IRrecv.cpp:643-1230).         *)
LEMMA TriedBefore ==
    ASSUME NEW i \in DOMAIN Decoders, NEW j \in DOMAIN Decoders,
           NEW a \in Decoders[i].reads, <<a, Decoders[j].name>> \in ToldBefore
    PROVE  i < j
<1>1. \A told \in ToldBefore :
          /\ told[1] \in DOMAIN EarlyPlace /\ told[2] \in DOMAIN LatePlace
          /\ EarlyPlace[told[1]] < LatePlace[told[2]]
    BY DEF ToldBefore, EarlyPlace, LatePlace
<1>2. a \in DOMAIN EarlyPlace /\ Decoders[j].name \in DOMAIN LatePlace
    BY <1>1
<1>3. EarlyPlace[a] < LatePlace[Decoders[j].name]
    BY <1>1
<1> QED
    BY <1>2, <1>3, Places

-----------------------------------------------------------------------------
(* The least of some natural numbers is one of them.                       *)
LEMMA LeastOf ==
    ASSUME NEW T, T \subseteq Nat, T # {}
    PROVE  Min(T) \in T /\ \A n \in T : Min(T) <= n
<1>1. \E n \in T : \A m \in T : n <= m
    BY LeastElement
<1> QED
    BY <1>1 DEF Min

(* TryNext goes on with the first decoder whose timing the capture has.    *)
LEMMA NextTry ==
    ASSUME TypeOK, NEW i \in {Min(Matching \cup {Hash})}
    PROVE  /\ i \in Matching \cup {Hash}
           /\ i # Hash => i \in tried + 1 .. Len(Decoders)
           /\ \A j \in tried + 1 .. Len(Decoders) : j < i => j \notin Matching
<1>1. Len(Decoders) = 140 /\ Hash = 141 /\ tried \in 0 .. 140
    BY DecodersMade DEF TypeOK, Hash
<1>2. Matching \subseteq tried + 1 .. Len(Decoders)
    BY DEF Matching
<1>3. Matching \cup {Hash} \subseteq Nat /\ Matching \cup {Hash} # {}
    BY <1>1, <1>2
<1>4. i \in Matching \cup {Hash} /\ \A j \in Matching \cup {Hash} : i <= j
  <2> HIDE DEF Matching
  <2> QED
      BY <1>3, LeastOf
<1> QED
    BY <1>1, <1>2, <1>4

(* The types at the start.                                                 *)
LEMMA TypesInit == Init => TypeOK
<1>1. Len(Decoders) = 140
    BY DecodersMade
<1>2. 0 \in {2 * k : k \in 0 .. max_skip}
    BY ReceptionsAssumption
<1> QED
    BY <1>1, <1>2 DEF Init, TypeOK

(* The types after a step.                                                 *)
LEMMA TypesStep == TypeOK /\ [Next]_vars => TypeOK'
<1> SUFFICES ASSUME TypeOK, [Next]_vars PROVE TypeOK'
    OBVIOUS
<1>1. Len(Decoders) = 140 /\ Hash = 141
    BY DecodersMade DEF Hash
<1>2. CASE TryNext
  <2>1. PICK i \in {Min(Matching \cup {Hash})} :
            \/ i # Hash /\ tried' = i /\ taken' = i
            \/ i # Hash /\ tried' = i /\ taken' = 0
            \/ i = Hash /\ tried' = Len(Decoders) /\ taken' = 0
      BY <1>2 DEF TryNext
  <2>2. i # Hash => i \in tried + 1 .. Len(Decoders)
      BY NextTry
  <2>3. tried' \in 0 .. Len(Decoders) /\ taken' \in {0, tried'}
      BY <1>1, <2>1, <2>2 DEF TypeOK
  <2> QED
      BY <1>1, <1>2, <2>3 DEF TryNext, TypeOK, Hash
<1>3. CASE SkipPair
  <2>1. PICK k \in 0 .. max_skip : skipped = 2 * k
      BY DEF TypeOK
  <2>2. k + 1 \in 0 .. max_skip /\ skipped' = 2 * (k + 1)
      BY <1>3, <2>1, ReceptionsAssumption DEF SkipPair
  <2> QED
      BY <1>1, <1>3, <2>2 DEF SkipPair, TypeOK, Hash
<1>4. CASE decodeHash
    BY <1>4 DEF decodeHash, TypeOK, Hash
<1>5. CASE UNCHANGED vars
    BY <1>5 DEF vars, TypeOK, Hash
<1> QED
    BY <1>2, <1>3, <1>4, <1>5 DEF Next

(* Types: no decoder is tried that is not there, none but the last one     *)
(* tried or decodeHash() takes the message, and decode() never passes over *)
(* more pairs than max_skip (IRrecv.cpp:644), whatever the receptions.     *)
THEOREM DecodeTypes == Spec => []TypeOK
    BY TypesInit, TypesStep, PTL DEF Spec

-----------------------------------------------------------------------------
(* What a decoder makes of a capture depends on the capture alone.         *)
LEMMA SameRefusals ==
    ASSUME UNCHANGED <<sent, reception, rawbuf>>, NEW i, NEW skip
    PROVE  Refuses(i, skip)' <=> Refuses(i, skip)
    BY DEF Refuses

(* FirstToTake at the start.                                               *)
LEMMA FirstInit == Init => FirstToTake
<1> SUFFICES ASSUME Init PROVE FirstToTake
    OBVIOUS
<1>1. skipped = 0 /\ tried = 0 /\ taken = 0
    BY DEF Init
<1>2. 0 \notin DOMAIN Decoders
    BY DecodersMade
<1> QED
    BY <1>1, <1>2 DEF FirstToTake

(* FirstToTake after a step.                                               *)
LEMMA FirstStep == TypeOK /\ FirstToTake /\ [Next]_vars => FirstToTake'
<1> SUFFICES ASSUME TypeOK, FirstToTake, [Next]_vars PROVE FirstToTake'
    OBVIOUS
<1>1. Len(Decoders) = 140 /\ Hash = 141 /\ DOMAIN Decoders = 1 .. 140 /\ tried \in 0 .. 140
    BY DecodersMade DEF Hash, TypeOK
<1> USE SameRefusals
<1>2. CASE TryNext
  <2>1. PICK i \in {Min(Matching \cup {Hash})} :
            \/ i # Hash /\ tried' = i /\ taken' = i
            \/ /\ i # Hash
               /\ Decoders[i].decode.checked /\ sent.name \notin Decoders[i].reads
               /\ tried' = i /\ taken' = 0
            \/ i = Hash /\ tried' = Len(Decoders) /\ taken' = 0
      BY <1>2 DEF TryNext
  <2>2. /\ i \in Matching \cup {Hash}
        /\ i # Hash => i \in tried + 1 .. Len(Decoders)
        /\ \A j \in tried + 1 .. Len(Decoders) : j < i => j \notin Matching
      BY NextTry
  <2>3. UNCHANGED <<sent, reception, rawbuf, skipped>> /\ taken = 0
      BY <1>2 DEF TryNext
  <2>4. ASSUME NEW j \in 1 .. tried', j # taken'
        PROVE  Refuses(j, skipped)
    <3>1. CASE j <= tried
        BY <1>1, <2>3, <3>1 DEF FirstToTake
    <3>2. CASE j > tried /\ j < i
      <4>1. j \in tried + 1 .. Len(Decoders)
          BY <1>1, <2>1, <2>2, <3>2
      <4> QED
          BY <2>2, <3>2, <4>1 DEF Matching, Refuses
    <3>3. CASE j = i
        BY <1>1, <2>1, <2>4, <3>3 DEF Refuses
    <3> QED
        BY <1>1, <2>1, <2>2, <3>1, <3>2, <3>3
  <2>5. taken' \in DOMAIN Decoders =>
            Takes(Decoders[taken'].decode, rawbuf, skipped, reception)
    <3>1. ASSUME taken' \in DOMAIN Decoders PROVE taken' = i /\ i \in Matching
        BY <1>1, <2>1, <2>2, <3>1
    <3> QED
        BY <3>1 DEF Matching
  <2> QED
      BY <2>3, <2>4, <2>5 DEF FirstToTake
<1>3. CASE SkipPair
  <2>1. PICK s \in 0 .. max_skip : skipped = 2 * s
      BY DEF TypeOK
  <2>2. /\ UNCHANGED <<sent, reception, rawbuf>>
        /\ skipped' = skipped + 2 /\ tried' = 0 /\ taken = 0 /\ taken' = 0
        /\ tried = Len(Decoders)
      BY <1>3 DEF SkipPair
  <2>3. ASSUME NEW k \in 0 .. max_skip, NEW i \in DOMAIN Decoders, 2 * k < skipped'
        PROVE  Refuses(i, 2 * k)
    <3>1. CASE k < s
        BY <2>1, <3>1, ReceptionsAssumption DEF FirstToTake
    <3>2. CASE k = s
      <4>1. i \in 1 .. tried /\ i # taken
          BY <1>1, <2>2
      <4> QED
          BY <2>1, <3>2, <4>1 DEF FirstToTake
    <3> QED
        BY <2>1, <2>2, <2>3, <3>1, <3>2, ReceptionsAssumption
  <2> QED
      BY <1>1, <2>2, <2>3 DEF FirstToTake
<1>4. CASE decodeHash
  <2>1. /\ UNCHANGED <<sent, reception, rawbuf, skipped, tried>>
        /\ taken = 0 /\ taken' = 141
      BY <1>1, <1>4 DEF decodeHash
  <2>2. \A i \in 1 .. tried : Refuses(i, skipped)
      BY <1>1, <2>1 DEF FirstToTake
  <2>3. \A k \in 0 .. max_skip, i \in DOMAIN Decoders :
            2 * k < skipped => Refuses(i, 2 * k)
      BY DEF FirstToTake
  <2> QED
      BY <1>1, <2>1, <2>2, <2>3 DEF FirstToTake
<1>5. CASE UNCHANGED vars
    BY <1>5 DEF vars, FirstToTake
<1> QED
    BY <1>2, <1>3, <1>4, <1>5 DEF Next

(* The chain of ifs in decode() is one: when a decoder takes the message,  *)
(* every decoder in front of it has refused it there, and all of them have *)
(* refused it at every pair passed over before.                            *)
THEOREM TakenByTheFirst == Spec => []FirstToTake
    BY TypesInit, TypesStep, FirstInit, FirstStep, PTL DEF Spec

-----------------------------------------------------------------------------
(* Noise in front of the message is some pairs of intervals.               *)
LEMMA NoiseInPairs ==
    ASSUME TypeOK
    PROVE  Noise \in Nat /\ \E k \in Nat : Noise = 2 * k
<1>1. reception.noise \in Seq(Nat) /\ Len(reception.noise) % 2 = 0
    BY ReceptionsAssumption DEF TypeOK
<1>2. Noise \in Nat /\ Noise % 2 = 0
  <2>1. Len(reception.noise) \in Nat
      BY <1>1
  <2> QED
      BY <1>1, <2>1 DEF Noise
<1>3. Noise = 2 * (Noise \div 2) /\ Noise \div 2 \in Nat
    BY <1>2
<1> QED
    BY <1>2, <1>3

(* A decoder does not refuse a message of its own timing.                  *)
LEMMA OwnDoesNotRefuse ==
    ASSUME NEW i \in Own, NEW skip,
           Takes(Decoders[i].decode, rawbuf, skip, reception)
    PROVE  ~Refuses(i, skip)
    BY DEF Own, Refuses

(* A message that one of its own decoders recognises is not missed.        *)
LEMMA NotPassedOver ==
    TypeOK /\ FirstToTake /\ Recognised => NeverMissed
<1> SUFFICES ASSUME TypeOK, FirstToTake, Recognised,
                    taken = 0, skipped >= Noise, \A i \in Own : i <= tried, Readable
             PROVE  FALSE
    BY DEF NeverMissed
<1>1. PICK i \in Own : Takes(Decoders[i].decode, rawbuf, Noise, reception)
    BY DEF Recognised
<1>2. ~Refuses(i, Noise)
    BY <1>1, OwnDoesNotRefuse
<1>3. DOMAIN Decoders = 1 .. 140 /\ i \in DOMAIN Decoders
    BY DecodersMade DEF Own
<1>4. CASE skipped = Noise
  <2>1. i \in 1 .. tried
      BY <1>3, DecodersMade DEF TypeOK
  <2> QED
      BY <1>2, <1>3, <1>4, <2>1 DEF FirstToTake
<1>5. CASE skipped # Noise
  <2>1. PICK k \in Nat : Noise = 2 * k
      BY NoiseInPairs
  <2>2. PICK s \in 0 .. max_skip : skipped = 2 * s
      BY DEF TypeOK
  <2>3. k \in 0 .. max_skip /\ 2 * k < skipped
      BY <1>5, <2>1, <2>2, ReceptionsAssumption
  <2> QED
      BY <1>2, <1>3, <2>1, <2>3 DEF FirstToTake
<1> QED
    BY <1>4, <1>5

(* The capture stays as it is.                                             *)
LEMMA SameCapture ==
    ASSUME UNCHANGED <<sent, reception, rawbuf>>
    PROVE  Recognised' <=> Recognised
    BY DEF Recognised, Readable, Unbroken, Own, Noise

(* No step changes the capture.                                            *)
LEMMA CaptureKept == [Next]_vars => UNCHANGED <<sent, reception, rawbuf>>
    BY DEF Next, TryNext, SkipPair, decodeHash, vars

(* A message is not passed over when one of the decoders meant for it      *)
(* recognises its timing where it begins: no decoder is left out at any    *)
(* pair, and none that refuses changes what the next one sees.             *)
(* `Recognised` is what the tables of timings must give; the run           *)
(* decode_order checks it of each message.                                 *)
THEOREM ReadableIsTaken == Spec /\ Recognised => []NeverMissed
<1>1. Recognised /\ [Next]_vars => Recognised'
    BY SameCapture, CaptureKept
<1> QED
    BY <1>1, DecodeTypes, TakenByTheFirst, NotPassedOver, PTL DEF Spec

(* The reason for TakenInTheOrderTold in one state.                        *)
LEMMA InTheOrderTold ==
    TypeOK /\ FirstToTake /\ Recognised /\ NoiseIgnored => TakenInOrder
<1> SUFFICES ASSUME TypeOK, FirstToTake, Recognised, NoiseIgnored,
                    taken \in DOMAIN Decoders, Readable,
                    <<sent.name, Decoders[taken].name>> \in ToldBefore
             PROVE  FALSE
    BY DEF TakenInOrder
<1>1. PICK i \in Own : Takes(Decoders[i].decode, rawbuf, Noise, reception)
    BY DEF Recognised
<1>2. ~Refuses(i, Noise)
    BY <1>1, OwnDoesNotRefuse
<1>3. DOMAIN Decoders = 1 .. 140 /\ i \in DOMAIN Decoders /\ sent.name \in Decoders[i].reads
    BY DecodersMade DEF Own
<1>4. i < taken
    BY <1>3, TriedBefore
<1>5. skipped >= Noise
    BY DEF NoiseIgnored
<1>6. CASE skipped = Noise
  <2>1. taken = tried
      BY DecodersMade DEF TypeOK, Hash
  <2>2. i \in 1 .. tried /\ i # taken
      BY <1>3, <1>4, <2>1, DecodersMade DEF TypeOK
  <2> QED
      BY <1>2, <1>6, <2>2 DEF FirstToTake
<1>7. CASE skipped # Noise
  <2>1. PICK k \in Nat : Noise = 2 * k
      BY NoiseInPairs
  <2>2. PICK s \in 0 .. max_skip : skipped = 2 * s
      BY DEF TypeOK
  <2>3. k \in 0 .. max_skip /\ 2 * k < skipped
      BY <1>5, <1>7, <2>1, <2>2, ReceptionsAssumption
  <2> QED
      BY <1>2, <1>3, <2>1, <2>3 DEF FirstToTake
<1> QED
    BY <1>6, <1>7

(* The order of decode() does what its comments say it is for: a message   *)
(* that one of its own decoders recognises, and that is not taken for      *)
(* another within the noise in front of it, is never taken by a decoder    *)
(* that the comments put behind its own.                                   *)
THEOREM TakenInTheOrderTold ==
    Spec /\ Recognised /\ []NoiseIgnored => []TakenInOrder
<1>1. Recognised /\ [Next]_vars => Recognised'
    BY SameCapture, CaptureKept
<1> QED
    BY <1>1, DecodeTypes, TakenByTheFirst, InTheOrderTold, PTL DEF Spec

-----------------------------------------------------------------------------
(* The short intervals of a capture, and one pass of the filter.           *)
Short(buf, at, least) == {k \in at .. Len(buf) : buf[k] < least}
Pass(s, least) ==
    IF Short(s.buf, s.at, least) = {} THEN s
    ELSE [buf |-> Merged(s.buf, Min(Short(s.buf, s.at, least))),
          at |-> Min(Short(s.buf, s.at, least))]

(* crudeNoiseFilter() leaves a capture alone that has no short interval.   *)
LEMMA NothingShort ==
    ASSUME NEW c, NEW floor, Short(c, 1, floor \div kRawTick) = {}
    PROVE  crudeNoiseFilter(c, floor) = c
<1> DEFINE start == [buf |-> c, at |-> 1]
           Value(f, i) == IF i = 0 THEN start ELSE Pass(f[i - 1], floor \div kRawTick)
           Passed(f) == f = [i \in 0 .. 0 |-> Value(f, i)]
           passed == CHOOSE f : Passed(f)
<1>1. Cardinality(Short(c, 1, floor \div kRawTick)) = 0
    BY FS_EmptySet
<1>2. crudeNoiseFilter(c, floor) = passed[0].buf
    BY <1>1 DEF crudeNoiseFilter, Short, Pass
<1>3. \E f : Passed(f)
  <2>1. Passed([i \in 0 .. 0 |-> start])
      OBVIOUS
  <2> QED
      BY <2>1
<1>4. Passed(passed)
  <2> HIDE DEF Passed
  <2> QED
      BY <1>3
<1>5. passed[0] = start
  <2> HIDE DEF passed
  <2> QED
      BY <1>4
<1> QED
    BY <1>2, <1>5

(* It merges the only short interval with its neighbours.                  *)
LEMMA OneShort ==
    ASSUME NEW c, NEW floor, NEW k,
           Short(c, 1, floor \div kRawTick) = {k},
           Min({k}) = k
    PROVE  crudeNoiseFilter(c, floor) = Merged(c, k)
<1> DEFINE least == floor \div kRawTick
           start == [buf |-> c, at |-> 1]
           Value(f, i) == IF i = 0 THEN start ELSE Pass(f[i - 1], least)
           Passed(f) == f = [i \in 0 .. 1 |-> Value(f, i)]
           passed == CHOOSE f : Passed(f)
<1>1. Cardinality(Short(c, 1, least)) = 1
    BY FS_Singleton
<1>2. crudeNoiseFilter(c, floor) = passed[1].buf
    BY <1>1 DEF crudeNoiseFilter, Short, Pass
<1>3. \E f : Passed(f)
  <2> DEFINE g == [i \in 0 .. 1 |-> IF i = 0 THEN start ELSE Pass(start, least)]
  <2>1. g[0] = start
      OBVIOUS
  <2>2. \A i \in 0 .. 1 : g[i] = Value(g, i)
    <3> HIDE DEF start
    <3> QED
        BY <2>1
  <2>3. Passed(g)
      BY <2>2
  <2> HIDE DEF Passed, g
  <2> QED
      BY <2>3
<1>4. Passed(passed)
  <2> HIDE DEF Passed
  <2> QED
      BY <1>3
<1>5. passed[0] = start /\ passed[1] = Pass(passed[0], least)
  <2> HIDE DEF passed, start
  <2> QED
      BY <1>4
<1>6. Pass(start, least) = [buf |-> Merged(c, k), at |-> k]
    BY DEF Pass
<1> QED
    BY <1>2, <1>5, <1>6

(* Two halves of a space.                                                  *)
LEMMA Halves ==
    ASSUME NEW n \in Nat
    PROVE  n \div 2 \in Nat /\ n - n \div 2 >= n \div 2
    OBVIOUS

(* d is the capture c of n intervals with a flash in its first space.      *)
Halved(d, c, n, flash, half) ==
    /\ d \in Seq(Nat) /\ Len(d) = n + 2
    /\ d[1] = c[1] /\ d[2] = half /\ d[3] = flash /\ d[4] = c[2] - flash - half
    /\ \A i \in 5 .. n + 2 : d[i] = c[i - 2]

(* What a flash leaves of the first space, and of the message.             *)
LEMMA Split ==
    ASSUME NEW c \in Seq(Nat), NEW n \in Nat, Len(c) = n, n >= 2,
           NEW flash \in Nat \ {0}, NEW half \in Nat,
           half = (c[2] - flash) \div 2, c[2] - flash - half \in Nat
    PROVE  Halved(Disturbed(c, flash), c, n, flash, half)
<1> DEFINE front == <<c[1], half, flash, c[2] - flash - half>>
           back == SubSeq(c, 3, n)
           d == front \o back
<1>1. c[1] \in Nat /\ c[2] \in Nat
  <2>1. 1 \in 1 .. n /\ 2 \in 1 .. n
      OBVIOUS
  <2> QED
      BY <2>1, ElementOfSeq
<1>2. Disturbed(c, flash) = d
  <2>1. ~(flash = 0 \/ n < 2)
      BY <1>1
  <2> QED
      BY <2>1, Zenon DEF Disturbed
<1>3. front \in Seq(Nat) /\ Len(front) = 4
    BY <1>1
<1>4. front[1] = c[1] /\ front[2] = half /\ front[3] = flash /\ front[4] = c[2] - flash - half
    OBVIOUS
<1>5. \A i \in 3 .. n : c[i] \in Nat
  <2>1. \A i \in 3 .. n : i \in 1 .. n
      BY <1>1
  <2> QED
      BY <2>1, ElementOfSeq
<1>6. back \in Seq(Nat)
    BY <1>5, SubSeqProperties
<1>7. Len(back) = n - 2 
    OBVIOUS
<1>8. \A i \in 1 .. n - 2 : back[i] = c[i + 2]
    OBVIOUS
<1> HIDE DEF front, back
<1>9. front \in Seq(Nat) /\ back \in Seq(Nat)
    BY <1>3, <1>6
<1>10. d \in Seq(Nat)
    BY <1>9, ConcatProperties
<1>11. Len(d) = Len(front) + Len(back)
    BY <1>9, ConcatProperties
<1>12. \A i \in 1 .. Len(front) + Len(back) :
           d[i] = IF i <= Len(front) THEN front[i] ELSE back[i - Len(front)]
    BY <1>9, ConcatProperties
<1> HIDE DEF d
<1>13. Len(d) = n + 2
    BY <1>1, <1>3, <1>7, <1>11
<1>14. ASSUME NEW i \in 1 .. n + 2
       PROVE  d[i] = IF i <= 4 THEN front[i] ELSE back[i - 4]
  <2>1. i \in 1 .. Len(front) + Len(back)
      BY <1>1, <1>3, <1>7
  <2>2. d[i] = IF i <= Len(front) THEN front[i] ELSE back[i - Len(front)]
      BY <1>12, <2>1
  <2> QED
      BY <1>3, <2>2
<1>15. d[1] = front[1] /\ d[2] = front[2] /\ d[3] = front[3] /\ d[4] = front[4]
  <2>1. 1 \in 1 .. n + 2 /\ 2 \in 1 .. n + 2
        /\ 3 \in 1 .. n + 2 /\ 4 \in 1 .. n + 2
      BY <1>1
  <2> QED
      BY <1>14, <2>1
<1>16. ASSUME NEW i \in 5 .. n + 2 PROVE d[i] = c[i - 2]
  <2>1. i \in 1 .. n + 2 /\ i - 4 \in 1 .. n - 2 /\ (i - 4) + 2 = i - 2 /\ ~(i <= 4)
      BY <1>1
  <2>2. d[i] = back[i - 4]
      BY <1>14, <2>1
  <2> QED
      BY <1>8, <2>1, <2>2
<1> QED
    BY <1>2, <1>4, <1>10, <1>13, <1>15, <1>16 DEF Halved

(* What fits into an entry of rawbuf does not overflow.                    *)
LEMMA WithinCell ==
    ASSUME NEW n \in Nat, n <= UINT16_MAX
    PROVE  n % (UINT16_MAX + 1) = n
    BY SMT DEF UINT16_MAX

(* The filter puts the space together again.                               *)
LEMMA Mended ==
    ASSUME NEW c \in Seq(Nat), NEW n \in Nat, Len(c) = n, n >= 2,
           NEW flash \in Nat \ {0}, NEW half \in Nat,
           half = (c[2] - flash) \div 2, c[2] - flash - half \in Nat,
           c[2] <= UINT16_MAX
    PROVE  Merged(Disturbed(c, flash), 3) = c
<1> DEFINE d == Disturbed(c, flash)
<1>1. c[1] \in Nat /\ c[2] \in Nat
  <2>1. 1 \in 1 .. n /\ 2 \in 1 .. n
      OBVIOUS
  <2> QED
      BY <2>1, ElementOfSeq
<1>2. /\ d \in Seq(Nat) /\ Len(d) = n + 2
      /\ d[1] = c[1] /\ d[2] = half /\ d[3] = flash /\ d[4] = c[2] - flash - half
      /\ \A i \in 5 .. n + 2 : d[i] = c[i - 2]
  <2>1. Halved(d, c, n, flash, half)
      BY Split
  <2> HIDE DEF d
  <2> QED
      BY <2>1 DEF Halved
<1> HIDE DEF d
<1>3. d \in Seq(Nat) /\ Len(d) = n + 2
    BY <1>2
<1> DEFINE front == SubSeq(d, 1, 2)
           back == SubSeq(d, 5, n + 2)
           rest == front \o back
<1>4. front \in Seq(Nat) /\ Len(front) = 2
    BY <1>3
<1>5. front[1] = c[1] /\ front[2] = half
    BY <1>2
<1>6. back \in Seq(Nat)
    BY <1>3
<1>7. Len(back) = n - 2
    BY <1>3
<1>8. \A i \in 1 .. n - 2 : back[i] = c[i + 2]
  <2>1. \A i \in 1 .. n - 2 : back[i] = d[i + 4]
      BY <1>3
  <2> HIDE DEF back
  <2> TAKE i \in 1 .. n - 2
  <2>2. i + 4 \in 5 .. n + 2 /\ (i + 4) - 2 = i + 2
      OBVIOUS
  <2> QED
      BY <1>2, <2>1, <2>2
<1> HIDE DEF front, back
<1>9. front \in Seq(Nat) /\ back \in Seq(Nat)
    BY <1>4, <1>6
<1>10. rest \in Seq(Nat)
    BY <1>9, ConcatProperties
<1>11. Len(rest) = Len(front) + Len(back)
    BY <1>9, ConcatProperties
<1>12. \A i \in 1 .. Len(front) + Len(back) :
           rest[i] = IF i <= Len(front) THEN front[i] ELSE back[i - Len(front)]
    BY <1>9, ConcatProperties
<1> HIDE DEF rest
<1>13. Len(rest) = n
    BY <1>4, <1>7, <1>11
<1>14. ASSUME NEW i \in 1 .. n
       PROVE  rest[i] = IF i <= 2 THEN front[i] ELSE back[i - 2]
  <2>1. i \in 1 .. Len(front) + Len(back)
      BY <1>4, <1>7
  <2>2. rest[i] = IF i <= Len(front) THEN front[i] ELSE back[i - Len(front)]
      BY <1>12, <2>1
  <2> QED
      BY <1>4, <2>2
<1>15. ASSUME NEW i \in 1 .. n, i # 2
       PROVE  rest[i] = c[i]
  <2>1. CASE i = 1
      BY <1>5, <1>14, <2>1
  <2>2. CASE i > 2
    <3>1. i - 2 \in 1 .. n - 2 /\ (i - 2) + 2 = i /\ ~(i <= 2)
        BY <2>2
    <3> QED
        BY <1>8, <1>14, <3>1
  <2> QED
      BY <1>15, <2>1, <2>2
<1>16. rest[2] = half
  <2>1. 2 \in 1 .. n
      OBVIOUS
  <2> QED
      BY <1>5, <1>14, <2>1
<1>17. (rest[2] + d[3] + Cell(d, 4)) % (UINT16_MAX + 1) = c[2]
  <2>1. Cell(d, 4) = d[4]
    <3>1. 4 \in DOMAIN d
        BY <1>3
    <3> QED
        BY <3>1 DEF Cell
  <2>2. rest[2] + d[3] + Cell(d, 4) = c[2]
      BY <1>1, <1>2, <1>16, <2>1
  <2>3. c[2] % (UINT16_MAX + 1) = c[2]
      BY <1>1, WithinCell
  <2> QED
      BY <2>2, <2>3
<1> DEFINE longer == [rest EXCEPT ![2] = (@ + d[3] + Cell(d, 4)) % (UINT16_MAX + 1)]
<1>18. longer = [rest EXCEPT ![2] = c[2]]
    BY <1>17
<1> HIDE DEF longer
<1>19. rest = [i \in 1 .. n |-> rest[i]] /\ c = [i \in 1 .. n |-> c[i]]
    BY <1>10, <1>13
<1>20. longer = [i \in 1 .. n |-> IF i = 2 THEN c[2] ELSE rest[i]]
    BY <1>18, <1>19
<1>21. longer = c
    BY <1>15, <1>19, <1>20
<1>22. Merged(d, 3) = SubSeq(longer, 1, Len(d) - 2)
    BY <1>3 DEF Merged, longer, rest, front, back
<1>23. SubSeq(c, 1, n) = c
    BY SubSeqFull
<1> QED
    BY <1>3, <1>21, <1>22, <1>23 DEF d

(* What the filter makes of a capture with a flash in its first space, or  *)
(* without one, is the capture without it.                                 *)
LEMMA FlashFiltered ==
    ASSUME NEW floor \in Nat, NEW least \in Nat, least = floor \div kRawTick,
           NEW c \in Seq(least .. UINT16_MAX), NEW flash \in Nat,
           flash # 0 /\ Len(c) >= 2 =>
             flash < least /\ least <= (c[2] - flash) \div 2
    PROVE  crudeNoiseFilter(Disturbed(c, flash), floor) = c
<1>1. Len(c) \in Nat /\ \A k \in 1 .. Len(c) : c[k] \in least .. UINT16_MAX
  <2>1. Len(c) \in Nat
      BY LenProperties
  <2> QED
      BY <2>1, ElementOfSeq
<1>2. UINT16_MAX \in Nat
    BY SMT DEF UINT16_MAX
<1>3. CASE flash = 0 \/ Len(c) < 2
  <2>1. Disturbed(c, flash) = c
      BY <1>3, Zenon DEF Disturbed
  <2>2. Short(c, 1, least) = {}
      BY <1>1, <1>2 DEF Short
  <2> QED
      BY <2>1, <2>2, NothingShort
<1>4. CASE flash # 0 /\ Len(c) >= 2
  <2> DEFINE n == Len(c)
             half == (c[2] - flash) \div 2
             d == Disturbed(c, flash)
  <2>1. c \in Seq(Nat)
    <3>1. least .. UINT16_MAX \subseteq Nat
        BY <1>2
    <3> QED
        BY <3>1, SeqMonotonic
  <2>2. c[2] \in Nat /\ c[2] <= UINT16_MAX /\ n \in Nat /\ n >= 2
    <3>1. 2 \in 1 .. Len(c)
        BY <1>1, <1>4
    <3> QED
        BY <1>1, <1>2, <1>4, <3>1
  <2>3. flash \in Nat \ {0} /\ flash < least /\ least <= half
      BY <1>4
  <2>4. half \in Nat /\ c[2] - flash - half \in Nat /\ c[2] - flash - half >= half
    <3>1. c[2] - flash \in Int
        BY <2>2
    <3> QED
        BY <2>3, <3>1
  <2> HIDE DEF n, half
  <2>5. Halved(d, c, n, flash, half) /\ Merged(d, 3) = c
      BY <2>1, <2>2, <2>3, <2>4, Split, Mended DEF n, half
  <2> HIDE DEF d
  <2>6. Short(d, 1, least) = {3}
    <3>1. \A k \in 1 .. n + 2 : k # 3 => d[k] >= least
      <4> TAKE k \in 1 .. n + 2
      <4>1. CASE k = 1
        <5>1. d[1] = c[1]
            BY <2>5 DEF Halved
        <5>2. 1 \in 1 .. Len(c)
            BY <1>1, <1>4
        <5>3. c[1] >= least
            BY <1>1, <1>2, <5>2
        <5> QED
            BY <4>1, <5>1, <5>3
      <4>2. CASE k = 2
          BY <2>3, <2>5, <4>2 DEF Halved
      <4>3. CASE k = 4
          BY <2>3, <2>4, <2>5, <4>3 DEF Halved
      <4>4. CASE k \in 5 .. n + 2
        <5>1. k - 2 \in 1 .. n
            BY <2>2, <4>4
        <5>2. c[k - 2] >= least
            BY <1>1, <1>2, <5>1 DEF n
        <5> QED
            BY <2>5, <4>4, <5>2 DEF Halved
      <4>5. k = 1 \/ k = 2 \/ k = 3 \/ k = 4 \/ k \in 5 .. n + 2
          BY <2>2
      <4> QED
          BY <4>1, <4>2, <4>3, <4>4, <4>5
    <3>2. d[3] < least /\ ~(d[3] >= least) /\ 3 \in 1 .. n + 2
        BY <2>2, <2>3, <2>5 DEF Halved
    <3>3. Len(d) = n + 2
        BY <2>5 DEF Halved
    <3>4. \A k \in 1 .. n + 2 : d[k] \in Nat
        BY <2>5, ElementOfSeq DEF Halved
    <3> QED
        BY <3>1, <3>2, <3>3, <3>4 DEF Short
  <2>7. Min({3}) = 3
      BY DEF Min
  <2>8. crudeNoiseFilter(d, floor) = Merged(d, 3)
      BY <2>6, <2>7, OneShort
  <2> QED
      BY <2>5, <2>8 DEF d
<1> QED
    BY <1>1, <1>3, <1>4

(* The message as it would be captured without a flash.                    *)
Captured == Ticks(Heard(Air(Messages[sent.name], sent.pattern), reception), reception)
CapturedAsSent == reception.floor # 0 => rawbuf = Captured

(* The capture at the start.                                               *)
LEMMA FilteredInit == FloorFits /\ Init => CapturedAsSent
<1> SUFFICES ASSUME FloorFits, Init, reception.floor # 0
             PROVE  rawbuf = Captured
    BY DEF CapturedAsSent
<1> DEFINE least == reception.floor \div kRawTick
<1>1. sent \in Sent /\ reception \in Receptions
    BY DEF Init
<1>2. rawbuf = reception.noise \o
                 crudeNoiseFilter(Disturbed(Captured, reception.flash), reception.floor)
    BY DEF Init, Captured
<1>3. /\ reception.noise = <<>> /\ Captured \in Seq(least .. UINT16_MAX)
      /\ reception.flash # 0 /\ Len(Captured) >= 2 =>
           reception.flash < least /\ least <= (Captured[2] - reception.flash) \div 2
    BY <1>1 DEF FloorFits, Captured
<1>4. reception.flash \in Nat /\ reception.floor \in Nat
    BY <1>1, ReceptionsAssumption
<1>5. least \in Nat
    BY <1>4 DEF kRawTick
<1>6. crudeNoiseFilter(Disturbed(Captured, reception.flash), reception.floor) = Captured
  <2> HIDE DEF least
  <2> QED
      BY <1>3, <1>4, <1>5, FlashFiltered DEF least
<1>7. <<>> \o Captured = Captured
    BY <1>3, ConcatEmptySeq
<1> QED
    BY <1>2, <1>3, <1>6, <1>7

(* With a noise floor that every interval of every message reaches and the *)
(* flash does not, decode() sees the message as if there had been no       *)
(* flash, whatever the flash and the receptions (IRrecv.cpp:523-547). That *)
(* the messages reach a floor of 100 us is assumed and evaluated in        *)
(* MCIRdecode.                                                             *)
THEOREM FlashNeverSeen == ASSUME FloorFits PROVE Spec => []FlashForgotten
<1>1. Init => CapturedAsSent
    BY FilteredInit
<1>2. CapturedAsSent /\ [Next]_vars => CapturedAsSent'
    BY CaptureKept DEF CapturedAsSent, Captured
<1>3. CapturedAsSent => FlashForgotten
    BY DEF CapturedAsSent, Captured, FlashForgotten
<1> QED
    BY <1>1, <1>2, <1>3, PTL DEF Spec

=============================================================================
