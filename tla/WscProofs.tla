----------------------------- MODULE WscProofs ------------------------------
(***************************************************************************)
(* For any answers of a registrar, any number of exchanges and of damages, *)
(* and payloads that arrive lost, repeated, reordered and mixed: what is   *)
(* decoded is what was meant for this M1, and a legitimate answer that     *)
(* arrives whole is taken.                                                 *)
(***************************************************************************)
EXTENDS Wsc, FiniteSetTheorems, SequenceTheorems, TLAPS

-----------------------------------------------------------------------------
(***************************************************************************)
(* Sequences.                                                              *)
(***************************************************************************)

IsSeq(s) == s \in Seq(ToSet(s))

LEMMA SeqIsSeq == ASSUME NEW S, NEW s \in Seq(S) PROVE IsSeq(s)
<1>1. Len(s) \in Nat /\ s \in [1..Len(s) -> S]
  BY LenProperties
<1>2. s \in [1..Len(s) -> ToSet(s)]
  BY <1>1 DEF ToSet
<1>3. QED
  BY <1>1, <1>2, SeqDef DEF IsSeq

LEMMA Extent ==
  ASSUME NEW s, IsSeq(s)
  PROVE  /\ Len(s) \in Nat /\ DOMAIN s = 1..Len(s)
         /\ s # <<>> => Len(s) \in Nat \ {0}
BY LenProperties, EmptySeq DEF IsSeq

LEMMA EmptyIsSeq == IsSeq(<<>>) /\ Len(<<>>) = 0
BY EmptySeq, SeqIsSeq

LEMMA SameSeq ==
  ASSUME NEW s, NEW t, IsSeq(s), IsSeq(t), Len(s) = Len(t),
         \A i \in 1..Len(s) : s[i] = t[i]
  PROVE  s = t
<1>1. s \in Seq(ToSet(s) \cup ToSet(t)) /\ t \in Seq(ToSet(s) \cup ToSet(t))
  BY SeqMonotonic DEF IsSeq
<1>2. QED
  BY <1>1, SeqEqual

LEMMA Appended ==
  ASSUME NEW s, IsSeq(s), NEW x
  PROVE  LET t == Append(s, x)
         IN  /\ IsSeq(t) /\ t # <<>> /\ Len(t) = Len(s) + 1 /\ Len(s) \in Nat
             /\ \A i \in 1..Len(s) : t[i] = s[i]
             /\ t[Len(t)] = x /\ t[Len(s) + 1] = x /\ Last(t) = x /\ Front(t) = s
<1>. DEFINE S == ToSet(s) \cup {x}
            t == Append(s, x)
<1>1. s \in Seq(S)
  BY SeqMonotonic DEF IsSeq
<1>2. x \in S
  OBVIOUS
<1>. HIDE DEF S
<1>3. /\ t \in Seq(S) /\ t # <<>> /\ Len(t) = Len(s) + 1 /\ Len(s) \in Nat
      /\ \A i \in 1..Len(s) : t[i] = s[i]
      /\ t[Len(s) + 1] = x
  BY <1>1, <1>2, AppendProperties, LenProperties
<1>4. IsSeq(t)
  BY <1>3, SeqIsSeq
<1>5. Front(t) = s
  <2>1. Front(t) = SubSeq(t, 1, Len(s))
    BY <1>3 DEF Front
  <2>2. \A i \in 1..Len(s) : t[i] \in S
    BY <1>1, <1>3, ElementOfSeq
  <2>3. /\ SubSeq(t, 1, Len(s)) \in Seq(S) /\ Len(SubSeq(t, 1, Len(s))) = Len(s)
        /\ \A i \in 1..Len(s) : SubSeq(t, 1, Len(s))[i] = t[i]
    BY <1>3, <2>2, SubSeqProperties
  <2>4. QED
    BY <1>1, <1>3, <2>1, <2>3, SeqEqual
<1>6. QED
  BY <1>3, <1>4, <1>5 DEF Last

LEMMA Joined ==
  ASSUME NEW s, NEW t, IsSeq(s), IsSeq(t)
  PROVE  /\ IsSeq(s \o t) /\ Len(s \o t) = Len(s) + Len(t)
         /\ \A i \in 1..Len(s) : (s \o t)[i] = s[i]
         /\ \A i \in 1..Len(t) : (s \o t)[Len(s) + i] = t[i]
         /\ \A i \in 1..Len(s \o t) :
              i \in 1..Len(s) \/ \E j \in 1..Len(t) : i = Len(s) + j
<1>1. s \in Seq(ToSet(s) \cup ToSet(t)) /\ t \in Seq(ToSet(s) \cup ToSet(t))
  BY SeqMonotonic DEF IsSeq
<1>2. Len(s) \in Nat /\ Len(t) \in Nat
  BY Extent
<1>3. /\ s \o t \in Seq(ToSet(s) \cup ToSet(t)) /\ Len(s \o t) = Len(s) + Len(t)
      /\ \A i \in 1..(Len(s) + Len(t)) :
           (s \o t)[i] = IF i <= Len(s) THEN s[i] ELSE t[i - Len(s)]
  BY <1>1, ConcatProperties
<1>4. IsSeq(s \o t)
  BY <1>3, SeqIsSeq
<1>5. \A i \in 1..Len(s \o t) : i \in 1..Len(s) \/ i - Len(s) \in 1..Len(t)
  BY <1>2, <1>3
<1>6. \A i \in 1..Len(s \o t) : i = Len(s) + (i - Len(s))
  BY <1>2, <1>3
<1>7. \A i \in 1..Len(s) : i \in 1..(Len(s) + Len(t)) /\ i <= Len(s)
  BY <1>2
<1>8. \A i \in 1..Len(t) : /\ Len(s) + i \in 1..(Len(s) + Len(t))
                           /\ ~(Len(s) + i <= Len(s)) /\ Len(s) + i - Len(s) = i
  BY <1>2
<1>9. QED
  BY <1>3, <1>4, <1>5, <1>6, <1>7, <1>8

LEMMA One == ASSUME NEW x PROVE IsSeq(<<x>>) /\ Len(<<x>>) = 1 /\ <<x>>[1] = x
<1>1. <<x>> \in Seq({x})
  OBVIOUS
<1>2. QED
  BY <1>1, SeqIsSeq

\* The beginning of a sequence, and a sequence with one other element.
LEMMA Shortened ==
  ASSUME NEW s, IsSeq(s), NEW n \in 1..(Len(s) - 1)
  PROVE  LET t == SubSeq(s, 1, n)
         IN  IsSeq(t) /\ Len(t) = n /\ \A i \in 1..n : t[i] = s[i]
<1>1. Len(s) \in Nat /\ n \in Nat /\ 1..n \subseteq 1..Len(s) /\ DOMAIN s = 1..Len(s)
  BY Extent
<1>2. \A i \in 1..n : s[i] \in ToSet(s)
  BY <1>1 DEF ToSet
<1>3. /\ SubSeq(s, 1, n) \in Seq(ToSet(s)) /\ Len(SubSeq(s, 1, n)) = n
      /\ \A i \in 1..n : SubSeq(s, 1, n)[i] = s[i]
  BY <1>1, <1>2, SubSeqProperties
<1>4. QED
  BY <1>3, SeqIsSeq

LEMMA Changed ==
  ASSUME NEW s, IsSeq(s), NEW i \in 1..Len(s), NEW x
  PROVE  LET t == [s EXCEPT ![i] = x]
         IN  /\ IsSeq(t) /\ Len(t) = Len(s) /\ t[i] = x
             /\ \A j \in 1..Len(s) : j # i => t[j] = s[j]
<1>1. s \in Seq(ToSet(s) \cup {x})
  BY SeqMonotonic DEF IsSeq
<1>2. /\ [s EXCEPT ![i] = x] \in Seq(ToSet(s) \cup {x})
      /\ Len([s EXCEPT ![i] = x]) = Len(s)
      /\ \A j \in 1..Len(s) : [s EXCEPT ![i] = x][j] = IF j = i THEN x ELSE s[j]
  BY <1>1, ExceptSeq
<1>3. IsSeq([s EXCEPT ![i] = x])
  BY <1>2, SeqIsSeq
<1>4. QED
  BY <1>2, <1>3

-----------------------------------------------------------------------------
(***************************************************************************)
(* Attributes of a kind.                                                   *)
(***************************************************************************)

\* The sequence has one attribute of this kind, with this value; it has none.
Sole(s, k, v) ==
  \E i \in 1..Len(s) : /\ s[i].k = k /\ s[i].v = v
                       /\ \A j \in 1..Len(s) : s[j].k = k => j = i

Lacks(s, k) == \A i \in 1..Len(s) : s[i].k # k

LEMMA CountedTimes ==
  ASSUME NEW s, IsSeq(s), NEW k
  PROVE  /\ Times(s, k) \in Nat
         /\ Times(s, k) = 1 <=>
              \E i \in 1..Len(s) : s[i].k = k /\ \A j \in 1..Len(s) : s[j].k = k => j = i
         /\ Times(s, k) = 0 <=> Lacks(s, k)
<1>. DEFINE I == {i \in 1..Len(s) : s[i].k = k}
<1>1. IsFiniteSet(I)
  <2>1. Len(s) \in Nat
    BY Extent
  <2>2. IsFiniteSet(1..Len(s))
    BY <2>1, FS_Interval
  <2>3. QED
    BY <2>2, FS_Subset
<1>2. Cardinality(I) \in Nat /\ (Cardinality(I) = 1 <=> \E x : I = {x})
      /\ (Cardinality(I) = 0 <=> I = {})
  BY <1>1, FS_Singleton, FS_EmptySet, FS_CardinalityType
<1>3. (\E x : I = {x}) <=>
        \E i \in 1..Len(s) : s[i].k = k /\ \A j \in 1..Len(s) : s[j].k = k => j = i
  <2>1. ASSUME NEW x, I = {x}
        PROVE  \E i \in 1..Len(s) : s[i].k = k /\ \A j \in 1..Len(s) : s[j].k = k => j = i
    <3>1. x \in I /\ \A j \in I : j = x
      BY <2>1
    <3>2. QED
      BY <3>1
  <2>2. ASSUME NEW i \in 1..Len(s), s[i].k = k, \A j \in 1..Len(s) : s[j].k = k => j = i
        PROVE  I = {i}
    BY <2>2
  <2>3. QED
    BY <2>1, <2>2
<1>4. I = {} <=> Lacks(s, k)
  BY DEF Lacks
<1>. HIDE DEF I
<1>5. Times(s, k) = Cardinality(I)
  BY DEF Times, I
<1>6. QED
  BY <1>2, <1>3, <1>4, <1>5

LEMMA OfSole ==
  ASSUME NEW s, IsSeq(s), NEW k, NEW v, Sole(s, k, v)
  PROVE  Times(s, k) = 1 /\ Has(s, k) /\ Value(s, k) = v
<1>1. PICK i \in 1..Len(s) : /\ s[i].k = k /\ s[i].v = v
                            /\ \A j \in 1..Len(s) : s[j].k = k => j = i
  BY DEF Sole
<1>2. (CHOOSE j \in 1..Len(s) : s[j].k = k) = i
  BY <1>1
<1>3. QED
  BY <1>1, <1>2, CountedTimes DEF Has, Value

LEMMA OfLacks ==
  ASSUME NEW s, IsSeq(s), NEW k, Lacks(s, k) PROVE Times(s, k) = 0 /\ ~Has(s, k)
BY CountedTimes DEF Has, Lacks

LEMMA JoinedLacks ==
  ASSUME NEW s, NEW t, IsSeq(s), IsSeq(t), NEW k, Lacks(s, k), Lacks(t, k)
  PROVE  Lacks(s \o t, k)
BY Joined DEF Lacks

LEMMA JoinedSole ==
  ASSUME NEW s, NEW t, IsSeq(s), IsSeq(t), NEW k, NEW v,
         \/ Sole(s, k, v) /\ Lacks(t, k)
         \/ Lacks(s, k) /\ Sole(t, k, v)
  PROVE  Sole(s \o t, k, v)
<1>. Len(s) \in Nat /\ Len(t) \in Nat
  BY Extent
<1>1. CASE Sole(s, k, v) /\ Lacks(t, k)
  <2>1. PICK i \in 1..Len(s) : /\ s[i].k = k /\ s[i].v = v
                              /\ \A j \in 1..Len(s) : s[j].k = k => j = i
    BY <1>1 DEF Sole
  <2>2. i \in 1..Len(s \o t)
    BY <2>1, Joined
  <2>3. \A j \in 1..Len(s \o t) : (s \o t)[j].k = k => j = i
    BY <1>1, <2>1, Joined DEF Lacks
  <2>4. QED
    BY <2>1, <2>2, <2>3, Joined DEF Sole
<1>2. CASE Lacks(s, k) /\ Sole(t, k, v)
  <2>1. PICK i \in 1..Len(t) : /\ t[i].k = k /\ t[i].v = v
                              /\ \A j \in 1..Len(t) : t[j].k = k => j = i
    BY <1>2 DEF Sole
  <2>2. Len(s) + i \in 1..Len(s \o t)
    BY <2>1, Joined
  <2>3. \A j \in 1..Len(s \o t) : (s \o t)[j].k = k => j = Len(s) + i
    BY <1>2, <2>1, Joined DEF Lacks
  <2>4. QED
    BY <2>1, <2>2, <2>3, Joined DEF Sole
<1>3. QED
  BY <1>1, <1>2

LEMMA JoinedOne ==
  ASSUME NEW k, NEW v, NEW kind
  PROVE  LET one == <<At(k, v)>>
         IN  /\ IsSeq(one) /\ Len(one) = 1 /\ one[1] = At(k, v) /\ Sole(one, k, v)
             /\ kind # k => Lacks(one, kind)
<1>. DEFINE one == <<At(k, v)>>
<1>1. IsSeq(one) /\ Len(one) = 1 /\ one[1] = At(k, v)
  BY One
<1>2. At(k, v).k = k /\ At(k, v).v = v /\ 1..1 = {1}
  BY DEF At
<1>. HIDE DEF one
<1>3. QED
  BY <1>1, <1>2 DEF Sole, Lacks, one

LEMMA EmptyLacks == \A k : Lacks(<<>>, k)
BY EmptyIsSeq DEF Lacks

LEMMA AppendedJoined ==
  ASSUME NEW s, IsSeq(s), NEW x PROVE Append(s, x) = s \o <<x>>
<1>1. s \in Seq(ToSet(s) \cup {x})
  BY SeqMonotonic DEF IsSeq
<1>2. QED
  BY <1>1, AppendIsConcat

\* Attributes have a kind and a value, and nothing else.
IsBody(s) == IsSeq(s) /\ \A i \in 1..Len(s) : \E k, v : s[i] = At(k, v)

LEMMA JoinedBody ==
  ASSUME NEW s, NEW t, IsBody(s), IsBody(t) PROVE IsBody(s \o t)
<1>1. IsSeq(s) /\ IsSeq(t)
  BY DEF IsBody
<1>2. ASSUME NEW i \in 1..Len(s \o t) PROVE \E k, v : (s \o t)[i] = At(k, v)
  <2>1. CASE i \in 1..Len(s)
    <3>1. (s \o t)[i] = s[i]
      BY <1>1, <2>1, Joined
    <3>2. QED
      BY <2>1, <3>1 DEF IsBody
  <2>2. CASE \E j \in 1..Len(t) : i = Len(s) + j
    <3>1. PICK j \in 1..Len(t) : i = Len(s) + j
      BY <2>2
    <3>2. (s \o t)[i] = t[j]
      BY <1>1, <3>1, Joined
    <3>3. QED
      BY <3>2 DEF IsBody
  <2>3. i \in 1..Len(s) \/ \E j \in 1..Len(t) : i = Len(s) + j
    BY <1>1, <1>2, Joined
  <2>4. QED
    BY <2>1, <2>2, <2>3
<1>3. QED
  BY <1>1, <1>2, Joined DEF IsBody

LEMMA OneBody == ASSUME NEW k, NEW v PROVE IsBody(<<At(k, v)>>)
<1>1. IsSeq(<<At(k, v)>>) /\ Len(<<At(k, v)>>) = 1 /\ <<At(k, v)>>[1] = At(k, v)
  BY One
<1>2. 1..1 = {1}
  OBVIOUS
<1>3. QED
  BY <1>1, <1>2 DEF IsBody

\* An attribute that is there or not, after others that have no such kind.
With(s, c, k, v) == s \o (IF c THEN <<At(k, v)>> ELSE <<>>)

LEMMA Added ==
  ASSUME NEW s, IsBody(s), NEW c, NEW k, NEW v, Lacks(s, k)
  PROVE  LET t == With(s, c, k, v)
         IN  /\ IsBody(t) /\ Len(t) >= Len(s)
             /\ \A kind : kind # k =>
                  /\ \A value : Sole(s, kind, value) => Sole(t, kind, value)
                  /\ Lacks(s, kind) => Lacks(t, kind)
             /\ c => Sole(t, k, v) /\ t[Len(t)] = At(k, v)
             /\ ~c => t = s
<1>1. IsSeq(s)
  BY DEF IsBody
<1>2. CASE c
  <2>. DEFINE one == <<At(k, v)>>
  <2>1. IsBody(one) /\ IsSeq(one) /\ Len(one) = 1 /\ one[1] = At(k, v) /\ Sole(one, k, v)
        /\ \A kind : kind # k => Lacks(one, kind)
    BY OneBody, JoinedOne
  <2>. HIDE DEF one
  <2>2. IsBody(s \o one)
    BY <2>1, JoinedBody
  <2>3. Len(s \o one) = Len(s) + 1 /\ (s \o one)[Len(s) + 1] = At(k, v) /\ Len(s) \in Nat
    <3>1. 1 \in 1..Len(one)
      BY <2>1
    <3>2. (s \o one)[Len(s) + 1] = one[1]
      BY <1>1, <2>1, <3>1, Joined
    <3>3. Len(s) \in Nat /\ Len(s \o one) = Len(s) + Len(one)
      BY <1>1, <2>1, Joined, Extent
    <3>4. QED
      BY <2>1, <3>2, <3>3
  <2>4. ASSUME NEW kind, kind # k
        PROVE  /\ \A value : Sole(s, kind, value) => Sole(s \o one, kind, value)
               /\ Lacks(s, kind) => Lacks(s \o one, kind)
    BY <1>1, <2>1, <2>4, JoinedSole, JoinedLacks
  <2>5. Sole(s \o one, k, v)
    BY <1>1, <2>1, JoinedSole
  <2>6. (IF c THEN one ELSE <<>>) = one
    BY <1>2
  <2>7. QED
    BY <1>2, <2>2, <2>3, <2>4, <2>5, <2>6 DEF one, With
<1>3. CASE ~c
  <2>1. s \o <<>> = s
    BY <1>1, ConcatEmptySeq DEF IsSeq
  <2>2. Len(s) \in Nat
    BY <1>1, Extent
  <2>3. (IF c THEN <<At(k, v)>> ELSE <<>>) = <<>>
    BY <1>3
  <2>4. QED
    BY <1>3, <2>1, <2>2, <2>3 DEF With
<1>4. QED
  BY <1>2, <1>3

-----------------------------------------------------------------------------
(***************************************************************************)
(* The payload that a registrar makes.                                     *)
(***************************************************************************)

Start(e, a, i) ==
  <<At("type", 5), At("enonce", e), At("rnonce", Nonce(a, i)), At("pubkey", <<"registrar", a>>)>>

LEMMA StartShape ==
  ASSUME NEW e, NEW a, NEW i
  PROVE  LET s == Start(e, a, i)
         IN  /\ IsBody(s) /\ Len(s) = 4
             /\ Sole(s, "type", 5) /\ Sole(s, "enonce", e) /\ Sole(s, "rnonce", Nonce(a, i))
             /\ Sole(s, "pubkey", <<"registrar", a>>)
             /\ \A k : k \notin {"type", "enonce", "rnonce", "pubkey"} => Lacks(s, k)
<1>. DEFINE s == Start(e, a, i)
<1>1. /\ s \in Seq({At("type", 5), At("enonce", e), At("rnonce", Nonce(a, i)),
                    At("pubkey", <<"registrar", a>>)})
      /\ Len(s) = 4 /\ s[1] = At("type", 5) /\ s[2] = At("enonce", e)
      /\ s[3] = At("rnonce", Nonce(a, i)) /\ s[4] = At("pubkey", <<"registrar", a>>)
  BY DEF Start
<1>. HIDE DEF s
<1>2. IsSeq(s) /\ 1..4 = {1, 2, 3, 4}
  BY <1>1, SeqIsSeq
<1>3. IsBody(s)
  BY <1>1, <1>2 DEF IsBody
<1>4. /\ s[1].k = "type" /\ s[1].v = 5 /\ s[2].k = "enonce" /\ s[2].v = e
      /\ s[3].k = "rnonce" /\ s[3].v = Nonce(a, i)
      /\ s[4].k = "pubkey" /\ s[4].v = <<"registrar", a>>
  BY <1>1 DEF At
<1>5. /\ Sole(s, "type", 5) /\ Sole(s, "enonce", e) /\ Sole(s, "rnonce", Nonce(a, i))
      /\ Sole(s, "pubkey", <<"registrar", a>>)
  BY <1>1, <1>2, <1>4 DEF Sole
<1>6. \A k : k \notin {"type", "enonce", "rnonce", "pubkey"} => Lacks(s, k)
  BY <1>1, <1>2, <1>4 DEF Lacks
<1>7. QED
  BY <1>1, <1>3, <1>5, <1>6 DEF s

\* What M2 makes of a Bss, in two steps.
Keys(e, a, i) == Derive(<<"registrar", a>>, <<"enrollee", e>>, e, Nonce(a, i))
Sealed(b) == ~(b.settings = "none" /\ b.inside = 0)
Indexed(b) == b.index # None
Body(e, a, b, i) ==
  With(With(With(Start(e, a, i), b.outside, "role", b.role),
            Sealed(b), "encrypted", Encrypt(Keys(e, a, i), ConfigData(b))),
       Indexed(b), "index", b.index)

LEMMA M2IsBody ==
  ASSUME NEW e, NEW a, NEW b, NEW i
  PROVE  M2(e, a, b, i) = Payload(Authenticate(Keys(e, a, i), M1(e), Body(e, a, b, i)))
<1>1. /\ (IF b.settings = "none" /\ b.inside = 0 THEN <<>>
          ELSE <<At("encrypted", Encrypt(Keys(e, a, i), ConfigData(b)))>>)
         = (IF Sealed(b) THEN <<At("encrypted", Encrypt(Keys(e, a, i), ConfigData(b)))>> ELSE <<>>)
      /\ (IF b.index = None THEN <<>> ELSE <<At("index", b.index)>>)
         = (IF Indexed(b) THEN <<At("index", b.index)>> ELSE <<>>)
  BY DEF Sealed, Indexed
<1>2. QED
  BY <1>1 DEF M2, Keys, Body, Start, With

\* The fields that every payload has, once, and those that depend on the Bss.
Header(s, e, a, i) ==
  /\ Sole(s, "type", 5) /\ Sole(s, "enonce", e) /\ Sole(s, "rnonce", Nonce(a, i))
  /\ Sole(s, "pubkey", <<"registrar", a>>)

Variable(s, e, a, b, i) ==
  /\ ~b.outside => Lacks(s, "role")
  /\ b.outside => Sole(s, "role", b.role)
  /\ Sealed(b) => Sole(s, "encrypted", Encrypt(Keys(e, a, i), ConfigData(b)))
  /\ ~Sealed(b) => Lacks(s, "encrypted")
  /\ b.index # None => Sole(s, "index", b.index)
  /\ b.index = None => Lacks(s, "index")

LEMMA BodyShape ==
  ASSUME NEW e, NEW a, NEW b, NEW i
  PROVE  LET s == Body(e, a, b, i)
         IN  /\ IsBody(s) /\ Len(s) >= 4 /\ Lacks(s, "authenticator")
             /\ Header(s, e, a, i) /\ Variable(s, e, a, b, i)
             /\ b.index # None => s[Len(s)] = At("index", b.index)
<1>. DEFINE cipher == Encrypt(Keys(e, a, i), ConfigData(b))
            s1 == Start(e, a, i)
            s2 == With(s1, b.outside, "role", b.role)
            s3 == With(s2, Sealed(b), "encrypted", cipher)
            s4 == With(s3, Indexed(b), "index", b.index)
<1>1. /\ IsBody(s1) /\ Len(s1) = 4 /\ Header(s1, e, a, i)
      /\ Lacks(s1, "role") /\ Lacks(s1, "encrypted") /\ Lacks(s1, "index")
      /\ Lacks(s1, "authenticator")
  BY StartShape DEF Header
<1>. HIDE DEF s1
<1>2. /\ IsBody(s2) /\ Len(s2) >= Len(s1)
      /\ \A kind : kind # "role" =>
           /\ \A value : Sole(s1, kind, value) => Sole(s2, kind, value)
           /\ Lacks(s1, kind) => Lacks(s2, kind)
      /\ b.outside => Sole(s2, "role", b.role)
      /\ ~b.outside => s2 = s1
  <2>1. IsBody(s1) /\ Lacks(s1, "role")
    BY <1>1
  <2>2. QED
    BY <2>1, Added
<1>. HIDE DEF s2
<1>3. Lacks(s2, "encrypted")
  BY <1>1, <1>2
<1>4. /\ IsBody(s3) /\ Len(s3) >= Len(s2)
      /\ \A kind : kind # "encrypted" =>
           /\ \A value : Sole(s2, kind, value) => Sole(s3, kind, value)
           /\ Lacks(s2, kind) => Lacks(s3, kind)
      /\ Sealed(b) => Sole(s3, "encrypted", cipher)
      /\ ~Sealed(b) => s3 = s2
  BY <1>2, <1>3, Added
<1>. HIDE DEF s3
<1>5. Lacks(s3, "index")
  BY <1>1, <1>2, <1>4
<1>6. /\ IsBody(s4) /\ Len(s4) >= Len(s3)
      /\ \A kind : kind # "index" =>
           /\ \A value : Sole(s3, kind, value) => Sole(s4, kind, value)
           /\ Lacks(s3, kind) => Lacks(s4, kind)
      /\ Indexed(b) => Sole(s4, "index", b.index) /\ s4[Len(s4)] = At("index", b.index)
      /\ ~Indexed(b) => s4 = s3
  BY <1>4, <1>5, Added
<1>7. s4 = Body(e, a, b, i)
  BY DEF Body, s1, s2, s3
<1>. HIDE DEF s4, cipher
<1>8. Lacks(s4, "authenticator")
  BY <1>1, <1>2, <1>4, <1>6
<1>9. Header(s4, e, a, i)
  BY <1>1, <1>2, <1>4, <1>6 DEF Header
<1>10. (~b.outside => Lacks(s4, "role")) /\ (b.outside => Sole(s4, "role", b.role))
  BY <1>1, <1>2, <1>4, <1>6
<1>11. (Sealed(b) => Sole(s4, "encrypted", cipher)) /\ (~Sealed(b) => Lacks(s4, "encrypted"))
  BY <1>3, <1>4, <1>6
<1>12. (b.index # None => Sole(s4, "index", b.index)) /\ (b.index = None => Lacks(s4, "index"))
  BY <1>5, <1>6 DEF Indexed
<1>13. Len(s4) >= 4
  <2>1. Len(s1) \in Nat /\ Len(s2) \in Nat /\ Len(s3) \in Nat /\ Len(s4) \in Nat
    BY <1>1, <1>2, <1>4, <1>6, Extent DEF IsBody
  <2>2. QED
    BY <2>1, <1>1, <1>2, <1>4, <1>6
<1>14. QED
  BY <1>6, <1>7, <1>8, <1>9, <1>10, <1>11, <1>12, <1>13 DEF Variable, cipher, Indexed

Shaped(m, e, a, b, i) ==
  LET s == Body(e, a, b, i)
      tag == Tag(Keys(e, a, i), <<M1(e), s>>)
  IN  /\ m = [body |-> m.body, cut |-> FALSE] /\ m.cut = FALSE
      /\ IsBody(m.body) /\ Len(m.body) >= 5 /\ Len(s) \in Nat /\ Len(m.body) = Len(s) + 1
      /\ Front(m.body) = s /\ Last(m.body) = At("authenticator", tag)
      /\ m.body[Len(m.body)] = At("authenticator", tag)
      /\ \A j \in 1..Len(s) : m.body[j] = s[j] /\ m.body[j].k # "authenticator"
      /\ Sole(m.body, "authenticator", tag)
      /\ Header(m.body, e, a, i) /\ Variable(m.body, e, a, b, i)
      /\ b.index # None => m.body[Len(m.body) - 1] = At("index", b.index)

LEMMA M2Shape ==
  ASSUME NEW e, NEW a, NEW b, NEW i
  PROVE  Shaped(M2(e, a, b, i), e, a, b, i)
<1>. DEFINE m == M2(e, a, b, i)
            s == Body(e, a, b, i)
            tag == Tag(Keys(e, a, i), <<M1(e), s>>)
            t == Append(s, At("authenticator", tag))
<1>1. m = [body |-> t, cut |-> FALSE]
  BY M2IsBody DEF Payload, Authenticate
<1>2. m = [body |-> m.body, cut |-> FALSE] /\ m.cut = FALSE /\ m.body = t
  BY <1>1
<1>3. /\ IsBody(s) /\ IsSeq(s) /\ Len(s) >= 4 /\ Lacks(s, "authenticator")
      /\ Header(s, e, a, i) /\ Variable(s, e, a, b, i)
      /\ b.index # None => s[Len(s)] = At("index", b.index)
  BY BodyShape DEF IsBody
<1>. HIDE DEF s, tag, t, m
<1>4. /\ Len(t) = Len(s) + 1 /\ Len(s) \in Nat
      /\ \A j \in 1..Len(s) : t[j] = s[j]
      /\ t[Len(t)] = At("authenticator", tag) /\ Last(t) = At("authenticator", tag) /\ Front(t) = s
  BY <1>3, Appended DEF t
<1>5. t = With(s, TRUE, "authenticator", tag)
  BY <1>3, AppendedJoined DEF t, With
<1>6. /\ IsBody(t)
      /\ \A kind : kind # "authenticator" =>
           /\ \A value : Sole(s, kind, value) => Sole(t, kind, value)
           /\ Lacks(s, kind) => Lacks(t, kind)
      /\ Sole(t, "authenticator", tag)
  BY <1>3, <1>5, Added
<1>7. Header(t, e, a, i)
  BY <1>3, <1>6 DEF Header
<1>8. Variable(t, e, a, b, i)
  BY <1>3, <1>6 DEF Variable
<1>9. \A j \in 1..Len(s) : t[j].k # "authenticator"
  BY <1>3, <1>4 DEF Lacks
<1>10. b.index # None => t[Len(t) - 1] = At("index", b.index)
  BY <1>3, <1>4
<1>11. Len(t) >= 5
  BY <1>3, <1>4
<1>12. QED
  BY <1>2, <1>4, <1>6, <1>7, <1>8, <1>9, <1>10, <1>11 DEF t, s, tag, m, Shaped

SettingsData(b) ==
  CASE b.settings = "incomplete" -> <<At("ssid", "x")>>
    [] b.settings = "none" -> <<>>
    [] OTHER -> <<At("ssid", "x"), At("security", b.settings)>>

LEMMA RoleShape ==
  ASSUME NEW b \in Bss
  PROVE  LET s == Role(b)
         IN  /\ IsSeq(s) /\ Len(s) = b.inside
             /\ \A i \in 1..Len(s) : s[i].k = "role"
             /\ \A k : k # "role" => Lacks(s, k)
             /\ b.inside = 0 => Lacks(s, "role")
             /\ b.inside = 1 => Sole(s, "role", b.role)
<1>. DEFINE s == Role(b)
<1>1. b.inside \in 0..2 /\ b.inside \in Nat
  BY DEF Bss
<1>2. s = [i \in 1..b.inside |-> At("role", b.role)]
  BY DEF Role
<1>3. s \in Seq({At("role", b.role)}) /\ Len(s) = b.inside
  <2>1. s \in [1..b.inside -> {At("role", b.role)}]
    BY <1>2
  <2>2. s \in Seq({At("role", b.role)})
    BY <1>1, <2>1, SeqDef
  <2>3. QED
    BY <1>1, <2>1, <2>2, LenProperties
<1>4. \A i \in 1..Len(s) : s[i] = At("role", b.role)
  BY <1>2, <1>3
<1>. HIDE DEF s
<1>5. \A i \in 1..Len(s) : s[i].k = "role" /\ s[i].v = b.role
  BY <1>4 DEF At
<1>6. b.inside = 1 => Sole(s, "role", b.role)
  BY <1>3, <1>5 DEF Sole
<1>7. /\ \A k : k # "role" => Lacks(s, k)
      /\ b.inside = 0 => Lacks(s, "role")
  BY <1>3, <1>5 DEF Lacks
<1>8. QED
  BY <1>3, <1>5, <1>6, <1>7, SeqIsSeq DEF s

LEMMA TailShape ==
  ASSUME NEW b \in Bss
  PROVE  LET s == SettingsData(b)
         IN  /\ IsSeq(s)
             /\ Lacks(s, "role") /\ Lacks(s, "kwa")
             /\ b.settings \in {"none", "incomplete"} => Lacks(s, "security")
             /\ b.settings \in {"other", "psk"} =>
                  Sole(s, "ssid", "x") /\ Sole(s, "security", b.settings)
<1>. DEFINE s == SettingsData(b)
<1>1. b.settings \in {"none", "incomplete", "other", "psk"}
  BY DEF Bss
<1>2. CASE b.settings = "none"
  <2>1. s = <<>>
    BY <1>2 DEF SettingsData
  <2>2. QED
    BY <1>2, <2>1, EmptyIsSeq, EmptyLacks
<1>3. CASE b.settings = "incomplete"
  <2>1. s = <<At("ssid", "x")>>
    BY <1>3 DEF SettingsData
  <2>2. /\ IsSeq(<<At("ssid", "x")>>)
        /\ \A k : k # "ssid" => Lacks(<<At("ssid", "x")>>, k)
    BY JoinedOne
  <2>. HIDE DEF s
  <2>3. IsSeq(s) /\ Lacks(s, "role") /\ Lacks(s, "kwa") /\ Lacks(s, "security")
    BY <2>1, <2>2
  <2>4. QED
    BY <1>3, <2>3 DEF s
<1>4. CASE b.settings \in {"other", "psk"}
  <2>1. s = <<At("ssid", "x"), At("security", b.settings)>>
    BY <1>4 DEF SettingsData
  <2>2. /\ s \in Seq({At("ssid", "x"), At("security", b.settings)})
        /\ Len(s) = 2 /\ s[1] = At("ssid", "x") /\ s[2] = At("security", b.settings)
    BY <2>1
  <2>. HIDE DEF s
  <2>3. IsSeq(s) /\ 1..2 = {1, 2}
    BY <2>2, SeqIsSeq
  <2>4. s[1].k = "ssid" /\ s[1].v = "x" /\ s[2].k = "security" /\ s[2].v = b.settings
    BY <2>2 DEF At
  <2>5. Sole(s, "ssid", "x") /\ Sole(s, "security", b.settings)
    BY <2>2, <2>3, <2>4 DEF Sole
  <2>6. Lacks(s, "role") /\ Lacks(s, "kwa")
    BY <2>2, <2>3, <2>4 DEF Lacks
  <2>7. QED
    BY <1>4, <2>3, <2>5, <2>6 DEF s
<1>5. QED
  BY <1>1, <1>2, <1>3, <1>4

\* What is under encryption says what was meant, where it is accepted.
LEMMA ConfigShape ==
  ASSUME NEW b \in Bss
  PROVE  LET s == ConfigData(b)
         IN  /\ IsSeq(s) /\ Lacks(s, "kwa")
             /\ Times(s, "role") = 1 <=> b.inside = 1
             /\ b.inside = 1 => Value(s, "role") = b.role
             /\ Parses(s) <=> b.settings \in {"other", "psk"}
             /\ Parses(s) => Value(s, "security") = b.settings
<1>. DEFINE r == Role(b)
            t == SettingsData(b)
            s == r \o t
<1>1. ConfigData(b) = s
  BY DEF ConfigData, SettingsData
<1>2. /\ IsSeq(r) /\ Len(r) = b.inside
      /\ \A i \in 1..Len(r) : r[i].k = "role"
      /\ \A k : k # "role" => Lacks(r, k)
      /\ b.inside = 0 => Lacks(r, "role")
      /\ b.inside = 1 => Sole(r, "role", b.role)
  BY RoleShape
<1>3. /\ IsSeq(t)
      /\ Lacks(t, "role") /\ Lacks(t, "kwa")
      /\ b.settings \in {"none", "incomplete"} => Lacks(t, "security")
      /\ b.settings \in {"other", "psk"} =>
           Sole(t, "ssid", "x") /\ Sole(t, "security", b.settings)
  BY TailShape
<1>4. b.inside \in 0..2 /\ b.settings \in {"none", "incomplete", "other", "psk"}
  BY DEF Bss
<1>. HIDE DEF r, t
<1>5. IsSeq(s) /\ Lacks(s, "kwa")
  BY <1>2, <1>3, Joined, JoinedLacks
<1>6. b.inside = 1 => Times(s, "role") = 1 /\ Value(s, "role") = b.role
  <2>1. b.inside = 1 => Sole(s, "role", b.role)
    BY <1>2, <1>3, JoinedSole
  <2>. HIDE DEF s
  <2>2. QED
    BY <1>5, <2>1, OfSole
<1>7. b.inside = 0 => Times(s, "role") # 1
  <2>1. b.inside = 0 => Lacks(s, "role")
    BY <1>2, <1>3, JoinedLacks
  <2>. HIDE DEF s
  <2>2. QED
    BY <1>5, <2>1, OfLacks
<1>8. b.inside = 2 => Times(s, "role") # 1
  <2>1. SUFFICES ASSUME b.inside = 2 PROVE Times(s, "role") # 1
    OBVIOUS
  <2>2. 1 \in 1..Len(r) /\ 2 \in 1..Len(r)
    BY <1>2, <2>1
  <2>3. s[1].k = "role" /\ s[2].k = "role"
    BY <1>2, <1>3, <2>2, Joined
  <2>4. Len(s) = Len(r) + Len(t) /\ Len(t) \in Nat
    BY <1>2, <1>3, Joined, Extent
  <2>5. 1 \in 1..Len(s) /\ 2 \in 1..Len(s)
    BY <1>2, <2>1, <2>4
  <2>. HIDE DEF s
  <2>6. QED
    BY <1>5, <2>3, <2>5, CountedTimes
<1>9. b.settings \in {"other", "psk"} => Parses(s) /\ Value(s, "security") = b.settings
  <2>1. b.settings \in {"other", "psk"} =>
          Sole(s, "ssid", "x") /\ Sole(s, "security", b.settings)
    BY <1>2, <1>3, JoinedSole
  <2>. HIDE DEF s
  <2>2. QED
    BY <1>5, <2>1, OfSole DEF Parses
<1>10. b.settings \in {"none", "incomplete"} => ~Parses(s)
  <2>1. b.settings \in {"none", "incomplete"} => Lacks(s, "security")
    BY <1>2, <1>3, JoinedLacks
  <2>. HIDE DEF s
  <2>2. QED
    BY <1>5, <2>1, OfLacks DEF Parses
<1>. HIDE DEF s
<1>11. QED
  BY <1>1, <1>4, <1>5, <1>6, <1>7, <1>8, <1>9, <1>10

LEMMA EncryptShape ==
  ASSUME NEW keys, NEW plain, IsSeq(plain), Lacks(plain, "kwa")
  PROVE  LET c == Encrypt(keys, plain)
         IN  /\ c.keys = keys /\ Front(c.text) = plain /\ Trailed(c.text, "kwa")
             /\ Last(c.text).v = Tag(keys, Front(c.text))
<1>. DEFINE x == At("kwa", Tag(keys, plain))
            t == Append(plain, x)
<1>1. Encrypt(keys, plain).keys = keys /\ Encrypt(keys, plain).text = t
  BY DEF Encrypt
<1>2. x.k = "kwa" /\ x.v = Tag(keys, plain)
  BY DEF At
<1>. HIDE DEF x
<1>3. IsSeq(t) /\ t # <<>> /\ Last(t) = x /\ Front(t) = plain
  BY Appended
<1>4. Sole(t, "kwa", Tag(keys, plain))
  <2>1. IsSeq(<<x>>) /\ Sole(<<x>>, "kwa", Tag(keys, plain))
    BY JoinedOne DEF x
  <2>2. t = plain \o <<x>>
    BY AppendedJoined
  <2>3. QED
    BY <2>1, <2>2, JoinedSole
<1>. HIDE DEF t
<1>5. Times(t, "kwa") = 1
  BY <1>3, <1>4, OfSole
<1>6. QED
  BY <1>1, <1>2, <1>3, <1>5 DEF Trailed

\* What the envelope of an undamaged payload says.
LEMMA WholeEnvelope ==
  ASSUME NEW e, NEW a, NEW b \in Bss, NEW i
  PROVE  LET m == M2(e, a, b, i)
         IN  /\ Has(m.body, "encrypted") <=> Sealed(b)
             /\ Has(m.body, "role") <=> b.outside
             /\ Value(m.body, "rnonce") = Nonce(a, i)
             /\ Sealed(b) =>
                  Envelope(m) = [rnonce |-> Nonce(a, i), index |-> b.index,
                                 data |-> ConfigData(b), outer |-> m.body]
<1>. DEFINE m == M2(e, a, b, i)
            s == m.body
<1>1. IsSeq(s) /\ Header(s, e, a, i) /\ Variable(s, e, a, b, i)
  <2>1. Shaped(m, e, a, b, i)
    BY M2Shape
  <2>. HIDE DEF m
  <2>2. QED
    BY <2>1 DEF Shaped, IsBody
<1>. HIDE DEF m
<1>2. b.outside \in BOOLEAN
  BY DEF Bss
<1>. HIDE DEF s
<1>3. Has(s, "encrypted") <=> Sealed(b)
  BY <1>1, OfSole, OfLacks DEF Variable
<1>4. Has(s, "role") <=> b.outside
  BY <1>1, <1>2, OfSole, OfLacks DEF Variable
<1>5. Value(s, "rnonce") = Nonce(a, i)
  BY <1>1, OfSole DEF Header
<1>6. (IF Has(s, "index") THEN Value(s, "index") ELSE None) = b.index
  BY <1>1, OfSole, OfLacks DEF Variable
<1>7. Sealed(b) => Value(s, "encrypted") = Encrypt(Keys(e, a, i), ConfigData(b))
  BY <1>1, OfSole DEF Variable
<1>8. Front(Encrypt(Keys(e, a, i), ConfigData(b)).text) = ConfigData(b)
  BY ConfigShape, EncryptShape
<1>9. Envelope(m) = [rnonce |-> Value(s, "rnonce"),
                     index |-> IF Has(s, "index") THEN Value(s, "index") ELSE None,
                     data |-> Front(Value(s, "encrypted").text), outer |-> s]
  BY DEF Envelope, s
<1>10. QED
  BY <1>3, <1>4, <1>5, <1>6, <1>7, <1>8, <1>9 DEF m, s

\* What no sender wrote is neither a tag nor a ciphertext.
\* It says of Noise what the constant is for; there are such values.
Symbolic == \A keys, data : Noise # Tag(keys, data) /\ Noise # Encrypt(keys, data)

LEMMA SymbolicIsPossible ==
  \E noise : \A keys, data : noise # Tag(keys, data) /\ noise # Encrypt(keys, data)
<1>1. \A keys, data : <<>> # Tag(keys, data) /\ <<>> # Encrypt(keys, data)
  BY DEF Tag, Encrypt
<1>2. QED
  BY <1>1

LEMMA WholeIsAuthentic ==
  ASSUME Symbolic, NEW e, NEW a, NEW b \in Bss, NEW i, Sealed(b)
  PROVE  Authentic(e, M2(e, a, b, i))
<1>. DEFINE m == M2(e, a, b, i)
            s == m.body
            cipher == Encrypt(Keys(e, a, i), ConfigData(b))
            tag == Tag(Keys(e, a, i), <<M1(e), Body(e, a, b, i)>>)
<1>1. /\ m.cut = FALSE /\ IsSeq(s) /\ Len(s) >= 5 /\ Len(s) \in Nat
      /\ Front(s) = Body(e, a, b, i) /\ Last(s) = At("authenticator", tag) /\ Sole(s, "authenticator", tag)
      /\ Header(s, e, a, i) /\ Variable(s, e, a, b, i)
      /\ b.index # None => s[Len(s) - 1] = At("index", b.index)
  <2>1. Shaped(m, e, a, b, i)
    BY M2Shape
  <2>. HIDE DEF m
  <2>2. IsBody(s) /\ Len(s) \in Nat
    BY <2>1, Extent DEF Shaped, IsBody
  <2>3. QED
    BY <2>1, <2>2 DEF Shaped, IsBody
<1>. HIDE DEF m
<1>. HIDE DEF s, tag, cipher
<1>2. Times(s, "authenticator") = 1 /\ s # <<>>
  BY <1>1, OfSole, EmptyIsSeq
<1>3. /\ Times(s, "type") = 1 /\ Times(s, "enonce") = 1 /\ Times(s, "rnonce") = 1
      /\ Times(s, "pubkey") = 1 /\ Value(s, "type") = 5 /\ Value(s, "enonce") = e
      /\ Value(s, "rnonce") = Nonce(a, i) /\ Value(s, "pubkey") = <<"registrar", a>>
  BY <1>1, OfSole DEF Header
<1>4. Times(s, "encrypted") = 1 /\ Has(s, "encrypted") /\ Value(s, "encrypted") = cipher
  BY <1>1, OfSole DEF Variable, cipher
<1>5. Times(s, "index") <= 1 /\ (Has(s, "index") => b.index # None)
  BY <1>1, OfSole, OfLacks DEF Variable
<1>6. WellFormedM2(s)
  <2>1. Has(s, "index") => Len(s) >= 2 /\ s[Len(s) - 1].k = "index"
    BY <1>1, <1>5 DEF At
  <2>2. \A k \in Required : Times(s, k) = 1
    BY <1>2, <1>3 DEF Required
  <2>3. \A k \in {"index", "encrypted"} : Times(s, k) <= 1
    BY <1>4, <1>5
  <2>4. QED
    BY <1>3, <2>1, <2>2, <2>3 DEF WellFormedM2
<1>7. Keys(e, a, i) = Derive(<<"enrollee", e>>, <<"registrar", a>>, e, Nonce(a, i))
  BY DEF Keys, Derive
<1>8. Verifies(Keys(e, a, i), M1(e), s)
  <2>1. Last(s).k = "authenticator" /\ Last(s).v = tag
    BY <1>1 DEF At
  <2>2. QED
    BY <1>1, <1>2, <2>1 DEF Verifies, Trailed, tag
<1>9. Decrypts(Keys(e, a, i), cipher)
  <2>1. cipher # Noise
    BY DEF Symbolic, cipher
  <2>2. QED
    BY <2>1, ConfigShape, EncryptShape DEF Decrypts, cipher
<1>10. Decodes(m)
  BY <1>1 DEF Decodes
<1>11. QED
  BY <1>3, <1>4, <1>6, <1>7, <1>8, <1>9, <1>10 DEF Authentic, m, s

-----------------------------------------------------------------------------
(***************************************************************************)
(* What the network makes of a payload, and what still verifies.           *)
(***************************************************************************)

\* The payload has some first attributes of the other, each as it was or noise.
Descends(p, m) ==
  /\ p = [body |-> p.body, cut |-> p.cut] /\ p.cut \in BOOLEAN
  /\ IsBody(p.body) /\ Len(p.body) \in 1..Len(m.body)
  /\ \A i \in 1..Len(p.body) :
       p.body[i] = m.body[i] \/ p.body[i] = At(m.body[i].k, Noise)

LEMMA OfAt == \A k, v : At(k, v).k = k /\ At(k, v).v = v
BY DEF At

LEMMA DamagedDescends ==
  ASSUME NEW m, NEW p, Descends(p, m), Len(m.body) \in Nat, NEW q \in Damaged(p)
  PROVE  Descends(q, m)
<1>. DEFINE s == p.body
<1>1. IsBody(s) /\ IsSeq(s) /\ p.cut \in BOOLEAN /\ Len(s) \in 1..Len(m.body) /\ Len(s) \in Nat
      /\ \A i \in 1..Len(s) : s[i] = m.body[i] \/ s[i] = At(m.body[i].k, Noise)
  BY DEF Descends, IsBody
<1>2. ASSUME NEW n \in 1..(Len(s) - 1), NEW c \in BOOLEAN, q = [body |-> SubSeq(s, 1, n), cut |-> c]
      PROVE  Descends(q, m)
  <2>. DEFINE t == SubSeq(s, 1, n)
  <2>1. IsSeq(t) /\ Len(t) = n /\ \A i \in 1..n : t[i] = s[i]
    BY <1>1, Shortened
  <2>2. q.body = t /\ q.cut = c /\ q = [body |-> t, cut |-> c]
    BY <1>2
  <2>. HIDE DEF t, s
  <2>3. n \in Nat /\ n \in 1..Len(m.body) /\ 1..n \subseteq 1..Len(s)
    BY <1>1
  <2>4. IsBody(t)
    BY <1>1, <2>1, <2>3 DEF IsBody
  <2>5. QED
    BY <1>1, <2>1, <2>2, <2>3, <2>4 DEF Descends
<1>3. ASSUME NEW i \in 1..Len(s), q = [body |-> [s EXCEPT ![i] = At(@.k, Noise)], cut |-> p.cut]
      PROVE  Descends(q, m)
  <2>. DEFINE x == At(s[i].k, Noise)
              t == [s EXCEPT ![i] = x]
  <2>1. q.body = t /\ q.cut = p.cut /\ q = [body |-> t, cut |-> p.cut]
    BY <1>3
  <2>. HIDE DEF s, x
  <2>2. IsSeq(t) /\ Len(t) = Len(s) /\ t[i] = x /\ \A j \in 1..Len(s) : j # i => t[j] = s[j]
    BY <1>1, Changed
  <2>. HIDE DEF t
  <2>3. s[i].k = m.body[i].k
    BY <1>1, OfAt
  <2>4. IsBody(t)
    <3>1. \A j \in 1..Len(t) : j \in 1..Len(s) /\ (t[j] = x \/ t[j] = s[j])
      BY <2>2
    <3>2. \A j \in 1..Len(t) : \E k, v : t[j] = At(k, v)
      BY <1>1, <3>1 DEF IsBody, x
    <3>3. QED
      BY <2>2, <3>2 DEF IsBody
  <2>5. \A j \in 1..Len(t) : t[j] = m.body[j] \/ t[j] = At(m.body[j].k, Noise)
    BY <1>1, <2>2, <2>3 DEF x
  <2>6. QED
    BY <1>1, <2>1, <2>2, <2>4, <2>5 DEF Descends
<1>4. QED
  BY <1>2, <1>3 DEF Damaged

LEMMA M1Known == ASSUME NEW e, NEW f, M1(e) = M1(f) PROVE e = f
<1>1. M1(e)[2] = At("enonce", e) /\ M1(f)[2] = At("enonce", f)
  BY DEF M1
<1>2. At("enonce", e).v = e /\ At("enonce", f).v = f
  BY DEF At
<1>3. QED
  BY <1>1, <1>2

\* A tag is on the last attribute, it is not noise, and it covers all before it.
LEMMA OnlyWholeVerifies ==
  ASSUME Symbolic, NEW e, NEW a, NEW b, NEW i,
         NEW p, Descends(p, M2(e, a, b, i)), Decodes(p),
         NEW f, NEW keys, Verifies(keys, M1(f), p.body)
  PROVE  p = M2(e, a, b, i) /\ f = e
<1>. DEFINE m == M2(e, a, b, i)
            s == p.body
            t == m.body
            n == Len(t)
            tag == Tag(Keys(e, a, i), <<M1(e), Front(t)>>)
<1>1. /\ m = [body |-> t, cut |-> FALSE] /\ IsSeq(t) /\ n \in Nat /\ n >= 5
      /\ t[n] = At("authenticator", tag)
      /\ \A j \in 1..(n - 1) : t[j].k # "authenticator"
  <2>1. Shaped(m, e, a, b, i)
    BY M2Shape
  <2>. HIDE DEF m
  <2>2. n - 1 = Len(Body(e, a, b, i))
    BY <2>1 DEF Shaped
  <2>3. QED
    BY <2>1, <2>2 DEF Shaped, IsBody
<1>2. /\ p = [body |-> s, cut |-> FALSE] /\ IsSeq(s) /\ Len(s) \in 1..n
      /\ \A j \in 1..Len(s) : s[j] = t[j] \/ s[j] = At(t[j].k, Noise)
  BY DEF Descends, Decodes, IsBody
<1>3. s[Len(s)].k = "authenticator" /\ s[Len(s)].v = Tag(keys, <<M1(f), Front(s)>>)
  BY DEF Verifies, Trailed, Last
<1>. HIDE DEF s, t, tag, m
<1>4. Len(s) = n
  <2>1. t[Len(s)].k = "authenticator"
    BY <1>2, <1>3, OfAt
  <2>2. QED
    BY <1>1, <1>2, <2>1
<1>5. s[n] = t[n]
  <2>1. s[n] # At(t[n].k, Noise)
    BY <1>3, <1>4 DEF At, Symbolic
  <2>2. QED
    BY <1>1, <1>2, <1>4, <2>1
<1>6. Front(s) = Front(t) /\ M1(f) = M1(e)
  <2>1. Tag(keys, <<M1(f), Front(s)>>) = tag
    BY <1>1, <1>3, <1>4, <1>5 DEF At
  <2>2. QED
    BY <2>1 DEF Tag, tag
<1>7. \A j \in 1..(n - 1) : s[j] = Front(s)[j] /\ t[j] = Front(t)[j]
  <2>1. n - 1 \in 1..(Len(s) - 1) /\ n - 1 \in 1..(Len(t) - 1)
    BY <1>1, <1>4
  <2>2. /\ \A j \in 1..(n - 1) : SubSeq(s, 1, n - 1)[j] = s[j]
        /\ \A j \in 1..(n - 1) : SubSeq(t, 1, n - 1)[j] = t[j]
    BY <1>1, <1>2, <2>1, Shortened
  <2>3. Front(s) = SubSeq(s, 1, n - 1) /\ Front(t) = SubSeq(t, 1, n - 1)
    BY <1>4 DEF Front
  <2>4. QED
    BY <2>2, <2>3
<1>8. \A j \in 1..n : s[j] = t[j]
  <2>1. \A j \in 1..n : j \in 1..(n - 1) \/ j = n
    BY <1>1
  <2>2. QED
    BY <1>5, <1>6, <1>7, <2>1
<1>9. s = t
  BY <1>1, <1>2, <1>4, <1>8, SameSeq
<1>10. QED
  BY <1>1, <1>2, <1>6, <1>9, M1Known DEF m

-----------------------------------------------------------------------------
(***************************************************************************)
(* The inductive invariant of Wsc: the answers are what the registrar      *)
(* makes, what is on the network descends from one of their payloads, and  *)
(* nothing is decoded but by the last step.                                *)
(***************************************************************************)

Answer(e, a, plan) ==
  [to |-> e, plan |-> plan, payloads |-> [i \in 1..Len(plan) |-> M2(e, a, plan[i], i)]]

Answered ==
  /\ IsSeq(meant) /\ Len(meant) <= MaxAnswers
  /\ \A a \in 1..Len(meant) : \E e \in 1..exchange, plan \in Plans : meant[a] = Answer(e, a, plan)

Traceable ==
  \A p \in sent : \E a \in 1..Len(meant) : \E i \in 1..Len(meant[a].plan) :
    Descends(p, meant[a].payloads[i])

Pending == result.from = <<>> => result.set = Refused /\ result.candidate = FALSE

Counted == exchange \in 1..MaxExchanges /\ damages \in 0..MaxDamages

Outcome ==
  /\ result.set.action \in {"refused", "teardown", "configure"}
  /\ result.candidate \in BOOLEAN

PayloadInv == Answered /\ Traceable /\ Pending /\ Counted /\ Outcome

LEMMA OfPlan ==
  ASSUME NEW plan \in Plans
  PROVE  /\ Len(plan) \in Nat \ {0} /\ DOMAIN plan = 1..Len(plan)
         /\ \A i \in 1..Len(plan) : plan[i] \in Bss
<1>1. plan \in Seq(Bss) /\ plan # <<>>
  BY WscAssumption
<1>2. QED
  BY <1>1, Extent, SeqIsSeq, ElementOfSeq

LEMMA OfAnswer ==
  ASSUME NEW e, NEW a, NEW plan \in Plans, NEW answer, answer = Answer(e, a, plan)
  PROVE  /\ answer.to = e /\ answer.plan = plan
         /\ DOMAIN answer.payloads = 1..Len(plan)
         /\ \A i \in 1..Len(plan) : answer.payloads[i] = M2(e, a, plan[i], i)
BY DEF Answer

\* The type of the state follows from the invariant.
LEMMA TypedByInv == ASSUME PayloadInv PROVE TypeOK
<1>1. \A a \in DOMAIN meant : meant[a].to \in 1..exchange /\ meant[a].plan \in Plans
  <2>1. TAKE a \in DOMAIN meant
  <2>2. a \in 1..Len(meant)
    BY Extent DEF PayloadInv, Answered
  <2>3. PICK e \in 1..exchange, plan \in Plans : meant[a] = Answer(e, a, plan)
    BY <2>2 DEF PayloadInv, Answered
  <2>4. QED
    BY <2>3, OfAnswer
<1>2. ASSUME NEW p \in sent
      PROVE  p.cut \in BOOLEAN /\ \A i \in 1..Len(p.body) : DOMAIN p.body[i] = {"k", "v"}
  <2>1. PICK m : Descends(p, m)
    BY DEF PayloadInv, Traceable
  <2>2. \A k, v : DOMAIN At(k, v) = {"k", "v"}
    BY DEF At
  <2>3. QED
    BY <2>1, <2>2 DEF Descends, IsBody
<1>3. QED
  BY <1>1, <1>2 DEF PayloadInv, Answered, Counted, Outcome, TypeOK

LEMMA PayloadInit == Init => PayloadInv
<1>1. 1 \in 1..MaxExchanges /\ 0 \in 0..MaxDamages /\ 0 <= MaxAnswers
  BY WscAssumption
<1>2. Refused.action = "refused"
  BY DEF Refused
<1>3. QED
  BY <1>1, <1>2, EmptyIsSeq
     DEF Init, PayloadInv, Answered, Traceable, Pending, Counted, Outcome

LEMMA CreateKeeps == ASSUME PayloadInv, Create PROVE PayloadInv'
<1>1. exchange' \in 1..MaxExchanges /\ 1..exchange \subseteq 1..exchange'
  BY WscAssumption DEF PayloadInv, Counted, Create
<1>2. UNCHANGED <<sent, meant, result, damages>>
  BY DEF Create
<1>3. Answered'
  BY <1>1, <1>2 DEF PayloadInv, Answered
<1>4. (Traceable /\ Pending /\ Outcome)'
  BY <1>2 DEF PayloadInv, Traceable, Pending, Outcome
<1>5. Counted'
  BY <1>1, <1>2 DEF PayloadInv, Counted
<1>6. QED
  BY <1>3, <1>4, <1>5 DEF PayloadInv

\* A payload descends from itself.
LEMMA SelfDescends == ASSUME NEW e, NEW a, NEW b, NEW i PROVE Descends(M2(e, a, b, i), M2(e, a, b, i))
<1>. DEFINE m == M2(e, a, b, i)
<1>1. Shaped(m, e, a, b, i)
  BY M2Shape
<1>. HIDE DEF m
<1>2. Len(m.body) \in 1..Len(m.body)
  BY <1>1 DEF Shaped
<1>3. m = [body |-> m.body, cut |-> m.cut] /\ m.cut \in BOOLEAN /\ IsBody(m.body)
  BY <1>1 DEF Shaped
<1>4. QED
  BY <1>2, <1>3 DEF Descends, m

LEMMA RespondKeeps == ASSUME PayloadInv, Respond PROVE PayloadInv'
<1>0. PICK e \in 1..exchange, plan \in Plans :
        LET a == Len(meant) + 1
            payloads == [i \in 1..Len(plan) |-> M2(e, a, plan[i], i)]
        IN  /\ meant' = Append(meant, [to |-> e, plan |-> plan, payloads |-> payloads])
            /\ sent' = sent \cup {payloads[i] : i \in 1..Len(plan)}
  BY DEF Respond
<1>1. /\ meant' = Append(meant, Answer(e, Len(meant) + 1, plan))
      /\ sent' = sent \cup {Answer(e, Len(meant) + 1, plan).payloads[i] : i \in 1..Len(plan)}
  <2>. DEFINE payloads == [i \in 1..Len(plan) |-> M2(e, Len(meant) + 1, plan[i], i)]
  <2>1. Answer(e, Len(meant) + 1, plan) = [to |-> e, plan |-> plan, payloads |-> payloads]
    BY DEF Answer
  <2>2. sent' = sent \cup {payloads[i] : i \in 1..Len(plan)}
    BY <1>0
  <2>. HIDE DEF payloads
  <2>3. Answer(e, Len(meant) + 1, plan).payloads = payloads
    BY <2>1
  <2>4. meant' = Append(meant, Answer(e, Len(meant) + 1, plan))
    BY <1>0, <2>1 DEF payloads
  <2>5. QED
    BY <2>2, <2>3, <2>4
<1>2. Len(meant) < MaxAnswers /\ UNCHANGED <<exchange, result, damages>>
  BY DEF Respond
<1>. DEFINE n == Len(meant)
            last == Answer(e, n + 1, plan)
<1>3. IsSeq(meant) /\ n \in Nat
  BY Extent DEF PayloadInv, Answered
<1>4. /\ IsSeq(meant') /\ Len(meant') = n + 1
      /\ \A a \in 1..n : meant'[a] = meant[a]
      /\ meant'[n + 1] = last
  <2>. HIDE DEF last
  <2>1. meant' = Append(meant, last)
    BY <1>1 DEF last
  <2>2. QED
    BY <1>3, <2>1, Appended
<1>5. /\ last.plan = plan
      /\ \A i \in 1..Len(plan) : last.payloads[i] = M2(e, n + 1, plan[i], i)
  BY OfAnswer
<1>. HIDE DEF last, n
<1>6. Answered'
  <2>1. \A a \in 1..(n + 1) : a \in 1..n \/ a = n + 1
    BY <1>3
  <2>2. ASSUME NEW a \in 1..n
        PROVE  \E e1 \in 1..exchange, plan1 \in Plans : meant'[a] = Answer(e1, a, plan1)
    BY <1>4 DEF PayloadInv, Answered, n
  <2>3. \E e1 \in 1..exchange, plan1 \in Plans : meant'[n + 1] = Answer(e1, n + 1, plan1)
    BY <1>4 DEF last
  <2>4. n + 1 <= MaxAnswers
    BY <1>2, <1>3, WscAssumption DEF n
  <2>5. QED
    BY <1>2, <1>4, <2>1, <2>2, <2>3, <2>4 DEF Answered
<1>7. Traceable'
  <2>1. ASSUME NEW p \in sent
        PROVE  \E a \in 1..(n + 1) : \E i \in 1..Len(meant'[a].plan) :
                 Descends(p, meant'[a].payloads[i])
    <3>1. PICK a \in 1..n : \E i \in 1..Len(meant[a].plan) : Descends(p, meant[a].payloads[i])
      BY DEF PayloadInv, Traceable, n
    <3>2. a \in 1..(n + 1) /\ meant'[a] = meant[a]
      BY <1>3, <1>4
    <3>3. QED
      BY <3>1, <3>2
  <2>2. ASSUME NEW i \in 1..Len(plan)
        PROVE  Descends(last.payloads[i], meant'[n + 1].payloads[i])
    BY <1>4, <1>5, SelfDescends
  <2>3. n + 1 \in 1..(n + 1)
    BY <1>3
  <2>4. ASSUME NEW p \in sent'
        PROVE  \E a \in 1..(n + 1) : \E i \in 1..Len(meant'[a].plan) :
                 Descends(p, meant'[a].payloads[i])
    <3>1. CASE p \in sent
      BY <2>1, <3>1
    <3>2. CASE \E i \in 1..Len(plan) : p = last.payloads[i]
      BY <1>4, <1>5, <2>2, <2>3, <3>2
    <3>3. sent' = sent \cup {last.payloads[i] : i \in 1..Len(plan)}
      BY <1>1 DEF last, n
    <3>4. QED
      BY <3>1, <3>2, <3>3
  <2>5. QED
    BY <1>4, <2>4 DEF Traceable
<1>8. (Pending /\ Counted /\ Outcome)'
  BY <1>2 DEF PayloadInv, Pending, Counted, Outcome
<1>9. QED
  BY <1>6, <1>7, <1>8 DEF PayloadInv

LEMMA DamageKeeps == ASSUME PayloadInv, Damage PROVE PayloadInv'
<1>0. PICK p \in sent : \E q \in Damaged(p) : sent' = (sent \ {p}) \cup {q}
  BY DEF Damage
<1>1. PICK q \in Damaged(p) : sent' = (sent \ {p}) \cup {q}
  BY <1>0
<1>2. UNCHANGED <<exchange, meant, result>> /\ damages' \in 0..MaxDamages
  BY WscAssumption DEF PayloadInv, Counted, Damage
<1>3. \E a \in 1..Len(meant) : \E i \in 1..Len(meant[a].plan) : Descends(q, meant[a].payloads[i])
  <2>0. PICK a \in 1..Len(meant) :
          \E i \in 1..Len(meant[a].plan) : Descends(p, meant[a].payloads[i])
    BY DEF PayloadInv, Traceable
  <2>1. PICK i \in 1..Len(meant[a].plan) : Descends(p, meant[a].payloads[i])
    BY <2>0
  <2>2. Len(meant[a].payloads[i].body) \in Nat
    <3>1. PICK e \in 1..exchange, plan \in Plans : meant[a] = Answer(e, a, plan)
      BY DEF PayloadInv, Answered
    <3>2. meant[a].payloads[i] = M2(e, a, plan[i], i)
      BY <2>1, <3>1, OfAnswer
    <3>3. Shaped(meant[a].payloads[i], e, a, plan[i], i)
      BY <3>2, M2Shape
    <3>4. QED
      BY <3>3 DEF Shaped
  <2>3. QED
    BY <2>1, <2>2, DamagedDescends
<1>4. Traceable'
  BY <1>1, <1>2, <1>3 DEF PayloadInv, Traceable
<1>5. QED
  BY <1>2, <1>4 DEF PayloadInv, Answered, Counted, Pending, Outcome

-----------------------------------------------------------------------------
(***************************************************************************)
(* What is decoded.                                                        *)
(***************************************************************************)

\* The envelope of an undamaged payload says what was meant by it.
LEMMA MeaningOf ==
  ASSUME NEW e, NEW a, NEW b \in Bss, NEW i, Sealed(b), NEW env, env = Envelope(M2(e, a, b, i))
  PROVE  /\ env.rnonce = Nonce(a, i) /\ env.index = b.index
         /\ RoleInside(env) <=> ~b.outside /\ b.inside = 1
         /\ RoleInside(env) => Value(env.data, "role") = b.role
         /\ Parses(env.data) <=> b.settings \in {"other", "psk"}
         /\ Parses(env.data) => Value(env.data, "security") = b.settings
<1>. DEFINE m == M2(e, a, b, i)
            s == ConfigData(b)
<1>1. /\ env = [rnonce |-> Nonce(a, i), index |-> b.index, data |-> s, outer |-> m.body]
      /\ Has(m.body, "role") <=> b.outside
  BY WholeEnvelope
<1>2. /\ Times(s, "role") = 1 <=> b.inside = 1
      /\ b.inside = 1 => Value(s, "role") = b.role
      /\ Parses(s) <=> b.settings \in {"other", "psk"}
      /\ Parses(s) => Value(s, "security") = b.settings
  BY ConfigShape
<1>. HIDE DEF m, s
<1>3. env.rnonce = Nonce(a, i) /\ env.index = b.index /\ env.data = s /\ env.outer = m.body
  BY <1>1
<1>4. QED
  BY <1>1, <1>2, <1>3 DEF RoleInside

LEMMA OfIndexed ==
  ASSUME NEW n \in Nat, NEW s, s = [i \in 1..n |-> s[i]] PROVE IsSeq(s) /\ Len(s) = n
<1>1. s \in [1..n -> {s[i] : i \in 1..n}]
  OBVIOUS
<1>2. s \in Seq({s[i] : i \in 1..n})
  BY <1>1, SeqDef
<1>3. QED
  BY <1>1, <1>2, LenProperties, SeqIsSeq

LEMMA OfEnvelopes ==
  ASSUME NEW payloads, IsSeq(payloads)
  PROVE  LET es == Envelopes(payloads)
         IN  /\ Len(es) = Len(payloads)
             /\ \A i \in 1..Len(payloads) : es[i] = Envelope(payloads[i])
<1>. DEFINE es == Envelopes(payloads)
<1>1. es = [i \in 1..Len(payloads) |-> Envelope(payloads[i])] /\ Len(payloads) \in Nat
  BY Extent DEF Envelopes
<1>. HIDE DEF es
<1>2. es = [i \in 1..Len(payloads) |-> es[i]]
  BY <1>1
<1>3. Len(es) = Len(payloads)
  BY <1>1, <1>2, OfIndexed
<1>4. QED
  BY <1>1, <1>3 DEF es

\* When a set is not refused, and what it then is.
LEMMA SetCases ==
  ASSUME NEW e, NEW payloads, IsSeq(payloads)
  PROVE  LET set == RadioPayloadSet(e, payloads)
             n == Len(payloads)
             Roles(i) == Value(Envelope(payloads[i]).data, "role")
             Sane == /\ Accepted(e, payloads)
                     /\ \A i \in 1..n : RoleInside(Envelope(payloads[i]))
             Ends == \E i \in 1..n : "teardown" \in Roles(i)
             Configures == ~Ends /\ \A i \in 1..n : Parses(Envelope(payloads[i]).data)
         IN  /\ set.action \in {"refused", "teardown", "configure"}
             /\ set.action = "teardown" <=> Sane /\ Ends /\ n = 1
             /\ set.action = "configure" <=> Sane /\ Configures
             /\ set.action = "configure" =>
                  set.bsses = [i \in 1..n |->
                    [role |-> Roles(i), index |-> Envelope(payloads[i]).index,
                     settings |-> Value(Envelope(payloads[i]).data, "security")]]
<1>. DEFINE es == Envelopes(payloads)
            n == Len(payloads)
            roles == [i \in 1..n |-> Value(es[i].data, "role")]
            bsses == [i \in 1..n |->
                       [role |-> roles[i], index |-> es[i].index,
                        settings |-> Value(es[i].data, "security")]]
            set == RadioPayloadSet(e, payloads)
            A == Accepted(e, payloads)
            R == \E i \in 1..n : ~RoleInside(es[i])
            T == \E i \in 1..n : "teardown" \in roles[i]
            P == \E i \in 1..n : ~Parses(es[i].data)
<1>1. Len(es) = n /\ \A i \in 1..n : es[i] = Envelope(payloads[i])
  BY OfEnvelopes
<1>2. set = IF ~A THEN Refused
            ELSE IF R THEN Refused
            ELSE IF T THEN IF n = 1 THEN [action |-> "teardown", bsses |-> <<>>] ELSE Refused
            ELSE IF P THEN Refused
            ELSE [action |-> "configure", bsses |-> bsses]
  BY <1>1 DEF RadioPayloadSet
<1>3. /\ \A i \in 1..n : roles[i] = Value(Envelope(payloads[i]).data, "role")
      /\ bsses = [i \in 1..n |->
           [role |-> Value(Envelope(payloads[i]).data, "role"), index |-> Envelope(payloads[i]).index,
            settings |-> Value(Envelope(payloads[i]).data, "security")]]
  BY <1>1
<1>4. /\ R <=> \E i \in 1..n : ~RoleInside(Envelope(payloads[i]))
      /\ T <=> \E i \in 1..n : "teardown" \in Value(Envelope(payloads[i]).data, "role")
      /\ P <=> \E i \in 1..n : ~Parses(Envelope(payloads[i]).data)
  BY <1>1, <1>3
<1>. HIDE DEF es, bsses, set, A, R, T, P, roles
<1>5. /\ set.action \in {"refused", "teardown", "configure"}
      /\ set.action = "teardown" <=> A /\ ~R /\ T /\ n = 1
      /\ set.action = "configure" <=> A /\ ~R /\ ~T /\ ~P
      /\ set.action = "configure" => set.bsses = bsses
  BY <1>2 DEF Refused
<1>6. QED
  BY <1>3, <1>4, <1>5 DEF set, A

\* The registrar made this payload, the one of number i in its answer a, for
\* the M1 of exchange e.
Made(e, a, i, p) ==
  /\ a \in 1..Len(meant) /\ i \in 1..Len(meant[a].plan)
  /\ meant[a].to = e /\ meant[a].plan \in Plans /\ meant[a].plan[i] \in Bss
  /\ p = meant[a].payloads[i] /\ p = M2(e, a, meant[a].plan[i], i)

LEMMA PayloadsAreMade ==
  ASSUME PayloadInv, NEW a \in 1..Len(meant)
  PROVE  /\ \A i \in 1..Len(meant[a].plan) : Made(meant[a].to, a, i, meant[a].payloads[i])
         /\ meant[a].plan \in Plans /\ meant[a].to \in 1..exchange
         /\ DOMAIN meant[a].payloads = 1..Len(meant[a].plan)
<1>1. PICK e \in 1..exchange, plan \in Plans : meant[a] = Answer(e, a, plan)
  BY DEF PayloadInv, Answered
<1>2. /\ meant[a].to = e /\ meant[a].plan = plan /\ DOMAIN meant[a].payloads = 1..Len(plan)
      /\ \A i \in 1..Len(plan) : meant[a].payloads[i] = M2(e, a, plan[i], i)
  BY <1>1, OfAnswer
<1>3. \A i \in 1..Len(plan) : plan[i] \in Bss
  BY OfPlan
<1>4. QED
  BY <1>2, <1>3 DEF Made

\* What is authenticated was made for this M1, and encrypted.
LEMMA AuthenticIsMade ==
  ASSUME Symbolic, PayloadInv, NEW p \in sent, NEW e, Authentic(e, p)
  PROVE  \E a \in 1..Len(meant) : \E i \in 1..Len(meant[a].plan) :
           Made(e, a, i, p) /\ Sealed(meant[a].plan[i])
<1>1. PICK a \in 1..Len(meant) :
        \E i \in 1..Len(meant[a].plan) : Descends(p, meant[a].payloads[i])
  BY DEF PayloadInv, Traceable
<1>2. PICK i \in 1..Len(meant[a].plan) : Descends(p, meant[a].payloads[i])
  BY <1>1
<1>. DEFINE f == meant[a].to
            b == meant[a].plan[i]
            m == meant[a].payloads[i]
<1>3. Made(f, a, i, m)
  BY <1>2, PayloadsAreMade
<1>4. b \in Bss /\ m = M2(f, a, b, i)
  BY <1>3 DEF Made
<1>. HIDE DEF f, b, m
<1>5. /\ Decodes(p) /\ Has(p.body, "encrypted")
      /\ \E keys : Verifies(keys, M1(e), p.body)
  BY DEF Authentic
<1>6. p = m /\ e = f
  <2>1. PICK keys : Verifies(keys, M1(e), p.body)
    BY <1>5
  <2>2. Descends(p, M2(f, a, b, i))
    BY <1>2, <1>4 DEF m
  <2>3. p = M2(f, a, b, i) /\ e = f
    BY <1>5, <2>1, <2>2, OnlyWholeVerifies
  <2>4. QED
    BY <1>4, <2>3
<1>7. Sealed(b)
  BY <1>4, <1>5, <1>6, WholeEnvelope
<1>8. QED
  BY <1>3, <1>6, <1>7 DEF b

\* Such a payload has a source, and means what it was made from.
LEMMA MadeMeans ==
  ASSUME PayloadInv, NEW a, NEW i, NEW p, Made(exchange, a, i, p)
  PROVE  Sources(p) # {} /\ Means(p, meant[a].plan[i])
<1>1. /\ a \in DOMAIN meant /\ i \in DOMAIN meant[a].plan
      /\ meant[a].to = exchange /\ meant[a].payloads[i] = p
  BY Extent, OfPlan DEF Made, PayloadInv, Answered
<1>2. <<a, i>> \in UNION {{c} \X DOMAIN meant[c].plan : c \in DOMAIN meant}
  BY <1>1
<1>3. <<a, i>> \in Sources(p)
  BY <1>1, <1>2 DEF Sources
<1>4. <<a, i>>[1] = a /\ <<a, i>>[2] = i
  OBVIOUS
<1>5. Means(p, meant[a].plan[i])
  BY <1>3, <1>4 DEF Means
<1>6. QED
  BY <1>3, <1>5

\* Payloads that a Decode takes.
LEMMA Arrived ==
  ASSUME NEW n \in 1..(MaxBss + 1), NEW S, NEW payloads \in [1..n -> S]
  PROVE  /\ IsSeq(payloads) /\ Len(payloads) = n /\ n \in Nat /\ payloads # <<>>
         /\ DOMAIN payloads = 1..n
<1>1. n \in Nat /\ n # 0
  BY WscAssumption
<1>2. payloads \in Seq(S)
  BY <1>1, SeqDef
<1>3. Len(payloads) = n
  BY <1>1, <1>2, LenProperties
<1>4. payloads # <<>>
  BY <1>1, <1>3, EmptyIsSeq
<1>5. QED
  BY <1>1, <1>2, <1>3, <1>4, SeqIsSeq

LEMMA DecodeKeeps == ASSUME PayloadInv, Decode PROVE PayloadInv'
<1>0. PICK n \in 1..(MaxBss + 1) : \E payloads \in [1..n -> sent] :
        result' = [from |-> payloads, set |-> RadioPayloadSet(exchange, payloads),
                   candidate |-> Candidate(RadioPayloadSet(exchange, payloads))]
  BY DEF Decode
<1>1. PICK payloads \in [1..n -> sent] :
        result' = [from |-> payloads, set |-> RadioPayloadSet(exchange, payloads),
                   candidate |-> Candidate(RadioPayloadSet(exchange, payloads))]
  BY <1>0
<1>2. UNCHANGED <<exchange, sent, meant, damages>>
  BY DEF Decode
<1>. DEFINE set == RadioPayloadSet(exchange, payloads)
<1>3. IsSeq(payloads) /\ payloads # <<>>
  BY Arrived
<1>4. set.action \in {"refused", "teardown", "configure"}
  BY <1>3, SetCases
<1>. HIDE DEF set
<1>5. result'.from = payloads /\ result'.set = set /\ result'.candidate = Candidate(set)
  BY <1>1 DEF set
<1>6. Candidate(set) \in BOOLEAN
  BY DEF Candidate
<1>7. (Pending /\ Outcome)'
  BY <1>3, <1>4, <1>5, <1>6 DEF Pending, Outcome
<1>8. (Answered /\ Traceable /\ Counted)'
  BY <1>2 DEF PayloadInv, Answered, Traceable, Counted
<1>9. QED
  BY <1>7, <1>8 DEF PayloadInv

LEMMA PayloadKept == PayloadInv /\ [Next]_vars => PayloadInv'
<1>1. ASSUME PayloadInv, UNCHANGED vars PROVE PayloadInv'
  BY <1>1 DEF vars, PayloadInv, Answered, Traceable, Pending, Counted, Outcome
<1>2. QED
  BY <1>1, CreateKeeps, RespondKeeps, DamageKeeps, DecodeKeeps DEF Next

\* One authentic payload: the Bss that was meant by it.
LEMMA AuthenticMeans ==
  ASSUME Symbolic, PayloadInv, NEW p \in sent, Authentic(exchange, p)
  PROVE  /\ Sources(p) # {}
         /\ \E b \in Bss : LET env == Envelope(p)
                           IN  /\ Means(p, b) /\ env.index = b.index
                               /\ RoleInside(env) => ~b.outside /\ Value(env.data, "role") = b.role
                               /\ Parses(env.data) => Value(env.data, "security") = b.settings
<1>1. PICK a \in 1..Len(meant) : \E i \in 1..Len(meant[a].plan) :
        Made(exchange, a, i, p) /\ Sealed(meant[a].plan[i])
  BY AuthenticIsMade
<1>2. PICK i \in 1..Len(meant[a].plan) : Made(exchange, a, i, p) /\ Sealed(meant[a].plan[i])
  BY <1>1
<1>. DEFINE b == meant[a].plan[i]
            env == Envelope(p)
<1>3. Sources(p) # {} /\ Means(p, b)
  BY <1>2, MadeMeans
<1>4. b \in Bss /\ p = M2(exchange, a, b, i) /\ Sealed(b)
  BY <1>2 DEF Made
<1>. HIDE DEF b
<1>5. env = Envelope(M2(exchange, a, b, i))
  BY <1>4
<1>. HIDE DEF env
<1>6. /\ env.index = b.index
      /\ RoleInside(env) => ~b.outside /\ Value(env.data, "role") = b.role
      /\ Parses(env.data) => Value(env.data, "security") = b.settings
  BY <1>4, <1>5, MeaningOf
<1>7. QED
  BY <1>3, <1>4, <1>6 DEF env

\* Payloads with different nonces are different.
LEMMA DistinctAreDifferent ==
  ASSUME NEW n \in Nat, NEW S, NEW payloads \in [1..n -> S], IsSeq(payloads), Len(payloads) = n,
         Distinct(Envelopes(payloads))
  PROVE  IsInjective(payloads)
<1>. DEFINE es == Envelopes(payloads)
            nonces == [i \in 1..n |-> es[i].rnonce]
<1>1. Len(es) = n /\ \A i \in 1..n : es[i] = Envelope(payloads[i])
  BY OfEnvelopes
<1>2. IsInjective(nonces)
  BY <1>1 DEF Distinct
<1>. HIDE DEF es
<1>3. \A i, j \in 1..n : nonces[i] = nonces[j] => i = j
  BY <1>2 DEF IsInjective
<1>4. \A i, j \in 1..n : payloads[i] = payloads[j] => nonces[i] = nonces[j]
  BY <1>1
<1>. HIDE DEF nonces
<1>5. QED
  BY <1>3, <1>4 DEF IsInjective

\* What is decoded from n payloads is what the registrar meant by them.
DecodedMeans(n, payloads, set) ==
  /\ IsInjective(payloads)
  /\ \A i \in 1..n : Sources(payloads[i]) # {}
  /\ set.action = "teardown" =>
       \A i \in 1..n : \E b \in Bss : Means(payloads[i], b) /\ "teardown" \in b.role
  /\ set.action = "configure" =>
       /\ Len(set.bsses) = n
       /\ \A i \in 1..n : \E b \in Bss :
            /\ Means(payloads[i], b) /\ ~b.outside
            /\ set.bsses[i] = [role |-> b.role, index |-> b.index, settings |-> b.settings]

LEMMA DecodedIsMeant ==
  ASSUME Symbolic, PayloadInv, NEW n \in 1..(MaxBss + 1), NEW payloads \in [1..n -> sent],
         NEW set, set = RadioPayloadSet(exchange, payloads), set.action # "refused"
  PROVE  DecodedMeans(n, payloads, set)
<1>1. IsSeq(payloads) /\ Len(payloads) = n /\ n \in Nat
  BY Arrived
<1>. DEFINE Env(i) == Envelope(payloads[i])
            R(i) == Value(Env(i).data, "role")
<1>2. /\ set.action \in {"teardown", "configure"}
      /\ Accepted(exchange, payloads) /\ \A i \in 1..n : RoleInside(Env(i))
      /\ set.action = "teardown" => n = 1 /\ \E i \in 1..n : "teardown" \in R(i)
      /\ set.action = "configure" =>
           /\ \A i \in 1..n : Parses(Env(i).data)
           /\ set.bsses = [i \in 1..n |->
                [role |-> R(i), index |-> Env(i).index, settings |-> Value(Env(i).data, "security")]]
  <2>1. set.action \in {"teardown", "configure"}
    BY <1>1, SetCases
  <2>2. set.action = "teardown" =>
          /\ Accepted(exchange, payloads) /\ \A i \in 1..n : RoleInside(Env(i))
          /\ n = 1 /\ \E i \in 1..n : "teardown" \in R(i)
    BY <1>1, SetCases
  <2>3. set.action = "configure" =>
          /\ Accepted(exchange, payloads)
          /\ \A i \in 1..n : RoleInside(Env(i)) /\ Parses(Env(i).data)
    BY <1>1, SetCases
  <2>4. set.action = "configure" =>
          set.bsses = [i \in 1..n |->
            [role |-> R(i), index |-> Env(i).index, settings |-> Value(Env(i).data, "security")]]
    BY <1>1, SetCases
  <2>. HIDE DEF R, Env
  <2>5. QED
    BY <2>1, <2>2, <2>3, <2>4
<1>3. \A i \in 1..n : Authentic(exchange, payloads[i]) /\ payloads[i] \in sent
  BY <1>1, <1>2 DEF Accepted
<1>4. IsInjective(payloads)
  BY <1>1, <1>2, DistinctAreDifferent DEF Accepted
<1>5. \A i \in 1..n : Sources(payloads[i]) # {}
  BY <1>3, AuthenticMeans
<1>6. \A i \in 1..n : \E b \in Bss :
        /\ Means(payloads[i], b) /\ Env(i).index = b.index
        /\ ~b.outside /\ R(i) = b.role
        /\ Parses(Env(i).data) => Value(Env(i).data, "security") = b.settings
  BY <1>2, <1>3, AuthenticMeans
<1>7. ASSUME set.action = "teardown"
      PROVE  \A i \in 1..n : \E b \in Bss : Means(payloads[i], b) /\ "teardown" \in b.role
  <2>1. \A i \in 1..n : "teardown" \in R(i)
    BY <1>2, <1>7
  <2>. HIDE DEF R
  <2>2. QED
    BY <1>6, <2>1
<1>8. ASSUME set.action = "configure"
      PROVE  /\ Len(set.bsses) = n
             /\ \A i \in 1..n : \E b \in Bss :
                  /\ Means(payloads[i], b) /\ ~b.outside
                  /\ set.bsses[i] = [role |-> b.role, index |-> b.index, settings |-> b.settings]
  <2>1. \A i \in 1..n :
          set.bsses[i] = [role |-> R(i), index |-> Env(i).index,
                          settings |-> Value(Env(i).data, "security")]
    BY <1>2, <1>8
  <2>2. set.bsses = [i \in 1..n |-> set.bsses[i]]
    BY <1>2, <1>8
  <2>3. \A i \in 1..n : Parses(Env(i).data)
    BY <1>2, <1>8
  <2>. HIDE DEF R, Env
  <2>4. Len(set.bsses) = n
    BY <1>1, <2>2, OfIndexed
  <2>5. ASSUME NEW i \in 1..n
        PROVE  \E b \in Bss :
                 /\ Means(payloads[i], b) /\ ~b.outside
                 /\ set.bsses[i] = [role |-> b.role, index |-> b.index, settings |-> b.settings]
    <3>1. PICK b \in Bss :
            /\ Means(payloads[i], b) /\ Env(i).index = b.index
            /\ ~b.outside /\ R(i) = b.role
            /\ Parses(Env(i).data) => Value(Env(i).data, "security") = b.settings
      BY <1>6
    <3>2. Value(Env(i).data, "security") = b.settings
      BY <2>3, <3>1
    <3>3. set.bsses[i] = [role |-> b.role, index |-> b.index, settings |-> b.settings]
      BY <2>1, <3>1, <3>2
    <3>4. QED
      BY <3>1, <3>3
  <2>6. QED
    BY <2>4, <2>5
<1>9. QED
  BY <1>4, <1>5, <1>7, <1>8 DEF DecodedMeans

LEMMA CandidateIsMeant ==
  ASSUME Symbolic, PayloadInv, NEW n \in 1..(MaxBss + 1), NEW payloads \in [1..n -> sent],
         NEW set, set = RadioPayloadSet(exchange, payloads), Candidate(set)
  PROVE  /\ n = 1
         /\ \E b \in Bss : Means(payloads[1], b) /\ b.role = {"fronthaul"} /\ b.settings = "psk"
<1>1. /\ set.action = "configure" /\ Len(set.bsses) = 1
      /\ set.bsses[1].role = {"fronthaul"} /\ set.bsses[1].settings = "psk"
  BY DEF Candidate
<1>2. /\ Len(set.bsses) = n
      /\ \A i \in 1..n : \E b \in Bss :
           /\ Means(payloads[i], b) /\ ~b.outside
           /\ set.bsses[i] = [role |-> b.role, index |-> b.index, settings |-> b.settings]
  <2>1. DecodedMeans(n, payloads, set)
    BY <1>1, DecodedIsMeant
  <2>2. QED
    BY <1>1, <2>1 DEF DecodedMeans
<1>3. n = 1 /\ 1 \in 1..n
  BY <1>1, <1>2, Arrived
<1>4. PICK b \in Bss :
        /\ Means(payloads[1], b)
        /\ set.bsses[1] = [role |-> b.role, index |-> b.index, settings |-> b.settings]
  BY <1>2, <1>3
<1>5. QED
  BY <1>1, <1>3, <1>4

LEMMA DecodeMeans == ASSUME Symbolic, PayloadInv, Decode PROVE ResultIsMeant'
<1>0. PICK n \in 1..(MaxBss + 1) : \E payloads \in [1..n -> sent] :
        result' = [from |-> payloads, set |-> RadioPayloadSet(exchange, payloads),
                   candidate |-> Candidate(RadioPayloadSet(exchange, payloads))]
  BY DEF Decode
<1>1. PICK payloads \in [1..n -> sent] :
        result' = [from |-> payloads, set |-> RadioPayloadSet(exchange, payloads),
                   candidate |-> Candidate(RadioPayloadSet(exchange, payloads))]
  BY <1>0
<1>2. UNCHANGED <<exchange, meant>>
  BY DEF Decode
<1>3. PICK set : set = RadioPayloadSet(exchange, payloads)
  OBVIOUS
<1>4. result'.from = payloads /\ result'.set = set /\ result'.candidate = Candidate(set)
  BY <1>1, <1>3
<1>5. /\ Len(payloads) = n /\ DOMAIN payloads = 1..n
      /\ set.action \in {"refused", "teardown", "configure"}
  BY <1>3, Arrived, SetCases
<1>6. TypeOK'
  <2>1. PayloadInv'
    BY DecodeKeeps
  <2>2. QED
    BY <2>1, TypedByInv, PTL
<1>7. ASSUME set.action # "refused"
      PROVE  /\ IsInjective(payloads)
             /\ \A i \in 1..n : Sources(payloads[i]) # {}
             /\ set.action = "teardown" =>
                  \A i \in 1..n : \E b \in Bss : Means(payloads[i], b) /\ "teardown" \in b.role
             /\ set.action # "teardown" =>
                  /\ Len(set.bsses) = Len(payloads)
                  /\ \A i \in 1..n : \E b \in Bss :
                       /\ Means(payloads[i], b) /\ ~b.outside
                       /\ set.bsses[i] = [role |-> b.role, index |-> b.index, settings |-> b.settings]
  <2>1. set.action = "teardown" \/ set.action = "configure"
    BY <1>5, <1>7
  <2>2. DecodedMeans(n, payloads, set)
    BY <1>3, <1>7, DecodedIsMeant
  <2>3. QED
    BY <1>5, <2>1, <2>2 DEF DecodedMeans
<1>8. Candidate(set) =>
        /\ Len(payloads) = 1
        /\ \E b \in Bss : Means(payloads[1], b) /\ b.role = {"fronthaul"} /\ b.settings = "psk"
  BY <1>3, <1>5, CandidateIsMeant
<1>9. \A p, b : (Means(p, b)' <=> Means(p, b)) /\ Sources(p)' = Sources(p)
  BY <1>2 DEF Means, Sources
<1>10. QED
  BY <1>4, <1>5, <1>6, <1>7, <1>8, <1>9 DEF ResultIsMeant

\* Until then there is nothing to mean.
LEMMA PendingIsMeant == ASSUME PayloadInv, result.from = <<>> PROVE ResultIsMeant
<1>1. result.set.action = "refused" /\ result.candidate = FALSE
  BY DEF PayloadInv, Pending, Refused
<1>2. QED
  BY <1>1, TypedByInv DEF ResultIsMeant

LEMMA StillMeant ==
  Symbolic /\ PayloadInv /\ ResultIsMeant /\ [Next]_vars => ResultIsMeant'
<1>. SUFFICES ASSUME Symbolic, PayloadInv, ResultIsMeant, [Next]_vars PROVE ResultIsMeant'
  OBVIOUS
<1>1. CASE Decode
  BY <1>1, DecodeMeans
<1>2. CASE result.from = <<>> /\ (Create \/ Respond \/ Damage)
  <2>1. result' = result
    BY <1>2 DEF Create, Respond, Damage
  <2>2. PayloadInv' /\ (result.from = <<>>)'
    BY <1>2, <2>1, PayloadKept
  <2>3. QED
    BY <2>2, PendingIsMeant, PTL
<1>3. CASE UNCHANGED vars
  BY <1>3 DEF vars, ResultIsMeant, TypeOK, Means, Sources
<1>4. QED
  BY <1>1, <1>2, <1>3 DEF Next

\* Whatever decode_radio_payloads returns stands for different undamaged payloads that
\* were made for the current M1, and says what was meant by them, in their order:
\* the authenticator covers the transcript and every attribute before it.
THEOREM ResultsAreMeant == Symbolic => (Spec => []ResultIsMeant)
<1>. SUFFICES ASSUME Symbolic PROVE Spec => []ResultIsMeant
  OBVIOUS
<1>1. Init => PayloadInv /\ ResultIsMeant
  BY PayloadInit, PendingIsMeant DEF Init
<1>2. PayloadInv /\ ResultIsMeant /\ [Next]_vars => (PayloadInv /\ ResultIsMeant)'
  BY PayloadKept, StillMeant
<1>3. QED
  BY <1>1, <1>2, PTL DEF Spec

\* The payloads of an answer have different nonces, so as many that are all of
\* them are each of them once: the place in the answer of each that arrived.
LEMMA Permuted ==
  ASSUME PayloadInv, NEW a \in 1..Len(meant), NEW n, n = Len(meant[a].plan),
         NEW payloads, IsSeq(payloads), Len(payloads) = n,
         ToSet(payloads) = ToSet(meant[a].payloads)
  PROVE  \E at \in [1..n -> 1..n] :
           /\ \A i \in 1..n : Made(meant[a].to, a, at[i], payloads[i])
           /\ \A i, j \in 1..n : at[i] = at[j] => i = j
<1>. DEFINE e == meant[a].to
            m == meant[a].payloads
            at == [i \in 1..n |-> CHOOSE k \in 1..n : payloads[i] = m[k]]
<1>1. /\ \A k \in 1..n : Made(e, a, k, m[k])
      /\ DOMAIN m = 1..n /\ n \in Nat /\ DOMAIN payloads = 1..n
  BY PayloadsAreMade, OfPlan, Extent
<1>2. \A k, l \in 1..n : m[k] = m[l] => k = l
  <2>1. \A k \in 1..n : Value(m[k].body, "rnonce") = Nonce(a, k)
    BY <1>1, WholeEnvelope DEF Made
  <2>2. QED
    BY <2>1 DEF Nonce
<1>3. /\ \A i \in 1..n : \E k \in 1..n : payloads[i] = m[k]
      /\ \A k \in 1..n : \E i \in 1..n : payloads[i] = m[k]
  <2>1. /\ ToSet(payloads) = {payloads[i] : i \in 1..n}
        /\ ToSet(m) = {m[k] : k \in 1..n}
    BY <1>1 DEF ToSet
  <2>. HIDE DEF m
  <2>2. {payloads[i] : i \in 1..n} = {m[k] : k \in 1..n}
    BY <2>1 DEF m
  <2>3. QED
    BY <2>2
<1>4. at \in [1..n -> 1..n] /\ \A i \in 1..n : payloads[i] = m[at[i]]
  BY <1>3
<1>. HIDE DEF at, m, e
<1>5. ASSUME NEW k \in 1..n PROVE \E i \in 1..n : at[i] = k
  <2>1. PICK i \in 1..n : payloads[i] = m[k]
    BY <1>3
  <2>2. at[i] \in 1..n /\ m[at[i]] = m[k]
    BY <1>4, <2>1
  <2>3. QED
    BY <1>2, <2>1, <2>2
<1>6. at \in Injection(1..n, 1..n)
  <2>1. at \in Surjection(1..n, 1..n)
    BY <1>4, <1>5 DEF Surjection
  <2>2. IsFiniteSet(1..n)
    <3>1. n \in Int /\ 1 \in Int
      BY <1>1
    <3>2. QED
      BY <3>1, FS_Interval
  <2>3. QED
    BY <2>1, <2>2, FS_SurjSameCardinalityImpliesInj
<1>7. \A i, j \in 1..n : at[i] = at[j] => i = j
  BY <1>4, <1>6 DEF Injection, IsInjective
<1>8. \A i \in 1..n : Made(e, a, at[i], payloads[i])
  BY <1>1, <1>4
<1>9. QED
  BY <1>4, <1>7, <1>8 DEF e

LEMMA WholeIsTaken ==
  ASSUME Symbolic, PayloadInv, NEW n \in 1..(MaxBss + 1), NEW payloads \in [1..n -> sent],
         NEW set, set = RadioPayloadSet(exchange, payloads),
         NEW a \in 1..Len(meant), meant[a].to = exchange, Legitimate(meant[a].plan),
         n = Len(meant[a].plan), ToSet(payloads) = ToSet(meant[a].payloads)
  PROVE  set.action # "refused"
<1>. DEFINE plan == meant[a].plan
            Env(i) == Envelope(payloads[i])
            R(i) == Value(Env(i).data, "role")
<1>1. IsSeq(payloads) /\ Len(payloads) = n /\ n \in Nat
  BY Arrived
<1>2. PICK at \in [1..n -> 1..n] :
        /\ \A i \in 1..n : Made(exchange, a, at[i], payloads[i])
        /\ \A i, j \in 1..n : at[i] = at[j] => i = j
  <2>1. \E at \in [1..n -> 1..n] :
          /\ \A i \in 1..n : Made(meant[a].to, a, at[i], payloads[i])
          /\ \A i, j \in 1..n : at[i] = at[j] => i = j
    <3>. HIDE DEF plan, Env, R
    <3>1. QED
      BY <1>1, Permuted
  <2>2. QED
    BY <2>1
<1>3. DOMAIN plan = 1..n /\ \A k \in 1..n : plan[k] \in Bss
  BY OfPlan, PayloadsAreMade
<1>4. /\ n <= MaxBss
      /\ \A k \in 1..n : plan[k].inside = 1 /\ ~plan[k].outside
      /\ \A k, l \in 1..n : k # l /\ plan[k].index = plan[l].index => plan[k].index = None
      /\ \/ n = 1 /\ "teardown" \in plan[1].role
         \/ \A k \in 1..n : "teardown" \notin plan[k].role /\ plan[k].settings \in {"other", "psk"}
  BY <1>3 DEF Legitimate
<1>5. \A i \in 1..n : /\ at[i] \in 1..n /\ Sealed(plan[at[i]])
                      /\ payloads[i] = M2(exchange, a, plan[at[i]], at[i])
  <2>1. TAKE i \in 1..n
  <2>2. at[i] \in 1..n /\ Made(exchange, a, at[i], payloads[i])
    BY <1>2
  <2>3. payloads[i] = M2(exchange, a, plan[at[i]], at[i])
    BY <2>2 DEF Made
  <2>4. plan[at[i]].inside = 1
    BY <1>4, <2>2
  <2>. HIDE DEF plan
  <2>5. QED
    BY <2>2, <2>3, <2>4 DEF Sealed
<1>. HIDE DEF plan
<1>6. ASSUME NEW i \in 1..n PROVE Authentic(exchange, payloads[i])
  <2>1. PICK b \in Bss : b = plan[at[i]]
    BY <1>3, <1>5
  <2>2. Sealed(b) /\ payloads[i] = M2(exchange, a, b, at[i])
    BY <1>5, <2>1
  <2>3. Authentic(exchange, M2(exchange, a, b, at[i]))
    BY <2>2, WholeIsAuthentic
  <2>4. QED
    BY <2>2, <2>3
<1>7. \A i \in 1..n :
        /\ Env(i).rnonce = Nonce(a, at[i]) /\ Env(i).index = plan[at[i]].index
        /\ RoleInside(Env(i)) /\ R(i) = plan[at[i]].role
        /\ Parses(Env(i).data) <=> plan[at[i]].settings \in {"other", "psk"}
  <2>1. TAKE i \in 1..n
  <2>2. PICK b \in Bss : b = plan[at[i]]
    BY <1>3, <1>5
  <2>3. /\ Sealed(b) /\ payloads[i] = M2(exchange, a, b, at[i])
        /\ b.inside = 1 /\ ~b.outside
    BY <1>4, <1>5, <2>2
  <2>4. PICK env : env = Env(i)
    OBVIOUS
  <2>5. env = Envelope(M2(exchange, a, b, at[i]))
    BY <2>3, <2>4
  <2>6. /\ env.rnonce = Nonce(a, at[i]) /\ env.index = b.index
        /\ RoleInside(env) <=> ~b.outside /\ b.inside = 1
        /\ RoleInside(env) => Value(env.data, "role") = b.role
        /\ Parses(env.data) <=> b.settings \in {"other", "psk"}
    BY <2>3, <2>5, MeaningOf
  <2>7. QED
    BY <2>2, <2>3, <2>4, <2>6
<1>8. Accepted(exchange, payloads)
  <2>. DEFINE es == Envelopes(payloads)
              nonces == [i \in 1..n |-> es[i].rnonce]
  <2>1. Len(es) = n /\ \A i \in 1..n : es[i] = Env(i)
    BY <1>1, OfEnvelopes
  <2>. HIDE DEF es, Env
  <2>2. IsInjective(nonces)
    BY <1>2, <1>7, <2>1 DEF IsInjective, Nonce
  <2>3. \A i, j \in 1..n : i # j /\ es[i].index = es[j].index => es[i].index = None
    <3>1. \A i \in 1..n : es[i].index = plan[at[i]].index /\ at[i] \in 1..n
      BY <1>7, <2>1
    <3>2. TAKE i, j \in 1..n
    <3>3. i # j => at[i] # at[j]
      BY <1>2
    <3>4. i # j /\ plan[at[i]].index = plan[at[j]].index => plan[at[i]].index = None
      BY <1>4, <3>1, <3>3
    <3>5. es[i].index = plan[at[i]].index /\ es[j].index = plan[at[j]].index
      BY <3>1
    <3>6. QED
      BY <3>4, <3>5
  <2>4. Distinct(es)
    BY <2>1, <2>2, <2>3 DEF Distinct
  <2>5. Len(payloads) \in 1..MaxBss
    BY <1>1, <1>4, WscAssumption
  <2>6. QED
    BY <1>1, <1>6, <2>4, <2>5 DEF Accepted, es
<1>9. CASE n = 1 /\ "teardown" \in plan[1].role
  <2>1. 1 \in 1..n /\ "teardown" \in R(1)
    BY <1>2, <1>7, <1>9
  <2>2. set.action = "teardown"
    BY <1>1, <1>7, <1>8, <1>9, <2>1, SetCases
  <2>3. QED
    BY <2>2
<1>10. CASE \A k \in 1..n : "teardown" \notin plan[k].role /\ plan[k].settings \in {"other", "psk"}
  <2>1. ASSUME NEW i \in 1..n
        PROVE  "teardown" \notin R(i) /\ Parses(Env(i).data) /\ RoleInside(Env(i))
    <3>1. at[i] \in 1..n
      BY <1>5
    <3>2. "teardown" \notin plan[at[i]].role /\ plan[at[i]].settings \in {"other", "psk"}
      BY <1>10, <3>1
    <3>. HIDE DEF Env
    <3>3. QED
      BY <1>7, <3>2
  <2>2. set.action = "configure"
    BY <1>1, <1>8, <2>1, SetCases
  <2>3. QED
    BY <2>2
<1>11. QED
  BY <1>4, <1>9, <1>10

LEMMA DecodeTakes == ASSUME Symbolic, PayloadInv, Decode PROVE WholeIsAccepted'
<1>0. PICK n \in 1..(MaxBss + 1) : \E payloads \in [1..n -> sent] :
        result' = [from |-> payloads, set |-> RadioPayloadSet(exchange, payloads),
                   candidate |-> Candidate(RadioPayloadSet(exchange, payloads))]
  BY DEF Decode
<1>1. PICK payloads \in [1..n -> sent] :
        result' = [from |-> payloads, set |-> RadioPayloadSet(exchange, payloads),
                   candidate |-> Candidate(RadioPayloadSet(exchange, payloads))]
  BY <1>0
<1>2. UNCHANGED <<exchange, meant>> /\ DOMAIN meant = 1..Len(meant) /\ Len(payloads) = n
  BY Extent, Arrived DEF Decode, PayloadInv, Answered
<1>3. PICK set : set = RadioPayloadSet(exchange, payloads)
  OBVIOUS
<1>4. result'.from = payloads /\ result'.set = set
  BY <1>1, <1>3
<1>5. ASSUME NEW a \in DOMAIN meant, meant[a].to = exchange, Legitimate(meant[a].plan),
             n = Len(meant[a].plan), ToSet(payloads) = ToSet(meant[a].payloads)
      PROVE  set.action # "refused"
  BY <1>2, <1>3, <1>5, WholeIsTaken
<1>6. QED
  BY <1>2, <1>4, <1>5 DEF WholeIsAccepted

\* Until then nothing has arrived, and no answer is empty.
LEMMA PendingIsAccepted == ASSUME PayloadInv, result.from = <<>> PROVE WholeIsAccepted
<1>1. ASSUME NEW a \in DOMAIN meant PROVE Len(result.from) # Len(meant[a].plan)
  <2>1. a \in 1..Len(meant)
    BY Extent DEF PayloadInv, Answered
  <2>2. Len(meant[a].plan) # 0
    BY <2>1, PayloadsAreMade, OfPlan
  <2>3. QED
    BY <2>2, EmptyIsSeq
<1>2. QED
  BY <1>1 DEF WholeIsAccepted

LEMMA StillAccepted ==
  Symbolic /\ PayloadInv /\ WholeIsAccepted /\ [Next]_vars => WholeIsAccepted'
<1>. SUFFICES ASSUME Symbolic, PayloadInv, WholeIsAccepted, [Next]_vars PROVE WholeIsAccepted'
  OBVIOUS
<1>1. CASE Decode
  BY <1>1, DecodeTakes
<1>2. CASE result.from = <<>> /\ (Create \/ Respond \/ Damage)
  <2>1. result' = result
    BY <1>2 DEF Create, Respond, Damage
  <2>2. PayloadInv' /\ (result.from = <<>>)'
    BY <1>2, <2>1, PayloadKept
  <2>3. QED
    BY <2>2, PendingIsAccepted, PTL
<1>3. CASE UNCHANGED vars
  BY <1>3 DEF vars, WholeIsAccepted
<1>4. QED
  BY <1>1, <1>2, <1>3 DEF Next

\* An ordinary answer to the current M1, within the caller's limit, that arrives whole
\* and in any order is never refused: none of the checks of authenticate_m2_envelopes
\* and decode_radio_payloads fails for what the registrar makes.
THEOREM WholeAnswersAreAccepted == Symbolic => (Spec => []WholeIsAccepted)
<1>. SUFFICES ASSUME Symbolic PROVE Spec => []WholeIsAccepted
  OBVIOUS
<1>1. Init => PayloadInv /\ WholeIsAccepted
  BY PayloadInit, PendingIsAccepted DEF Init
<1>2. PayloadInv /\ WholeIsAccepted /\ [Next]_vars => (PayloadInv /\ WholeIsAccepted)'
  BY PayloadKept, StillAccepted
<1>3. QED
  BY <1>1, <1>2, PTL DEF Spec
=============================================================================
