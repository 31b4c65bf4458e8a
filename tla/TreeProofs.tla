----------------------------- MODULE TreeProofs -----------------------------
(***************************************************************************)
(* Machine-checked theorems about the tree that Device keeps: the stored   *)
(* paths agree with the parents and are unique, whatever is created,       *)
(* copied, renamed, moved and deleted, as long as no folder is moved below *)
(* itself (the simulator does not look, see README).                       *)
(*                                                                         *)
(* A rename rewrites the paths below the folder it renames and checks only *)
(* the new path of that folder.  That this is enough rests on              *)
(* AncestorsExist: where nothing has the path p, nothing lies below p.     *)
(***************************************************************************)
EXTENDS SafeWritesProofs, WellFoundedInduction

-----------------------------------------------------------------------------
(* Prefixes.                                                               *)

LEMMA PrefixPointwise ==
    ASSUME NEW S, NEW s \in Seq(S), NEW t \in Seq(S)
    PROVE  IsPrefix(s, t) <=> Len(s) <= Len(t) /\ \A i \in 1 .. Len(s) : s[i] = t[i]
<1>1. Len(s) \in Nat /\ Len(t) \in Nat
  OBVIOUS
<1>2. SubSeq(s, 1, Len(s)) = s
  BY SubSeqFull
<1>3. CASE Len(s) <= Len(t)
  <2>1. \A i \in 1 .. Len(s) : i \in 1 .. Len(t)
    BY <1>1, <1>3
  <2>2. \A i \in 1 .. Len(s) : t[i] \in S
    BY <2>1, ElementOfSeq
  <2>3. /\ SubSeq(t, 1, Len(s)) \in Seq(S) /\ Len(SubSeq(t, 1, Len(s))) = Len(s)
        /\ \A i \in 1 .. Len(s) : SubSeq(t, 1, Len(s))[i] = t[i]
    BY <1>1, <2>2
  <2>4. s = SubSeq(t, 1, Len(s)) <=> \A i \in 1 .. Len(s) : s[i] = t[i]
    BY <2>3, SeqEqual
  <2>5. QED
    BY <1>2, <1>3, <2>4 DEF IsPrefix
<1>4. QED
  BY <1>3 DEF IsPrefix

LEMMA PrefixTransitive ==
    ASSUME NEW S, NEW r \in Seq(S), NEW s \in Seq(S), NEW t \in Seq(S),
           IsPrefix(r, s), IsPrefix(s, t)
    PROVE  IsPrefix(r, t)
<1>1. Len(r) \in Nat /\ Len(s) \in Nat /\ Len(t) \in Nat
  OBVIOUS
<1>2. Len(r) <= Len(s) /\ \A i \in 1 .. Len(r) : r[i] = s[i]
  BY PrefixPointwise
<1>3. Len(s) <= Len(t) /\ \A i \in 1 .. Len(s) : s[i] = t[i]
  BY PrefixPointwise
<1>4. Len(r) <= Len(t) /\ \A i \in 1 .. Len(r) : r[i] = t[i]
  BY <1>1, <1>2, <1>3
<1>5. QED
  BY <1>4, PrefixPointwise

\* Prefixes of the same sequence are prefixes of each other.
LEMMA PrefixesAreOrdered ==
    ASSUME NEW S, NEW r \in Seq(S), NEW s \in Seq(S), NEW t \in Seq(S),
           IsPrefix(r, t), IsPrefix(s, t), Len(r) <= Len(s)
    PROVE  IsPrefix(r, s)
<1>1. Len(r) \in Nat /\ Len(s) \in Nat
  OBVIOUS
<1>2. \A i \in 1 .. Len(r) : r[i] = t[i]
  BY PrefixPointwise
<1>3. \A i \in 1 .. Len(s) : s[i] = t[i]
  BY PrefixPointwise
<1>4. \A i \in 1 .. Len(r) : r[i] = s[i]
  BY <1>1, <1>2, <1>3
<1>5. QED
  BY <1>4, PrefixPointwise

LEMMA PrefixReflexive ==
    ASSUME NEW S, NEW s \in Seq(S)
    PROVE  IsPrefix(s, s)
  BY PrefixPointwise

LEMMA EqualLengthPrefix ==
    ASSUME NEW S, NEW s \in Seq(S), NEW t \in Seq(S), IsPrefix(s, t), Len(t) <= Len(s)
    PROVE  s = t
<1>1. Len(s) = Len(t) /\ \A i \in 1 .. Len(s) : s[i] = t[i]
  BY PrefixPointwise
<1>2. QED
  BY <1>1, SeqEqual

LEMMA PrefixOfAppend ==
    ASSUME NEW S, NEW s \in Seq(S), NEW t \in Seq(S), NEW e \in S
    PROVE  IsPrefix(s, Append(t, e)) <=> IsPrefix(s, t) \/ s = Append(t, e)
<1> DEFINE u == Append(t, e)
<1>1. /\ u \in Seq(S) /\ Len(u) = Len(t) + 1 /\ Len(t) \in Nat /\ Len(s) \in Nat
      /\ \A i \in 1 .. Len(t) : u[i] = t[i]
  BY AppendProperties
<1>2. IsPrefix(t, u)
  <2>1. Len(t) <= Len(u)
    BY <1>1
  <2>2. QED
    BY <1>1, <2>1, PrefixPointwise
<1>3. ASSUME IsPrefix(s, u) PROVE IsPrefix(s, t) \/ s = u
  <2>1. CASE Len(s) <= Len(t)
    BY <1>1, <1>2, <1>3, <2>1, PrefixesAreOrdered
  <2>2. CASE Len(s) > Len(t)
    <3>1. Len(u) <= Len(s)
      BY <1>1, <2>2
    <3>2. QED
      BY <1>1, <1>3, <3>1, EqualLengthPrefix
  <2>3. QED
    BY <1>1, <2>1, <2>2
<1>4. ASSUME IsPrefix(s, t) \/ s = u PROVE IsPrefix(s, u)
  <2>1. CASE IsPrefix(s, t)
    BY <1>1, <1>2, <2>1, PrefixTransitive
  <2>2. CASE s = u
    BY <1>1, <2>2, PrefixReflexive
  <2>3. QED
    BY <1>4, <2>1, <2>2
<1>5. QED
  BY <1>3, <1>4

-----------------------------------------------------------------------------
(* Paths that move.                                                        *)

\* Where the path p is after the folder at "old" has moved to "new".
Moved(p, old, new) ==
    IF IsPrefix(old, p) THEN new \o SubSeq(p, Len(old) + 1, Len(p)) ELSE p

\* The part of a path below one of its prefixes, element by element.
LEMMA MovedPointwise ==
    ASSUME NEW S, NEW p \in Seq(S), NEW old \in Seq(S), NEW new \in Seq(S), IsPrefix(old, p)
    PROVE  /\ Moved(p, old, new) \in Seq(S)
           /\ Len(Moved(p, old, new)) = Len(new) + (Len(p) - Len(old))
           /\ \A i \in 1 .. Len(new) : Moved(p, old, new)[i] = new[i]
           /\ \A i \in 1 .. (Len(p) - Len(old)) :
                 Moved(p, old, new)[Len(new) + i] = p[Len(old) + i]
<1> DEFINE rest == SubSeq(p, Len(old) + 1, Len(p))
<1>1. Len(old) \in Nat /\ Len(p) \in Nat /\ Len(new) \in Nat /\ Len(old) <= Len(p)
  BY PrefixPointwise
<1>2. \A i \in Len(old) + 1 .. Len(p) : p[i] \in S
  BY <1>1, ElementOfSeq
<1>3. Len(old) + 1 \in Int /\ Len(p) \in Int
  BY <1>1
<1>4. rest \in Seq(S) /\ Len(rest) = Len(p) - Len(old)
  <2>1. rest \in Seq(S) /\ Len(rest) = IF Len(old) + 1 <= Len(p) THEN Len(p) - (Len(old) + 1) + 1 ELSE 0
    BY <1>2, <1>3, SubSeqProperties
  <2>2. QED
    BY <1>1, <2>1
<1>5. \A i \in 1 .. Len(p) - Len(old) : rest[i] = p[Len(old) + i]
  BY <1>1, <1>2, <1>3, SubSeqProperties
<1>6. Moved(p, old, new) = new \o rest
  BY DEF Moved
<1> HIDE DEF rest
<1>7. /\ new \o rest \in Seq(S) /\ Len(new \o rest) = Len(new) + Len(rest)
      /\ \A i \in 1 .. Len(new) + Len(rest) :
            (new \o rest)[i] = IF i <= Len(new) THEN new[i] ELSE rest[i - Len(new)]
  BY <1>4, ConcatProperties
<1>8. ASSUME NEW i \in 1 .. (Len(p) - Len(old))
      PROVE  (new \o rest)[Len(new) + i] = p[Len(old) + i]
  <2>1. /\ Len(new) + i \in 1 .. Len(new) + Len(rest) /\ ~(Len(new) + i <= Len(new))
        /\ (Len(new) + i) - Len(new) = i
    BY <1>1, <1>4
  <2>2. QED
    BY <1>5, <1>7, <2>1
<1>9. \A i \in 1 .. Len(new) : (new \o rest)[i] = new[i]
  BY <1>1, <1>4, <1>7
<1>10. QED
  BY <1>4, <1>6, <1>7, <1>8, <1>9

LEMMA MovedRest ==
    ASSUME NEW S, NEW p \in Seq(S), NEW old \in Seq(S), NEW new \in Seq(S), IsPrefix(old, p),
           NEW i \in 1 .. (Len(p) - Len(old))
    PROVE  Moved(p, old, new)[Len(new) + i] = p[Len(old) + i]
  BY MovedPointwise

LEMMA MovedNew ==
    ASSUME NEW S, NEW p \in Seq(S), NEW old \in Seq(S), NEW new \in Seq(S), IsPrefix(old, p),
           NEW i \in 1 .. Len(new)
    PROVE  Moved(p, old, new)[i] = new[i]
  BY MovedPointwise

LEMMA MovedLength ==
    ASSUME NEW S, NEW p \in Seq(S), NEW old \in Seq(S), NEW new \in Seq(S), IsPrefix(old, p)
    PROVE  /\ Moved(p, old, new) \in Seq(S)
           /\ Len(Moved(p, old, new)) = Len(new) + (Len(p) - Len(old))
  BY MovedPointwise

LEMMA MovedStartsNew ==
    ASSUME NEW S, NEW p \in Seq(S), NEW old \in Seq(S), NEW new \in Seq(S), IsPrefix(old, p)
    PROVE  IsPrefix(new, Moved(p, old, new))
<1> DEFINE m == Moved(p, old, new)
<1>1. Len(old) <= Len(p) /\ Len(old) \in Nat /\ Len(p) \in Nat /\ Len(new) \in Nat
  BY PrefixPointwise
<1>2. m \in Seq(S) /\ Len(m) = Len(new) + (Len(p) - Len(old)) /\ \A i \in 1 .. Len(new) : m[i] = new[i]
  BY MovedPointwise
<1> HIDE DEF m
<1>3. Len(new) <= Len(m)
  BY <1>1, <1>2
<1>4. IsPrefix(new, m)
  BY <1>2, <1>3, PrefixPointwise
<1>5. QED
  BY <1>4 DEF m

LEMMA MovedInjective ==
    ASSUME NEW S, NEW p \in Seq(S), NEW r \in Seq(S), NEW old \in Seq(S), NEW new \in Seq(S),
           IsPrefix(old, p), IsPrefix(old, r)
    PROVE  Moved(p, old, new) = Moved(r, old, new) => p = r
<1>1. /\ Len(old) <= Len(p) /\ \A i \in 1 .. Len(old) : old[i] = p[i]
      /\ Len(old) <= Len(r) /\ \A i \in 1 .. Len(old) : old[i] = r[i]
      /\ Len(old) \in Nat /\ Len(p) \in Nat /\ Len(r) \in Nat /\ Len(new) \in Nat
  BY PrefixPointwise
<1>2. /\ Len(Moved(p, old, new)) = Len(new) + (Len(p) - Len(old))
      /\ \A i \in 1 .. (Len(p) - Len(old)) : Moved(p, old, new)[Len(new) + i] = p[Len(old) + i]
  <2>1. ASSUME NEW i \in 1 .. (Len(p) - Len(old))
        PROVE  Moved(p, old, new)[Len(new) + i] = p[Len(old) + i]
    BY MovedRest
  <2>2. QED
    BY <2>1, MovedLength
<1>3. /\ Len(Moved(r, old, new)) = Len(new) + (Len(r) - Len(old))
      /\ \A i \in 1 .. (Len(r) - Len(old)) : Moved(r, old, new)[Len(new) + i] = r[Len(old) + i]
  <2>1. ASSUME NEW i \in 1 .. (Len(r) - Len(old))
        PROVE  Moved(r, old, new)[Len(new) + i] = r[Len(old) + i]
    BY MovedRest
  <2>2. QED
    BY <2>1, MovedLength
<1> SUFFICES ASSUME Moved(p, old, new) = Moved(r, old, new) PROVE p = r
  OBVIOUS
<1>4. Len(p) = Len(r)
  BY <1>1, <1>2, <1>3
<1>5. \A i \in 1 .. (Len(p) - Len(old)) : p[Len(old) + i] = r[Len(old) + i]
  BY <1>2, <1>3, <1>4
<1>6. ASSUME NEW i \in 1 .. Len(p) PROVE p[i] = r[i]
  <2>1. CASE i <= Len(old)
    BY <1>1, <2>1
  <2>2. CASE i > Len(old)
    <3>1. i - Len(old) \in 1 .. (Len(p) - Len(old)) /\ Len(old) + (i - Len(old)) = i
      BY <1>1, <2>2
    <3>2. QED
      BY <1>5, <3>1
  <2>3. QED
    BY <1>1, <2>1, <2>2
<1>7. QED
  BY <1>4, <1>6, SeqEqual

LEMMA MovedItself ==
    ASSUME NEW S, NEW old \in Seq(S), NEW new \in Seq(S)
    PROVE  Moved(old, old, new) = new
<1>1. IsPrefix(old, old)
  BY PrefixReflexive
<1>2. Len(old) \in Nat /\ Len(old) + 1 \in Int /\ Len(old) < Len(old) + 1
  OBVIOUS
<1>3. SubSeq(old, Len(old) + 1, Len(old)) = << >>
  BY <1>2, SubSeqEmpty
<1>4. QED
  BY <1>1, <1>3, ConcatEmptySeq DEF Moved

\* What lies in a folder moves with it.
LEMMA MovedAppend ==
    ASSUME NEW S, NEW p \in Seq(S), NEW e \in S, NEW old \in Seq(S), NEW new \in Seq(S),
           Append(p, e) # old
    PROVE  Moved(Append(p, e), old, new) = Append(Moved(p, old, new), e)
<1> DEFINE u == Append(p, e)
<1>1. u \in Seq(S) /\ Len(u) = Len(p) + 1 /\ u[Len(p) + 1] = e /\ \A i \in 1 .. Len(p) : u[i] = p[i]
  BY AppendProperties
<1>2. IsPrefix(old, u) <=> IsPrefix(old, p)
  BY PrefixOfAppend
<1>3. CASE ~IsPrefix(old, p)
  BY <1>2, <1>3 DEF Moved
<1>4. CASE IsPrefix(old, p)
  <2> DEFINE m == Moved(p, old, new)
             v == Moved(u, old, new)
             w == Append(m, e)
  <2>1. Len(old) <= Len(p) /\ Len(old) \in Nat /\ Len(p) \in Nat /\ Len(new) \in Nat
    BY <1>4, PrefixPointwise
  <2>2. /\ m \in Seq(S) /\ Len(m) = Len(new) + (Len(p) - Len(old))
        /\ \A i \in 1 .. Len(new) : m[i] = new[i]
        /\ \A i \in 1 .. (Len(p) - Len(old)) : m[Len(new) + i] = p[Len(old) + i]
    <3>1. ASSUME NEW i \in 1 .. Len(new) PROVE m[i] = new[i]
      BY <1>4, MovedNew
    <3>2. ASSUME NEW i \in 1 .. (Len(p) - Len(old)) PROVE m[Len(new) + i] = p[Len(old) + i]
      BY <1>4, MovedRest
    <3>3. QED
      BY <1>4, <3>1, <3>2, MovedLength
  <2> HIDE DEF u
  <2>3. /\ v \in Seq(S) /\ Len(v) = Len(new) + (Len(u) - Len(old))
        /\ \A i \in 1 .. Len(new) : v[i] = new[i]
        /\ \A i \in 1 .. (Len(u) - Len(old)) : v[Len(new) + i] = u[Len(old) + i]
    <3>1. ASSUME NEW i \in 1 .. Len(new) PROVE v[i] = new[i]
      BY <1>1, <1>2, <1>4, MovedNew
    <3>2. ASSUME NEW i \in 1 .. (Len(u) - Len(old)) PROVE v[Len(new) + i] = u[Len(old) + i]
      BY <1>1, <1>2, <1>4, MovedRest
    <3>3. QED
      BY <1>1, <1>2, <1>4, <3>1, <3>2, MovedLength
  <2> HIDE DEF m, v
  <2>4. w \in Seq(S) /\ Len(w) = Len(m) + 1 /\ w[Len(m) + 1] = e /\ \A i \in 1 .. Len(m) : w[i] = m[i]
    <3>1. m \in Seq(S)
      BY <2>2
    <3>2. QED
      BY <3>1, AppendProperties
  <2> HIDE DEF w
  <2>5. Len(v) = Len(w)
    BY <1>1, <2>1, <2>2, <2>3, <2>4
  <2>6. ASSUME NEW i \in 1 .. Len(v) PROVE v[i] = w[i]
    <3>1. CASE i <= Len(new)
      <4>1. i \in 1 .. Len(new) /\ i \in 1 .. Len(m)
        BY <2>1, <2>2, <3>1
      <4>2. QED
        BY <2>2, <2>3, <2>4, <4>1
    <3>2. CASE i > Len(new) /\ i <= Len(m)
      <4> DEFINE j == i - Len(new)
      <4>1. /\ j \in 1 .. (Len(p) - Len(old)) /\ j \in 1 .. (Len(u) - Len(old))
            /\ Len(new) + j = i /\ Len(old) + j \in 1 .. Len(p) /\ i \in 1 .. Len(m)
        BY <1>1, <2>1, <2>2, <3>2
      <4> HIDE DEF j
      <4>2. v[i] = u[Len(old) + j] /\ m[i] = p[Len(old) + j]
        BY <2>2, <2>3, <4>1
      <4>3. QED
        BY <1>1, <2>4, <4>1, <4>2
    <3>3. CASE i > Len(m)
      <4> DEFINE j == i - Len(new)
      <4>1. /\ i = Len(m) + 1 /\ j \in 1 .. (Len(u) - Len(old)) /\ Len(new) + j = i
            /\ Len(old) + j = Len(p) + 1
        BY <1>1, <2>1, <2>2, <2>4, <2>5, <3>3
      <4> HIDE DEF j
      <4>2. v[i] = u[Len(old) + j]
        BY <2>3, <4>1
      <4>3. QED
        BY <1>1, <2>4, <4>1, <4>2
    <3>4. QED
      BY <2>1, <2>2, <3>1, <3>2, <3>3
  <2>7. v = w
    BY <2>3, <2>4, <2>5, <2>6, SeqEqual
  <2>8. QED
    BY <2>7 DEF u, v, w, m
<1>5. QED
  BY <1>3, <1>4

\* Above a moved path there is what is above the new place, and what moved.
LEMMA AboveMoved ==
    ASSUME NEW S, NEW p \in Seq(S), NEW s \in Seq(S), NEW old \in Seq(S), NEW new \in Seq(S),
           IsPrefix(old, p), IsStrictPrefix(s, Moved(p, old, new))
    PROVE  \/ IsStrictPrefix(s, new)
           \/ \E r \in Seq(S) : IsPrefix(old, r) /\ IsStrictPrefix(r, p) /\ Moved(r, old, new) = s
<1> DEFINE m == Moved(p, old, new)
           n == Len(old) + (Len(s) - Len(new))
           r == SubSeq(p, 1, n)
<1>1. /\ Len(old) <= Len(p) /\ \A i \in 1 .. Len(old) : old[i] = p[i]
      /\ Len(old) \in Nat /\ Len(p) \in Nat /\ Len(new) \in Nat /\ Len(s) \in Nat
  BY PrefixPointwise
<1>2. /\ m \in Seq(S) /\ Len(m) = Len(new) + (Len(p) - Len(old))
      /\ \A i \in 1 .. Len(new) : m[i] = new[i]
      /\ \A i \in 1 .. (Len(p) - Len(old)) : m[Len(new) + i] = p[Len(old) + i]
  <2>1. ASSUME NEW i \in 1 .. Len(new) PROVE m[i] = new[i]
    BY MovedNew
  <2>2. ASSUME NEW i \in 1 .. (Len(p) - Len(old)) PROVE m[Len(new) + i] = p[Len(old) + i]
    BY MovedRest
  <2>3. QED
    BY <2>1, <2>2, MovedLength
<1>3. IsPrefix(new, m) /\ IsPrefix(s, m) /\ s # m
  BY MovedStartsNew DEF IsStrictPrefix
<1> HIDE DEF m
<1>4. CASE Len(s) < Len(new)
  <2>1. IsPrefix(s, new)
    BY <1>1, <1>2, <1>3, <1>4, PrefixesAreOrdered
  <2>2. s # new
    BY <1>1, <1>4
  <2>3. QED
    BY <2>1, <2>2 DEF IsStrictPrefix
<1>5. CASE Len(s) >= Len(new)
  <2>1. Len(s) <= Len(m) /\ \A i \in 1 .. Len(s) : s[i] = m[i]
    BY <1>2, <1>3, PrefixPointwise
  <2>2. Len(s) # Len(m)
    BY <1>2, <1>3, <2>1, EqualLengthPrefix
  <2>3. n \in Nat /\ n < Len(p) /\ Len(old) <= n /\ n - Len(old) = Len(s) - Len(new)
    <3>1. Len(m) \in Nat /\ Len(m) = Len(new) + (Len(p) - Len(old)) /\ Len(s) <= Len(m)
      BY <1>2, <2>1
    <3>2. QED
      BY <1>1, <1>5, <2>2, <3>1
  <2> HIDE DEF n
  <2>4. \A i \in 1 .. n : p[i] \in S
    BY <1>1, <2>3, ElementOfSeq
  <2>5. r \in Seq(S) /\ Len(r) = n /\ \A i \in 1 .. n : r[i] = p[i]
    <3>1. /\ r \in Seq(S) /\ Len(r) = IF 1 <= n THEN n - 1 + 1 ELSE 0
          /\ \A i \in 1 .. n - 1 + 1 : r[i] = p[1 + i - 1]
      BY <2>3, <2>4, SubSeqProperties
    <3>2. Len(r) = n
      BY <2>3, <3>1
    <3>3. ASSUME NEW i \in 1 .. n PROVE r[i] = p[i]
      <4>1. i \in 1 .. n - 1 + 1 /\ 1 + i - 1 = i
        BY <2>3
      <4>2. QED
        BY <3>1, <4>1
    <3>4. QED
      BY <3>1, <3>2, <3>3
  <2> HIDE DEF r
  <2>6. IsStrictPrefix(r, p)
    <3>1. Len(r) <= Len(p) /\ Len(r) # Len(p) /\ \A i \in 1 .. Len(r) : r[i] = p[i]
      BY <1>1, <2>3, <2>5
    <3>2. IsPrefix(r, p)
      BY <2>5, <3>1, PrefixPointwise
    <3>3. QED
      BY <3>1, <3>2 DEF IsStrictPrefix
  <2>7. IsPrefix(old, r)
    <3>1. \A i \in 1 .. Len(old) : old[i] = r[i]
      BY <1>1, <2>3, <2>5
    <3>2. QED
      BY <2>3, <2>5, <3>1, PrefixPointwise
  <2>8. Moved(r, old, new) = s
    <3> DEFINE v == Moved(r, old, new)
    <3>0. r \in Seq(S)
      BY <2>5
    <3>1. /\ v \in Seq(S) /\ Len(v) = Len(new) + (Len(r) - Len(old))
          /\ \A i \in 1 .. Len(new) : v[i] = new[i]
          /\ \A i \in 1 .. (Len(r) - Len(old)) : v[Len(new) + i] = r[Len(old) + i]
      <4>1. ASSUME NEW i \in 1 .. Len(new) PROVE v[i] = new[i]
        BY <3>0, <2>7, MovedNew
      <4>2. ASSUME NEW i \in 1 .. (Len(r) - Len(old)) PROVE v[Len(new) + i] = r[Len(old) + i]
        BY <2>5, <2>7, MovedRest
      <4>3. QED
        BY <2>5, <2>7, <4>1, <4>2, MovedLength
    <3> HIDE DEF v
    <3>2. Len(v) = Len(s)
      BY <1>1, <2>3, <2>5, <3>1
    <3>3. ASSUME NEW i \in 1 .. Len(v) PROVE v[i] = s[i]
      <4>1. CASE i <= Len(new)
        BY <1>1, <1>2, <2>1, <3>1, <3>2, <4>1
      <4>2. CASE i > Len(new)
        <5> DEFINE j == i - Len(new)
        <5>1. /\ j \in 1 .. (Len(r) - Len(old)) /\ j \in 1 .. (Len(p) - Len(old))
              /\ Len(new) + j = i /\ Len(old) + j \in 1 .. n
          BY <1>1, <2>3, <2>5, <3>1, <3>2, <4>2
        <5> HIDE DEF j
        <5>2. v[i] = r[Len(old) + j] /\ m[i] = p[Len(old) + j]
          BY <1>2, <3>1, <5>1
        <5>3. QED
          BY <2>1, <2>5, <3>2, <5>1, <5>2
      <4>3. QED
        BY <1>1, <3>2, <4>1, <4>2
    <3>4. v = s
      BY <3>1, <3>2, <3>3, SeqEqual
    <3>5. QED
      BY <3>4 DEF v
  <2>9. QED
    BY <2>5, <2>6, <2>7, <2>8
<1>6. QED
  BY <1>1, <1>4, <1>5

-----------------------------------------------------------------------------
(* The tree.                                                               *)

EntryAt(i) == IF i \in DOMAIN folders THEN folders[i] ELSE documents[i]

\* Every folder that a path mentions is there.
AncestorsExist ==
    \A i \in Ids, s \in Seq(AllNames) :
        s # << >> /\ IsStrictPrefix(s, EntryAt(i).path) => \E f \in DOMAIN folders : folders[f].path = s

TreeInv == PathsFollowParents /\ PathsAreUnique /\ AncestorsExist

\* What the invariant says of one entry, and of two.
LEMMA EntryFacts ==
    ASSUME DeviceInv, TreeInv, NEW i \in Ids
    PROVE  LET e == EntryAt(i) IN
           /\ e.path \in Seq(AllNames) /\ e.name \in AllNames
           /\ e.parent \in Parents /\ e.path = Append(PathOf(e.parent), e.name)
<1>1. folders \in [DOMAIN folders -> FolderMeta] /\ documents \in [DOMAIN documents -> DocumentMeta]
  BY DEF DeviceInv, StoreTypes
<1>2. EntryAt(i).path \in Seq(AllNames) /\ EntryAt(i).name \in AllNames
  BY <1>1 DEF EntryAt, Ids, FolderMeta, DocumentMeta
<1>3. QED
  BY <1>2 DEF EntryAt, TreeInv, PathsFollowParents

LEMMA EntriesApart ==
    ASSUME TreeInv, NEW i \in Ids, NEW j \in Ids, EntryAt(i).path = EntryAt(j).path
    PROVE  i = j
  BY DEF EntryAt, TreeInv, PathsAreUnique

\* The invariant of the next state in terms of EntryAt.
LEMMA TreeInvMeans ==
    ASSUME \A i \in Ids' : /\ (EntryAt(i).parent \in Parents)'
                           /\ (EntryAt(i).path = Append(PathOf(EntryAt(i).parent), EntryAt(i).name))',
           \A i, j \in Ids' : (EntryAt(i).path = EntryAt(j).path)' => i = j,
           AncestorsExist'
    PROVE  TreeInv'
<1>1. PathsFollowParents'
  BY DEF EntryAt, PathsFollowParents
<1>2. PathsAreUnique'
  BY DEF EntryAt, PathsAreUnique
<1>3. QED
  BY <1>1, <1>2 DEF TreeInv

\* Every folder above a folder, and the folder itself, is there.
LEMMA FoldersAbove ==
    ASSUME DeviceInv, TreeInv, NEW p \in Parents, NEW s \in Seq(AllNames),
           s # << >>, IsPrefix(s, PathOf(p))
    PROVE  \E f \in DOMAIN folders : folders[f].path = s
<1>1. CASE p = Root
  <2>1. PathOf(p) = << >> /\ << >> \in Seq(AllNames)
    BY <1>1 DEF PathOf
  <2>2. Len(s) <= Len(<< >>)
    BY <2>1, PrefixPointwise
  <2>3. QED
    BY <2>2
<1>2. CASE p # Root
  <2>1. p \in DOMAIN folders /\ PathOf(p) = folders[p].path /\ p \in Ids /\ EntryAt(p) = folders[p]
    BY <1>2 DEF PathOf, Parents, Ids, EntryAt
  <2>2. CASE s = PathOf(p)
    BY <2>1, <2>2
  <2>3. CASE s # PathOf(p)
    BY <2>1, <2>3 DEF TreeInv, AncestorsExist, IsStrictPrefix
  <2>4. QED
    BY <2>2, <2>3
<1>3. QED
  BY <1>1, <1>2

\* ... and so is every folder above an entry that lies in a folder.
LEMMA FoldersAboveEntry ==
    ASSUME DeviceInv, TreeInv, NEW p \in Parents, NEW n \in AllNames, NEW s \in Seq(AllNames),
           s # << >>, IsStrictPrefix(s, Append(PathOf(p), n))
    PROVE  \E f \in DOMAIN folders : folders[f].path = s
<1>1. PathOf(p) \in Seq(AllNames)
  BY PathOfParent
<1>2. IsPrefix(s, PathOf(p))
  BY <1>1, PrefixOfAppend DEF IsStrictPrefix
<1>3. QED
  BY <1>2, FoldersAbove

\* Entering an entry, or changing a document.
LEMMA PlacingKeepsTree ==
    ASSUME DeviceInv, TreeInv, NEW n, n # Root, NEW e,
           Ids' = Ids \cup {n}, n \notin DOMAIN folders, DOMAIN folders' \subseteq DOMAIN folders \cup {n},
           \A f \in DOMAIN folders : f \in DOMAIN folders' /\ folders'[f] = folders[f],
           \A i \in Ids \ {n} : EntryAt(i)' = EntryAt(i),
           EntryAt(n)' = e, e.parent \in Parents, e.name \in AllNames,
           e.path = Append(PathOf(e.parent), e.name),
           \A i \in Ids \ {n} : EntryAt(i).path # e.path
    PROVE  TreeInv'
<1>1. ASSUME NEW p \in Parents PROVE p \in Parents' /\ PathOf(p)' = PathOf(p)
  BY DEF Parents, PathOf
<1>2. ASSUME NEW i \in Ids'
      PROVE  /\ (EntryAt(i).parent \in Parents)'
             /\ (EntryAt(i).path = Append(PathOf(EntryAt(i).parent), EntryAt(i).name))'
  <2>1. CASE i = n
    BY <1>1, <2>1
  <2>2. CASE i # n
    <3>1. i \in Ids /\ EntryAt(i)' = EntryAt(i)
      BY <2>2
    <3>2. EntryAt(i).parent \in Parents
      BY <3>1, EntryFacts
    <3>3. EntryAt(i).path = Append(PathOf(EntryAt(i).parent), EntryAt(i).name)
      BY <3>1, EntryFacts
    <3>4. PICK p \in Parents : p = EntryAt(i).parent
      BY <3>2
    <3>5. p \in Parents' /\ PathOf(p)' = PathOf(p)
      BY <1>1
    <3>6. QED
      BY <3>1, <3>3, <3>4, <3>5
  <2>3. QED
    BY <2>1, <2>2
<1>3. ASSUME NEW i \in Ids', NEW j \in Ids', (EntryAt(i).path = EntryAt(j).path)'
      PROVE  i = j
  <2>1. \A h \in Ids' : h # n => h \in Ids /\ EntryAt(h)' = EntryAt(h)
    OBVIOUS
  <2>2. CASE i # n /\ j # n
    BY <1>3, <2>1, <2>2, EntriesApart
  <2>3. CASE i = n \/ j = n
    BY <1>3, <2>1, <2>3
  <2>4. QED
    BY <2>2, <2>3
<1>4. ASSUME NEW i \in Ids', NEW s \in Seq(AllNames), s # << >>, IsStrictPrefix(s, EntryAt(i)'.path)
      PROVE  \E f \in DOMAIN folders' : folders'[f].path = s
  <2>1. PICK f \in DOMAIN folders : folders[f].path = s
    <3>1. CASE i = n
      <4>1. PICK p \in Parents, m \in AllNames : e.path = Append(PathOf(p), m)
        OBVIOUS
      <4>2. IsStrictPrefix(s, Append(PathOf(p), m))
        BY <1>4, <3>1, <4>1
      <4>3. QED
        BY <1>4, <4>2, FoldersAboveEntry
    <3>2. CASE i # n
      BY <1>4, <3>2 DEF TreeInv, AncestorsExist
    <3>3. QED
      BY <3>1, <3>2
  <2>2. QED
    BY <2>1
<1>5. AncestorsExist'
  BY <1>4 DEF AncestorsExist
<1>6. QED
  BY <1>2, <1>3, <1>5, TreeInvMeans

\* Removing an entry in which nothing lies.
LEMMA RemovingKeepsTree ==
    ASSUME DeviceInv, TreeInv, NEW n \in Ids, Ids' = Ids \ {n},
           DOMAIN folders' = DOMAIN folders \ {n},
           \A f \in DOMAIN folders' : folders'[f] = folders[f],
           \A i \in Ids' : EntryAt(i)' = EntryAt(i),
           \A i \in Ids' : EntryAt(i).parent # n
    PROVE  TreeInv'
<1>1. ASSUME NEW p \in Parents, p # n \/ p = Root PROVE p \in Parents' /\ PathOf(p)' = PathOf(p)
  BY <1>1 DEF Parents, PathOf
<1>2. ASSUME NEW i \in Ids'
      PROVE  /\ (EntryAt(i).parent \in Parents)'
             /\ (EntryAt(i).path = Append(PathOf(EntryAt(i).parent), EntryAt(i).name))'
  <2>1. i \in Ids /\ EntryAt(i)' = EntryAt(i) /\ EntryAt(i).parent # n
    OBVIOUS
  <2>2. EntryAt(i).parent \in Parents
    BY <2>1, EntryFacts
  <2>3. EntryAt(i).path = Append(PathOf(EntryAt(i).parent), EntryAt(i).name)
    BY <2>1, EntryFacts
  <2>4. PICK p \in Parents : p = EntryAt(i).parent
    BY <2>2
  <2>5. p \in Parents' /\ PathOf(p)' = PathOf(p)
    BY <1>1, <2>1, <2>4
  <2>6. QED
    BY <2>1, <2>3, <2>4, <2>5
<1>3. ASSUME NEW i \in Ids', NEW j \in Ids', (EntryAt(i).path = EntryAt(j).path)'
      PROVE  i = j
  BY <1>3, EntriesApart
<1>4. ASSUME NEW i \in Ids', NEW s \in Seq(AllNames), s # << >>, IsStrictPrefix(s, EntryAt(i)'.path)
      PROVE  \E f \in DOMAIN folders' : folders'[f].path = s
  <2>1. i \in Ids /\ i # n /\ IsStrictPrefix(s, EntryAt(i).path)
    BY <1>4
  <2>2. PICK f \in DOMAIN folders : folders[f].path = s
    BY <1>4, <2>1 DEF TreeInv, AncestorsExist
  <2>3. ASSUME f = n PROVE FALSE
    <3>1. f \in Ids /\ EntryAt(f).path = s
      BY <2>2 DEF Ids, EntryAt
    <3>2. ASSUME NEW h \in Ids', NEW m \in Seq(AllNames), m = EntryAt(h).path, IsStrictPrefix(s, m),
                 Len(m) = Len(s) + 1
          PROVE  FALSE
      <4>1. h \in Ids
        OBVIOUS
      <4>2. PICK p \in Parents : p = EntryAt(h).parent
        BY <4>1, EntryFacts
      <4>3. m = Append(PathOf(p), EntryAt(h).name) /\ EntryAt(h).name \in AllNames
        BY <3>2, <4>1, <4>2, EntryFacts
      <4>4. PathOf(p) \in Seq(AllNames)
        BY PathOfParent
      <4>5. IsPrefix(s, PathOf(p))
        BY <3>2, <4>3, <4>4, PrefixOfAppend DEF IsStrictPrefix
      <4>6. Len(m) = Len(PathOf(p)) + 1
        BY <4>3, <4>4, AppendProperties
      <4>7. Len(PathOf(p)) <= Len(s)
        BY <3>2, <4>4, <4>6
      <4>8. s = PathOf(p)
        BY <4>4, <4>5, <4>7, EqualLengthPrefix
      <4>9. p # Root
        BY <1>4, <4>8 DEF PathOf
      <4>10. p \in DOMAIN folders /\ EntryAt(p).path = s /\ p \in Ids
        BY <4>8, <4>9 DEF Parents, PathOf, Ids, EntryAt
      <4>11. p = n
        BY <2>3, <3>1, <4>10, EntriesApart
      <4>12. QED
        BY <4>2, <4>11
    <3>3. PICK m \in Seq(AllNames) : m = EntryAt(i).path
      BY <2>1, EntryFacts
    <3>4. Len(s) < Len(m) /\ Len(s) \in Nat /\ Len(m) \in Nat
      <4>1. IsPrefix(s, m) /\ s # m
        BY <2>1, <3>3 DEF IsStrictPrefix
      <4>2. Len(s) <= Len(m) /\ Len(s) \in Nat /\ Len(m) \in Nat
        BY <4>1, PrefixPointwise
      <4>3. ~(Len(m) <= Len(s))
        BY <4>1, EqualLengthPrefix
      <4>4. QED
        BY <4>2, <4>3
    <3>5. CASE Len(m) = Len(s) + 1
      BY <2>1, <3>2, <3>3, <3>5
    <3>6. CASE Len(m) # Len(s) + 1
      <4> DEFINE k == Len(s) + 1
                 u == SubSeq(m, 1, k)
      <4>1. k \in Nat /\ k < Len(m) /\ \A x \in 1 .. k : m[x] \in AllNames
        BY <3>4, <3>6, ElementOfSeq
      <4>2. u \in Seq(AllNames) /\ Len(u) = k /\ \A x \in 1 .. k : u[x] = m[x]
        <5>1. /\ u \in Seq(AllNames) /\ Len(u) = IF 1 <= k THEN k - 1 + 1 ELSE 0
              /\ \A x \in 1 .. k - 1 + 1 : u[x] = m[1 + x - 1]
          BY <4>1, SubSeqProperties
        <5> HIDE DEF u
        <5>2. Len(u) = k
          BY <3>4, <5>1
        <5>3. ASSUME NEW x \in 1 .. k PROVE u[x] = m[x]
          <6>1. x \in 1 .. k - 1 + 1 /\ 1 + x - 1 = x
            BY <4>1
          <6>2. QED
            BY <5>1, <6>1
        <5>4. QED
          BY <5>1, <5>2, <5>3
      <4> HIDE DEF u
      <4>3. IsPrefix(u, m)
        <5>1. m \in Seq(AllNames) /\ Len(u) <= Len(m) /\ \A x \in 1 .. Len(u) : u[x] = m[x]
          BY <3>4, <4>1, <4>2
        <5>2. QED
          BY <4>2, <5>1, PrefixPointwise
      <4>4. u # m /\ u # << >> /\ Len(s) <= Len(u)
        BY <3>4, <4>1, <4>2
      <4>5. PICK h \in DOMAIN folders : folders[h].path = u
        BY <2>1, <3>3, <4>2, <4>3, <4>4 DEF TreeInv, AncestorsExist, IsStrictPrefix
      <4>6. IsPrefix(s, m)
        BY <2>1, <3>3 DEF IsStrictPrefix
      <4>7. IsPrefix(s, u)
        BY <4>2, <4>3, <4>4, <4>6, PrefixesAreOrdered
      <4>8. s # u
        BY <3>4, <4>2
      <4>9. h \in Ids /\ EntryAt(h).path = u /\ h # n
        BY <2>2, <2>3, <4>5, <4>8 DEF Ids, EntryAt
      <4>10. h \in Ids'
        BY <4>9
      <4>11. QED
        BY <3>2, <4>2, <4>7, <4>8, <4>9, <4>10 DEF IsStrictPrefix
    <3>7. QED
      BY <3>5, <3>6
  <2>4. QED
    BY <2>2, <2>3
<1>5. AncestorsExist'
  BY <1>4 DEF AncestorsExist
<1>6. QED
  BY <1>2, <1>3, <1>5, TreeInvMeans

\* The folder g goes from the path "old" to "new", the entry n of the folder
\* p, which is neither g nor below it; everything below g moves with it.
MovesFolder(g, p, n, old, new) ==
    /\ old = folders[g].path /\ new = Append(PathOf(p), n) /\ ~IsPrefix(old, PathOf(p))
    /\ new = old \/ \A i \in Ids \ {g} : EntryAt(i).path # new
    /\ DOMAIN folders' = DOMAIN folders /\ Ids' = Ids
    /\ \A i \in Ids : EntryAt(i)'.path = Moved(EntryAt(i).path, old, new)
    /\ \A i \in Ids \ {g} : EntryAt(i)'.parent = EntryAt(i).parent /\ EntryAt(i)'.name = EntryAt(i).name
    /\ EntryAt(g)'.parent = p /\ EntryAt(g)'.name = n

\* Renaming or moving a folder.
LEMMA MovingKeepsTree ==
    ASSUME DeviceInv, TreeInv, NEW g \in DOMAIN folders, NEW p \in Parents, NEW n \in AllNames,
           NEW old \in Seq(AllNames), NEW new \in Seq(AllNames)
    PROVE  MovesFolder(g, p, n, old, new) => TreeInv'
<1>a. \A t \in Seq(AllNames), m \in AllNames :
          Append(t, m) # old => Moved(Append(t, m), old, new) = Append(Moved(t, old, new), m)
  BY MovedAppend
<1>b. \A s, t \in Seq(AllNames) :
        IsPrefix(old, t) /\ IsStrictPrefix(s, Moved(t, old, new)) =>
            \/ IsStrictPrefix(s, new)
            \/ \E r \in Seq(AllNames) : IsPrefix(old, r) /\ IsStrictPrefix(r, t) /\ Moved(r, old, new) = s
  BY AboveMoved
<1> SUFFICES ASSUME old = folders[g].path, new = Append(PathOf(p), n), ~IsPrefix(old, PathOf(p)),
                    new = old \/ \A i \in Ids \ {g} : EntryAt(i).path # new,
                    DOMAIN folders' = DOMAIN folders, Ids' = Ids,
                    \A i \in Ids : EntryAt(i)'.path = Moved(EntryAt(i).path, old, new),
                    \A i \in Ids \ {g} : EntryAt(i)'.parent = EntryAt(i).parent /\ EntryAt(i)'.name = EntryAt(i).name,
                    EntryAt(g)'.parent = p, EntryAt(g)'.name = n
             PROVE  TreeInv'
  BY DEF MovesFolder
<1>1. g \in Ids /\ EntryAt(g).path = old /\ EntryAt(g)'.path = new
  <2>1. g \in Ids /\ EntryAt(g).path = old
    BY DEF Ids, EntryAt
  <2>2. EntryAt(g)'.path = Moved(old, old, new)
    BY <2>1
  <2>3. QED
    BY <2>1, <2>2, MovedItself
<1>2. ASSUME NEW i \in Ids PROVE EntryAt(i).path \in Seq(AllNames)
  BY EntryFacts
<1>3. PathOf(p) \in Seq(AllNames)
  BY PathOfParent
<1>4. old # << >>
  <2>1. PICK q \in Parents, m \in AllNames : old = Append(PathOf(q), m)
    BY <1>1, EntryFacts
  <2>2. PathOf(q) \in Seq(AllNames)
    BY PathOfParent
  <2>3. QED
    BY <2>1, <2>2, AppendProperties
\* The folders above move as the paths do.
<1>5. ASSUME NEW f \in Parents PROVE f \in Parents' /\ PathOf(f)' = Moved(PathOf(f), old, new)
  <2>1. CASE f = Root
    <3>1. ~IsPrefix(old, << >>)
      <4>1. << >> \in Seq(AllNames) /\ Len(<< >>) = 0 /\ Len(old) \in Nat \ {0}
        BY <1>4, EmptySeq
      <4>2. ASSUME IsPrefix(old, << >>) PROVE Len(old) <= Len(<< >>)
        BY <4>1, <4>2, PrefixPointwise
      <4>3. QED
        BY <4>1, <4>2
    <3>2. QED
      BY <2>1, <3>1 DEF Parents, PathOf, Moved
  <2>2. CASE f # Root
    BY <2>2 DEF Parents, PathOf, Ids, EntryAt
  <2>3. QED
    BY <2>1, <2>2
<1>6. ASSUME NEW i \in Ids'
      PROVE  /\ (EntryAt(i).parent \in Parents)'
             /\ (EntryAt(i).path = Append(PathOf(EntryAt(i).parent), EntryAt(i).name))'
  <2>1. CASE i = g
    <3>1. Moved(PathOf(p), old, new) = PathOf(p)
      BY DEF Moved
    <3>2. p \in Parents' /\ PathOf(p)' = PathOf(p)
      BY <1>5, <3>1
    <3>3. QED
      BY <1>1, <2>1, <3>2
  <2>2. CASE i # g
    <3>1. i \in Ids
      OBVIOUS
    <3>2. PICK q \in Parents, m \in AllNames :
             q = EntryAt(i).parent /\ m = EntryAt(i).name /\ EntryAt(i).path = Append(PathOf(q), m)
      BY <3>1, EntryFacts
    <3>3. q \in Parents' /\ PathOf(q)' = Moved(PathOf(q), old, new)
      BY <1>5
    <3>4. EntryAt(i)'.parent = q /\ EntryAt(i)'.name = m
      BY <2>2, <3>2
    <3>5. Append(PathOf(q), m) # old
      BY <1>1, <2>2, <3>1, <3>2, EntriesApart
    <3>6. PathOf(q) \in Seq(AllNames)
      BY PathOfParent
    <3>7. Moved(Append(PathOf(q), m), old, new) = Append(Moved(PathOf(q), old, new), m)
      BY <1>a, <3>5, <3>6
    <3>8. EntryAt(i)'.path = Append(PathOf(q)', m)
      BY <3>1, <3>2, <3>3, <3>7
    <3>9. QED
      BY <3>3, <3>4, <3>8
  <2>3. QED
    BY <2>1, <2>2
\* No entry outside lies where something from below the folder lands.
<1>7. ASSUME NEW i \in Ids, NEW j \in Ids, IsPrefix(old, EntryAt(i).path), ~IsPrefix(old, EntryAt(j).path),
             Moved(EntryAt(i).path, old, new) = EntryAt(j).path
      PROVE  FALSE
  <2>1. EntryAt(i).path \in Seq(AllNames) /\ EntryAt(j).path \in Seq(AllNames)
    BY <1>2
  <2>2. IsPrefix(new, EntryAt(j).path)
    BY <1>7, <2>1, MovedStartsNew
  <2>3. new # old
    BY <1>7, <2>2
  <2>4. IsPrefix(old, old)
    BY PrefixReflexive
  <2>5. j # g
    BY <1>1, <1>7, <2>4
  <2>6. EntryAt(j).path # new
    BY <2>3, <2>5
  <2>7. new # << >>
    BY <1>3, AppendProperties
  <2>8. PICK f \in DOMAIN folders : folders[f].path = new
    BY <2>2, <2>6, <2>7 DEF TreeInv, AncestorsExist, IsStrictPrefix
  <2>9. f \in Ids /\ EntryAt(f).path = new
    BY <2>8 DEF Ids, EntryAt
  <2>10. f = g
    BY <2>3, <2>9
  <2>11. QED
    BY <1>1, <2>3, <2>9, <2>10
<1>8. ASSUME NEW i \in Ids', NEW j \in Ids', (EntryAt(i).path = EntryAt(j).path)'
      PROVE  i = j
  <2> DEFINE a == EntryAt(i).path
             b == EntryAt(j).path
  <2>1. i \in Ids /\ j \in Ids /\ a \in Seq(AllNames) /\ b \in Seq(AllNames)
    BY <1>2
  <2>2. Moved(a, old, new) = Moved(b, old, new)
    BY <1>8, <2>1
  <2>3. CASE IsPrefix(old, a) /\ IsPrefix(old, b)
    <3>1. a = b
      BY <2>1, <2>2, <2>3, MovedInjective
    <3>2. QED
      BY <2>1, <3>1, EntriesApart
  <2>4. CASE ~IsPrefix(old, a) /\ ~IsPrefix(old, b)
    <3>1. a = b
      BY <2>2, <2>4 DEF Moved
    <3>2. QED
      BY <2>1, <3>1, EntriesApart
  <2>5. CASE IsPrefix(old, a) /\ ~IsPrefix(old, b)
    <3>1. Moved(b, old, new) = b
      BY <2>5 DEF Moved
    <3>2. QED
      BY <1>7, <2>1, <2>2, <2>5, <3>1
  <2>6. CASE ~IsPrefix(old, a) /\ IsPrefix(old, b)
    <3>1. Moved(a, old, new) = a
      BY <2>6 DEF Moved
    <3>2. QED
      BY <1>7, <2>1, <2>2, <2>6, <3>1
  <2>7. QED
    BY <2>3, <2>4, <2>5, <2>6
<1>9. ASSUME NEW i \in Ids', NEW s \in Seq(AllNames), s # << >>, IsStrictPrefix(s, EntryAt(i)'.path)
      PROVE  \E f \in DOMAIN folders' : folders'[f].path = s
  <2> DEFINE a == EntryAt(i).path
  <2>1. i \in Ids /\ a \in Seq(AllNames)
    BY <1>2
  <2>2. IsStrictPrefix(s, Moved(a, old, new))
    BY <1>9, <2>1
  <2>3. ASSUME NEW f \in DOMAIN folders, Moved(folders[f].path, old, new) = s
        PROVE  folders'[f].path = s
    BY <2>3 DEF Ids, EntryAt
  \* A folder that does not move is above the entry or above the new place.
  <2>4. ASSUME NEW f \in DOMAIN folders, folders[f].path = s, ~IsPrefix(old, s)
        PROVE  folders'[f].path = s
    BY <2>3, <2>4 DEF Moved
  <2>5. CASE ~IsPrefix(old, a)
    <3>1. IsStrictPrefix(s, a)
      BY <2>2, <2>5 DEF Moved
    <3>2. PICK f \in DOMAIN folders : folders[f].path = s
      BY <1>9, <2>1, <3>1 DEF TreeInv, AncestorsExist
    <3>3. ~IsPrefix(old, s)
      BY <2>1, <2>5, <3>1, PrefixTransitive DEF IsStrictPrefix
    <3>4. QED
      BY <2>4, <3>2, <3>3
  <2>6. CASE IsPrefix(old, a)
    <3>1. CASE IsStrictPrefix(s, new)
      <4>1. IsPrefix(s, PathOf(p))
        BY <1>3, <3>1, PrefixOfAppend DEF IsStrictPrefix
      <4>2. PICK f \in DOMAIN folders : folders[f].path = s
        BY <1>9, <4>1, FoldersAbove
      <4>3. ~IsPrefix(old, s)
        BY <1>3, <4>1, PrefixTransitive
      <4>4. QED
        BY <2>4, <4>2, <4>3
    <3>2. CASE \E r \in Seq(AllNames) : IsPrefix(old, r) /\ IsStrictPrefix(r, a) /\ Moved(r, old, new) = s
      <4>1. PICK r \in Seq(AllNames) : IsPrefix(old, r) /\ IsStrictPrefix(r, a) /\ Moved(r, old, new) = s
        BY <3>2
      <4>2. r # << >>
        <5>1. CASE r = << >>
          <6>1. Len(r) = 0 /\ Len(old) \in Nat \ {0}
            BY <1>4, <5>1, EmptySeq
          <6>2. Len(old) <= Len(r)
            BY <4>1, PrefixPointwise
          <6>3. QED
            BY <6>1, <6>2
        <5>2. QED
          BY <5>1
      <4>3. PICK f \in DOMAIN folders : folders[f].path = r
        BY <2>1, <4>1, <4>2 DEF TreeInv, AncestorsExist
      <4>4. QED
        BY <2>3, <4>1, <4>3
    <3>3. QED
      BY <1>b, <1>9, <2>1, <2>2, <2>6, <3>1, <3>2
  <2>7. QED
    BY <2>5, <2>6
<1>10. AncestorsExist'
  BY <1>9 DEF AncestorsExist
<1>11. QED
  BY <1>6, <1>8, <1>10, TreeInvMeans

-----------------------------------------------------------------------------
(* The handlers.                                                           *)

LEMMA SameTree ==
    ASSUME TreeInv, UNCHANGED <<folders, documents>>
    PROVE  TreeInv'
<1>1. folders' = folders /\ documents' = documents
  OBVIOUS
<1>2. PathsFollowParents'
  BY <1>1 DEF TreeInv, PathsFollowParents, Ids, Parents, PathOf
<1>3. PathsAreUnique'
  BY <1>1 DEF TreeInv, PathsAreUnique, Ids
<1>4. AncestorsExist'
  BY <1>1 DEF TreeInv, AncestorsExist, Ids, EntryAt
<1>5. QED
  BY <1>2, <1>3, <1>4 DEF TreeInv

LEMMA NewNumber ==
    ASSUME DeviceInv
    PROVE  nextID \notin Ids /\ nextID # Root /\ nextID # None
<1>1. nextID \in Nat \ {0} /\ \A i \in Ids : i < nextID
  BY DEF DeviceInv, StoreTypes
<1>2. QED
  BY <1>1, SeedAssumption DEF SeedAssumption, Root

LEMMA IdsAreNumbers ==
    ASSUME DeviceInv, NEW i \in Ids
    PROVE  i \in Nat /\ i # Root /\ i # None
<1>1. i \in Nat /\ 0 < i
  BY DEF DeviceInv, StoreTypes
<1>2. QED
  BY <1>1, SeedAssumption DEF SeedAssumption, Root

\* A path that is taken is that of an entry.
LEMMA NotTaken ==
    ASSUME DeviceInv, NEW path, NEW except, ~PathTaken(path, except)
    PROVE  \A i \in Ids \ {except} : EntryAt(i).path # path
  BY DEF PathTaken, Ids, EntryAt

LEMMA NoneIsNoEntry ==
    ASSUME DeviceInv
    PROVE  None \notin Ids
  BY IdsAreNumbers

LEMMA CreatingFolderKeepsTree ==
    ASSUME DeviceInv, TreeInv, NEW k \in Channels, request[k] # None, createFolder(k)
    PROVE  TreeInv'
<1>0. PICK n : n = nextID
  OBVIOUS
<1> DEFINE q == request[k]
           path == Append(PathOf(q.parent), q.name)
           folder == Folder(q.parent, q.name, path)
<1>1. CASE \E code \in {"40012", "40007"} : Refuse(k, code)
  BY <1>1, SameTree DEF Refuse, store
<1>2. CASE ~\E code \in {"40012", "40007"} : Refuse(k, code)
  <2>1. /\ q.parent \in Parents /\ ~PathTaken(path, None)
        /\ folders' = [i \in DOMAIN folders \cup {n} |-> IF i = n THEN folder ELSE folders[i]]
        /\ documents' = documents
    BY <1>0, <1>2 DEF createFolder, FreshID
  <2>2. q.name \in AllNames
    BY RequestFields DEF DeviceInv, createFolder
  <2>3. folder.parent = q.parent /\ folder.name = q.name /\ folder.path = path
    BY DEF Folder
  <2>4. \A i \in Ids : EntryAt(i).path # path
    BY <2>1, NotTaken, NoneIsNoEntry
  <2> HIDE DEF folder, path
  <2>5. n \notin Ids /\ n # Root
    BY <1>0, NewNumber
  <2>6. /\ DOMAIN folders' = DOMAIN folders \cup {n} /\ folders'[n] = folder
        /\ \A f \in DOMAIN folders : folders'[f] = folders[f]
    BY <2>1, <2>5 DEF Ids
  <2>7. Ids' = Ids \cup {n} /\ n \notin DOMAIN folders
    BY <2>1, <2>5, <2>6 DEF Ids
  <2>8. (\A i \in Ids \ {n} : EntryAt(i)' = EntryAt(i)) /\ EntryAt(n)' = folder
    BY <2>1, <2>5, <2>6 DEF Ids, EntryAt
  <2>9. folder.path = Append(PathOf(folder.parent), folder.name)
    BY <2>3 DEF path
  <2>10. QED
    BY <2>1, <2>2, <2>3, <2>4, <2>5, <2>6, <2>7, <2>8, <2>9, PlacingKeepsTree
<1>3. QED
  BY <1>1, <1>2

LEMMA AddingKeepsTree ==
    ASSUME DeviceInv, TreeInv, NEW document, NEW body, AddDocument(document, body),
           document.parent \in Parents, document.name \in AllNames,
           document.path = Append(PathOf(document.parent), document.name),
           ~PathTaken(document.path, None)
    PROVE  TreeInv'
<1>0. PICK n : n = nextID
  OBVIOUS
<1>1. /\ DOMAIN documents' = DOMAIN documents \cup {n} /\ folders' = folders
      /\ \A i \in DOMAIN documents' : documents'[i] = IF i = n THEN document ELSE documents[i]
  BY <1>0 DEF AddDocument, FreshID
<1>2. n \notin Ids /\ n # Root
  BY <1>0, NewNumber
<1>3. \A i \in Ids : EntryAt(i).path # document.path
  BY NotTaken, NoneIsNoEntry
<1>4. Ids' = Ids \cup {n} /\ n \notin DOMAIN folders
  BY <1>1, <1>2 DEF Ids
<1>5. (\A i \in Ids \ {n} : EntryAt(i)' = EntryAt(i)) /\ EntryAt(n)' = document
  BY <1>1, <1>2 DEF Ids, EntryAt
<1>6. QED
  BY <1>1, <1>2, <1>3, <1>4, <1>5, PlacingKeepsTree

LEMMA CreatingDocumentKeepsTree ==
    ASSUME DeviceInv, TreeInv, NEW k \in Channels, request[k] # None, createDocument(k)
    PROVE  TreeInv'
<1> DEFINE q == request[k]
           path == Append(PathOf(q.parent), q.name)
           document == Document(q.parent, q.name, path, 0, 0, q.tag)
<1>1. CASE \E code \in {"40012", "40007"} : Refuse(k, code)
  BY <1>1, SameTree DEF Refuse, store
<1>2. CASE ~\E code \in {"40012", "40007"} : Refuse(k, code)
  <2>1. q.parent \in Parents /\ ~PathTaken(path, None) /\ AddDocument(document, Blank)
    BY <1>2 DEF createDocument
  <2>2. q.name \in AllNames
    BY RequestFields DEF DeviceInv, createDocument
  <2>3. document.parent = q.parent /\ document.name = q.name /\ document.path = path
    BY DEF Document
  <2> HIDE DEF document
  <2>4. QED
    BY <2>1, <2>2, <2>3, AddingKeepsTree
<1>3. QED
  BY <1>1, <1>2

LEMMA CopyingKeepsTree ==
    ASSUME DeviceInv, TreeInv, NEW k \in Channels, request[k] # None, copyDocument(k)
    PROVE  TreeInv'
<1> DEFINE q == request[k]
           source == documents[q.id]
           name == IF q.name = None THEN source.name ELSE q.name
           path == Append(PathOf(q.parent), name)
           document == Document(q.parent, name, path, source.size, source.revision, q.tag)
<1>1. CASE \E code \in {"40401", "40012", "40007"} : Refuse(k, code)
  BY <1>1, SameTree DEF Refuse, store
<1>2. CASE ~\E code \in {"40401", "40012", "40007"} : Refuse(k, code)
  <2>1. /\ q.op = "copy" /\ q.id \in DOMAIN documents /\ q.parent \in Parents
        /\ ~PathTaken(path, None) /\ AddDocument(document, contents[q.id])
    BY <1>2 DEF copyDocument
  <2>2. name \in AllNames
    <3>1. q.name \in AllNames \cup {None}
      BY <2>1, RequestFields DEF DeviceInv
    <3>2. source.name \in AllNames
      BY <2>1 DEF DeviceInv, StoreTypes, DocumentMeta
    <3>3. QED
      BY <3>1, <3>2
  <2>3. document.parent = q.parent /\ document.name = name /\ document.path = path
    BY DEF Document
  <2> HIDE DEF document, name
  <2>4. QED
    BY <2>1, <2>2, <2>3, AddingKeepsTree
<1>3. QED
  BY <1>1, <1>2

\* A document that is changed where it is, or renamed, or moved.
LEMMA ChangingKeepsTree ==
    ASSUME DeviceInv, TreeInv, NEW n \in DOMAIN documents, NEW e,
           folders' = folders, documents' = [documents EXCEPT ![n] = e],
           e.parent \in Parents, e.name \in AllNames, e.path = Append(PathOf(e.parent), e.name),
           e.path = documents[n].path \/ ~PathTaken(e.path, n)
    PROVE  TreeInv'
<1>1. n \in Ids /\ n \notin DOMAIN folders /\ n # Root
  BY IdsAreNumbers DEF DeviceInv, StoreTypes, Ids
<1>2. Ids' = Ids \cup {n} /\ DOMAIN folders' = DOMAIN folders
  BY <1>1 DEF Ids
<1>3. (\A i \in Ids \ {n} : EntryAt(i)' = EntryAt(i)) /\ EntryAt(n)' = e
  BY <1>1 DEF Ids, EntryAt
<1>4. \A i \in Ids \ {n} : EntryAt(i).path # e.path
  <2>1. CASE e.path = documents[n].path
    <3>1. EntryAt(n).path = e.path
      BY <1>1, <2>1 DEF EntryAt
    <3>2. QED
      BY <1>1, <3>1, EntriesApart
  <2>2. CASE ~PathTaken(e.path, n)
    BY <2>2, NotTaken
  <2>3. QED
    BY <2>1, <2>2
<1>5. QED
  BY <1>1, <1>2, <1>3, <1>4, PlacingKeepsTree

LEMMA UploadingKeepsTree ==
    ASSUME DeviceInv, TreeInv, NEW k \in Channels, request[k] # None, uploadDocument(k)
    PROVE  TreeInv'
<1> DEFINE q == request[k]
           new == Revised(documents[q.id], q.body)
<1>1. CASE \E code \in {"40017", "40401"} : Refuse(k, code)
  BY <1>1, SameTree DEF Refuse, store
<1>2. CASE ~\E code \in {"40017", "40401"} : Refuse(k, code)
  <2>1. /\ q.id \in DOMAIN documents /\ folders' = folders
        /\ documents' = [documents EXCEPT ![q.id] = new]
    BY <1>2 DEF uploadDocument
  <2>2. q.id \in Ids /\ EntryAt(q.id) = documents[q.id] /\ documents[q.id] \in DocumentMeta
    BY <2>1 DEF Ids, EntryAt, DeviceInv, StoreTypes
  <2>3. /\ new.parent = documents[q.id].parent /\ new.name = documents[q.id].name
        /\ new.path = documents[q.id].path
    BY <2>2, RevisedIsMeta
  <2>4. /\ documents[q.id].parent \in Parents /\ documents[q.id].name \in AllNames
        /\ documents[q.id].path = Append(PathOf(documents[q.id].parent), documents[q.id].name)
    BY <2>2, EntryFacts
  <2> HIDE DEF new
  <2>5. QED
    BY <2>1, <2>3, <2>4, ChangingKeepsTree
<1>3. QED
  BY <1>1, <1>2

\* The place that an update asks for.
LEMMA UpdatedPlace ==
    ASSUME DeviceInv, TreeInv, NEW q, q.parent \in Parents \cup {None}, q.name \in AllNames \cup {None}
    PROVE  /\ \A i \in DOMAIN documents :
                LET new == Updated(documents[i], q) IN
                new.name \in AllNames /\ new.path = Append(PathOf(new.parent), new.name)
           /\ \A i \in DOMAIN folders :
                LET new == Updated(folders[i], q) IN
                new.name \in AllNames /\ new.path = Append(PathOf(new.parent), new.name)
<1>1. ASSUME NEW i \in DOMAIN documents
      PROVE  LET new == Updated(documents[i], q) IN
             new.name \in AllNames /\ new.path = Append(PathOf(new.parent), new.name)
  <2>1. documents[i] \in DocumentMeta
    BY DEF DeviceInv, StoreTypes
  <2>2. QED
    BY <2>1 DEF Updated, DocumentMeta
<1>2. ASSUME NEW i \in DOMAIN folders
      PROVE  LET new == Updated(folders[i], q) IN
             new.name \in AllNames /\ new.path = Append(PathOf(new.parent), new.name)
  <2>1. folders[i] \in FolderMeta
    BY DEF DeviceInv, StoreTypes
  <2>2. QED
    BY <2>1 DEF Updated, FolderMeta
<1>3. QED
  BY <1>1, <1>2

LEMMA UpdatingDocumentKeepsTree ==
    ASSUME DeviceInv, TreeInv, NEW k \in Channels, request[k] # None, updateDocument(k)
    PROVE  TreeInv'
<1> DEFINE q == request[k]
           new == Updated(documents[q.id], q)
<1>1. CASE \E code \in {"40012", "40007", "40401"} : Refuse(k, code)
  BY <1>1, SameTree DEF Refuse, store
<1>2. CASE ~\E code \in {"40012", "40007", "40401"} : Refuse(k, code)
  <2>1. /\ q.op = "updateDocument" /\ q.id \in DOMAIN documents /\ q.parent \in Parents \cup {None}
        /\ documents' = [documents EXCEPT ![q.id] = new] /\ folders' = folders
        /\ ~(new.path # documents[q.id].path /\ PathTaken(new.path, q.id))
    BY <1>2 DEF updateDocument
  <2>2. q.name \in AllNames \cup {None}
    BY <2>1, RequestFields DEF DeviceInv
  <2>3. new.parent \in Parents
    BY <2>1, <2>2, UpdatedIsMeta
  <2>4. new.name \in AllNames /\ new.path = Append(PathOf(new.parent), new.name)
    BY <2>1, <2>2, UpdatedPlace
  <2> HIDE DEF new
  <2>5. QED
    BY <2>1, <2>3, <2>4, ChangingKeepsTree
<1>3. QED
  BY <1>1, <1>2

\* What the prefix rewriting makes of a path.
LEMMA RebaseMoves ==
    ASSUME NEW old \in Seq(AllNames), NEW new \in Seq(AllNames)
    PROVE  /\ \A f : f \in [DOMAIN f -> FolderMeta] =>
                LET g == Rebase(f, old, new) IN
                \A i \in DOMAIN f :
                   /\ g[i].parent = f[i].parent /\ g[i].name = f[i].name
                   /\ f[i].path # old => g[i].path = Moved(f[i].path, old, new)
           /\ \A d : d \in [DOMAIN d -> DocumentMeta] =>
                LET g == Rebase(d, old, new) IN
                \A i \in DOMAIN d :
                   /\ g[i].parent = d[i].parent /\ g[i].name = d[i].name
                   /\ d[i].path # old => g[i].path = Moved(d[i].path, old, new)
<1>1. ASSUME NEW f, f \in [DOMAIN f -> FolderMeta], NEW i \in DOMAIN f
      PROVE  LET g == Rebase(f, old, new) IN
             /\ g[i].parent = f[i].parent /\ g[i].name = f[i].name
             /\ f[i].path # old => g[i].path = Moved(f[i].path, old, new)
  <2>1. f[i] \in FolderMeta
    BY <1>1
  <2>2. QED
    BY <2>1 DEF Rebase, Moved, IsStrictPrefix, FolderMeta
<1>2. ASSUME NEW d, d \in [DOMAIN d -> DocumentMeta], NEW i \in DOMAIN d
      PROVE  LET g == Rebase(d, old, new) IN
             /\ g[i].parent = d[i].parent /\ g[i].name = d[i].name
             /\ d[i].path # old => g[i].path = Moved(d[i].path, old, new)
  <2>1. d[i] \in DocumentMeta
    BY <1>2
  <2>2. QED
    BY <2>1 DEF Rebase, Moved, IsStrictPrefix, DocumentMeta
<1>3. QED
  BY <1>1, <1>2

\* The step moves no folder into itself or below itself.
StaysOutside ==
    \A f \in DOMAIN folders \cap DOMAIN folders' :
        ~IsPrefix(folders[f].path, PathOf(folders'[f].parent))

LEMMA UpdatingFolderKeepsTree ==
    ASSUME DeviceInv, TreeInv, NEW k \in Channels, request[k] # None, updateFolder(k), StaysOutside
    PROVE  TreeInv'
<1> DEFINE q == request[k]
           old == folders[q.id].path
           new == Updated(folders[q.id], q)
           moved == [folders EXCEPT ![q.id] = new]
<1>1. CASE \E code \in {"40012", "40007", "40401"} : Refuse(k, code)
  BY <1>1, SameTree DEF Refuse, store
<1>2. CASE ~\E code \in {"40012", "40007", "40401"} : Refuse(k, code)
  <2>1. /\ q.op = "updateFolder" /\ q.id \in DOMAIN folders /\ q.parent \in Parents \cup {None}
        /\ ~(new.path # old /\ PathTaken(new.path, q.id))
        /\ folders' = Rebase(moved, old, new.path)
        /\ documents' = Rebase(documents, old, new.path)
    BY <1>2 DEF updateFolder
  <2>2. q.name \in AllNames \cup {None}
    BY <2>1, RequestFields DEF DeviceInv
  <2>3. new \in FolderMeta /\ new.parent \in Parents
    BY <2>1, <2>2, UpdatedIsMeta
  <2>4. new.name \in AllNames /\ new.path = Append(PathOf(new.parent), new.name)
    BY <2>1, <2>2, UpdatedPlace
  <2>5. folders \in [DOMAIN folders -> FolderMeta] /\ documents \in [DOMAIN documents -> DocumentMeta]
    BY DEF DeviceInv, StoreTypes
  <2>6. new.path \in Seq(AllNames) /\ old \in Seq(AllNames)
    BY <2>1, <2>3, <2>5 DEF FolderMeta
  <2>7. PICK g \in DOMAIN folders, p \in Parents, n \in AllNames, a \in Seq(AllNames), b \in Seq(AllNames) :
           g = q.id /\ p = new.parent /\ n = new.name /\ a = old /\ b = new.path
    BY <2>1, <2>3, <2>4, <2>6
  <2>8. /\ DOMAIN moved = DOMAIN folders /\ moved \in [DOMAIN moved -> FolderMeta]
        /\ moved[g] = new /\ \A i \in DOMAIN folders \ {g} : moved[i] = folders[i]
    BY <2>3, <2>5, <2>7
  <2>9. a = folders[g].path /\ b = Append(PathOf(p), n)
    BY <2>4, <2>7
  <2> HIDE DEF moved, new, old
  <2>10. DOMAIN folders' = DOMAIN folders /\ DOMAIN documents' = DOMAIN documents
    BY <2>1, <2>8 DEF Rebase
  <2>11. \A i \in DOMAIN folders :
            /\ folders'[i].parent = moved[i].parent /\ folders'[i].name = moved[i].name
            /\ moved[i].path # a => folders'[i].path = Moved(moved[i].path, a, b)
    BY <2>1, <2>7, <2>8, RebaseMoves
  <2>12. \A i \in DOMAIN documents :
            /\ documents'[i].parent = documents[i].parent /\ documents'[i].name = documents[i].name
            /\ documents[i].path # a => documents'[i].path = Moved(documents[i].path, a, b)
    BY <2>1, <2>5, <2>7, RebaseMoves
  <2>13. g \in Ids /\ EntryAt(g).path = a /\ \A i \in Ids \ {g} : EntryAt(i).path # a
    <3>1. g \in Ids /\ EntryAt(g).path = a
      BY <2>9 DEF Ids, EntryAt
    <3>2. QED
      BY <3>1, EntriesApart
  <2>14. folders'[g].parent = p /\ folders'[g].name = n
    BY <2>7, <2>8, <2>11
  <2>15. ~IsPrefix(a, PathOf(p))
    BY <2>9, <2>10, <2>14 DEF StaysOutside
  \* The new path is not below the old one, so it is not rewritten again.
  <2>16. folders'[g].path = b
    <3>1. moved[g].path = b
      BY <2>7, <2>8
    <3>2. CASE b = a
      <4>1. ~IsStrictPrefix(a, b)
        BY <3>2 DEF IsStrictPrefix
      <4>2. folders'[g] = moved[g]
        BY <2>1, <2>7, <2>8, <3>1, <4>1 DEF Rebase
      <4>3. QED
        BY <3>1, <4>2
    <3>3. CASE b # a
      <4>1. PathOf(p) \in Seq(AllNames)
        BY PathOfParent
      <4>2. ~IsPrefix(a, b)
        BY <2>9, <2>15, <3>3, <4>1, PrefixOfAppend
      <4>3. QED
        BY <2>11, <3>1, <3>3, <4>2 DEF Moved
    <3>4. QED
      BY <3>2, <3>3
  <2>17. \A i \in Ids : EntryAt(i)'.path = Moved(EntryAt(i).path, a, b)
    <3>1. ASSUME NEW i \in DOMAIN folders, i # g
          PROVE  folders'[i].path = Moved(folders[i].path, a, b)
      BY <2>8, <2>11, <2>13, <3>1 DEF Ids, EntryAt
    <3>2. ASSUME NEW i \in DOMAIN documents, i \notin DOMAIN folders
          PROVE  documents'[i].path = Moved(documents[i].path, a, b)
      BY <2>12, <2>13, <3>2 DEF Ids, EntryAt
    <3>3. folders'[g].path = Moved(folders[g].path, a, b)
      BY <2>9, <2>16, MovedItself
    <3>4. QED
      BY <2>10, <3>1, <3>2, <3>3 DEF Ids, EntryAt
  <2>18. \A i \in Ids \ {g} : EntryAt(i)'.parent = EntryAt(i).parent /\ EntryAt(i)'.name = EntryAt(i).name
    BY <2>8, <2>10, <2>11, <2>12 DEF Ids, EntryAt
  <2>19. EntryAt(g)'.parent = p /\ EntryAt(g)'.name = n
    BY <2>10, <2>14 DEF EntryAt
  <2>20. b = a \/ \A i \in Ids \ {g} : EntryAt(i).path # b
    <3>1. b = a \/ ~PathTaken(b, g)
      BY <2>1, <2>7
    <3>2. QED
      BY <3>1, NotTaken
  <2>21. Ids' = Ids
    BY <2>10 DEF Ids
  <2>22. MovesFolder(g, p, n, a, b)
    BY <2>9, <2>10, <2>15, <2>17, <2>18, <2>19, <2>20, <2>21 DEF MovesFolder
  <2>23. QED
    BY <2>22, MovingKeepsTree
<1>3. QED
  BY <1>1, <1>2

LEMMA DeletingDocumentKeepsTree ==
    ASSUME DeviceInv, TreeInv, NEW k \in Channels, request[k] # None, deleteDocument(k)
    PROVE  TreeInv'
<1> DEFINE q == request[k]
<1>1. CASE \E code \in {"40017", "40401"} : Refuse(k, code)
  BY <1>1, SameTree DEF Refuse, store
<1>2. CASE ~\E code \in {"40017", "40401"} : Refuse(k, code)
  <2>1. /\ q.id \in DOMAIN documents /\ folders' = folders
        /\ documents' = Restrict(documents, DOMAIN documents \ {q.id})
    BY <1>2 DEF deleteDocument
  <2>2. PICK n \in DOMAIN documents : n = q.id
    BY <2>1
  <2>3. n \in Ids /\ n \notin DOMAIN folders /\ n # Root
    BY IdsAreNumbers DEF DeviceInv, StoreTypes, Ids
  <2>4. /\ DOMAIN documents' = DOMAIN documents \ {n}
        /\ \A i \in DOMAIN documents' : documents'[i] = documents[i]
    BY <2>1, <2>2 DEF Restrict
  <2>5. Ids' = Ids \ {n} /\ DOMAIN folders' = DOMAIN folders \ {n}
    BY <2>1, <2>3, <2>4 DEF Ids
  <2>6. \A i \in Ids' : EntryAt(i)' = EntryAt(i)
    BY <2>1, <2>4, <2>5 DEF Ids, EntryAt
  <2>7. \A i \in Ids' : EntryAt(i).parent # n
    <3>1. n \notin Parents
      BY <2>3 DEF Parents
    <3>2. QED
      BY <2>5, <3>1, EntryFacts
  <2>8. QED
    BY <2>1, <2>3, <2>5, <2>6, <2>7, RemovingKeepsTree
<1>3. QED
  BY <1>1, <1>2

LEMMA DeletingFolderKeepsTree ==
    ASSUME DeviceInv, TreeInv, NEW k \in Channels, request[k] # None, deleteFolder(k)
    PROVE  TreeInv'
<1> DEFINE q == request[k]
<1>1. CASE \E code \in {"40018", "40401"} : Refuse(k, code)
  BY <1>1, SameTree DEF Refuse, store
<1>2. CASE ~\E code \in {"40018", "40401"} : Refuse(k, code)
  <2>1. /\ q.id \in DOMAIN folders /\ IsEmpty(q.id)
        /\ folders' = Restrict(folders, DOMAIN folders \ {q.id})
        /\ documents' = Restrict(documents, DOMAIN documents)
    BY <1>2, UnforcedDeletion
  <2>2. PICK n \in DOMAIN folders : n = q.id
    BY <2>1
  <2>3. n \in Ids /\ n \notin DOMAIN documents
    BY DEF DeviceInv, StoreTypes, Ids
  <2>4. /\ DOMAIN folders' = DOMAIN folders \ {n} /\ DOMAIN documents' = DOMAIN documents
        /\ \A i \in DOMAIN folders' : folders'[i] = folders[i]
        /\ \A i \in DOMAIN documents' : documents'[i] = documents[i]
    BY <2>1, <2>2 DEF Restrict
  <2>5. Ids' = Ids \ {n}
    BY <2>3, <2>4 DEF Ids
  <2>6. \A i \in Ids' : EntryAt(i)' = EntryAt(i)
    BY <2>4, <2>5 DEF Ids, EntryAt
  <2>7. \A i \in Ids' : EntryAt(i).parent # n
    BY <2>1, <2>2, <2>5 DEF IsEmpty, Children, Ids, EntryAt
  <2>8. QED
    BY <2>3, <2>4, <2>5, <2>6, <2>7, RemovingKeepsTree
<1>3. QED
  BY <1>1, <1>2

LEMMA ServingKeepsTree ==
    ASSUME DeviceInv, TreeInv, NEW k \in Channels, Serve(k), updateFolder(k) => StaysOutside
    PROVE  TreeInv'
<1>1. request[k] # None
  BY DEF Serve
<1>2. CASE getDocument(k) \/ getFolder(k) \/ documentByPath(k) \/ downloadDocument(k)
              \/ openDocument(k) \/ listDocuments(k) \/ listFolders(k)
  BY <1>2, SameTree DEF getDocument, getFolder, documentByPath, downloadDocument, openDocument,
     listDocuments, listFolders, store
<1>3. QED
  BY <1>1, <1>2, CreatingFolderKeepsTree, CreatingDocumentKeepsTree, CopyingKeepsTree,
     UploadingKeepsTree, UpdatingDocumentKeepsTree, UpdatingFolderKeepsTree,
     DeletingDocumentKeepsTree, DeletingFolderKeepsTree
  DEF Serve

-----------------------------------------------------------------------------
(* Theorems.                                                               *)

\* Only the device changes the tree.
LEMMA ClientsKeepTree ==
    ASSUME NEW c \in Clients, ClientStart(c) \/ ClientStep(c) \/ Network(c)
    PROVE  UNCHANGED <<folders, documents>>
<1>1. CASE ClientStart(c)
  BY <1>1 DEF ClientStart, Resolve, ResolvePath, CreateFolder, CreateFolderIn, CreateAndUpload,
    Copy, Replace, UpdateDocument, UpdateFolder, Delete, DeleteEmpty, Start, store
<1>2. CASE ClientStep(c)
  BY <1>2 DEF ClientStep, Resolved, LookAtCreated, VerifyCreated, LookAtUploaded, VerifyUploaded,
    LookAtUpdated, VerifyUpdated, ListBeforeDelete, DeleteIfEmpty, LookForDeleted, VerifyDeleted,
    Fail, End, Continue, store
<1>3. CASE Network(c)
  BY <1>3 DEF Network, LoseRequest, LoseReply, Abandon, store
<1>4. QED
  BY <1>1, <1>2, <1>3

\* An updateFolder that moves nothing below itself is all the tree needs.
LEMMA NextKeepsTree ==
    ASSUME IInv, TreeInv, [Next]_vars, StaysOutside
    PROVE  TreeInv'
<1>1. CASE DeviceStep
  BY <1>1, ServingKeepsTree DEF DeviceStep, IInv
<1>2. ASSUME NEW c \in Clients, ClientStart(c) \/ ClientStep(c) \/ Network(c)
      PROVE  TreeInv'
  BY <1>2, ClientsKeepTree, SameTree
<1>3. CASE UNCHANGED vars
  BY <1>3, SameTree DEF vars, deviceVars, store
<1>4. QED
  BY <1>1, <1>2, <1>3 DEF Next

LEMMA OutsideKeepsTree == IInv /\ TreeInv /\ [Next]_vars /\ [StaysOutside]_vars => TreeInv'
<1> SUFFICES ASSUME IInv, TreeInv, [Next]_vars, [StaysOutside]_vars PROVE TreeInv'
  OBVIOUS
<1>1. CASE StaysOutside
  BY <1>1, NextKeepsTree
<1>2. CASE UNCHANGED vars
  BY <1>2, SameTree DEF vars, deviceVars, store
<1>3. QED
  BY <1>1, <1>2

\* The seeds form a tree: NewState, State.AddFolder, State.AddDocument.
LEMMA SeedsAreTree == Init => TreeInv
<1> SUFFICES ASSUME Init PROVE TreeInv
  OBVIOUS
<1> USE SeedAssumption DEF SeedAssumption
<1>1. folders = SeedFolders /\ documents = SeedDocuments
  BY DEF Init, DeviceInit
<1>2. Ids = SeedIds /\ Parents = DOMAIN SeedFolders \cup {Root}
  BY <1>1 DEF Ids, SeedIds, Parents
<1>3. /\ \A p \in Parents : PathOf(p) = SeedPath(p)
      /\ \A i \in Ids : EntryAt(i) = SeedEntry(i)
  BY <1>1, <1>2 DEF PathOf, SeedPath, EntryAt, SeedEntry, Parents, SeedIds
<1>4. \A i \in Ids : /\ EntryAt(i).parent \in Parents
                     /\ EntryAt(i).path = Append(PathOf(EntryAt(i).parent), EntryAt(i).name)
  BY <1>2, <1>3
<1>5. \A i, j \in Ids : EntryAt(i).path = EntryAt(j).path => i = j
  BY <1>2, <1>3
<1>6. ASSUME NEW i \in Ids PROVE EntryAt(i).path \in Seq(AllNames) /\ EntryAt(i).name \in AllNames
  BY <1>1 DEF Ids, EntryAt, FolderMeta, DocumentMeta
\* A highest entry below a folder that is missing would lie in that folder.
<1>7. AncestorsExist
  <2> DEFINE Fits(i, s) == s # << >> /\ IsStrictPrefix(s, EntryAt(i).path) =>
                              \E f \in DOMAIN folders : folders[f].path = s
             Lost == {n \in Nat : \E i \in Ids, s \in Seq(AllNames) :
                                      ~Fits(i, s) /\ n = Len(EntryAt(i).path)}
  <2>1. ASSUME Lost # {} PROVE FALSE
    <3>1. PICK n \in Lost : \A m \in Lost : ~(<<m, n>> \in OpToRel(<, Nat))
      BY <2>1, NatLessThanWellFounded, WFMin
    <3>2. \A m \in Lost : ~(m < n)
      BY <3>1 DEF OpToRel
    <3>3. PICK i \in Ids, s \in Seq(AllNames) : ~Fits(i, s) /\ n = Len(EntryAt(i).path)
      OBVIOUS
    <3>4. s # << >> /\ IsStrictPrefix(s, EntryAt(i).path) /\ ~\E f \in DOMAIN folders : folders[f].path = s
      BY <3>3
    <3>5. PICK p \in Parents : p = EntryAt(i).parent
      BY <1>4
    <3>6. PathOf(p) \in Seq(AllNames)
      BY <1>6, EmptySeq DEF PathOf, Parents, Ids, EntryAt
    <3>7. EntryAt(i).path = Append(PathOf(p), EntryAt(i).name) /\ EntryAt(i).name \in AllNames
      BY <1>4, <1>6, <3>5
    <3>8. IsPrefix(s, PathOf(p)) /\ n = Len(PathOf(p)) + 1
      BY <3>3, <3>4, <3>6, <3>7, PrefixOfAppend, AppendProperties DEF IsStrictPrefix
    <3>9. p # Root
      <4>1. CASE p = Root
        <5>1. Len(PathOf(p)) = 0 /\ Len(s) \in Nat \ {0}
          BY <3>4, <4>1, EmptySeq DEF PathOf
        <5>2. Len(s) <= Len(PathOf(p))
          BY <3>6, <3>8, PrefixPointwise
        <5>3. QED
          BY <5>1, <5>2
      <4>2. QED
        BY <4>1
    <3>10. p \in DOMAIN folders /\ p \in Ids /\ EntryAt(p).path = PathOf(p) /\ folders[p].path = PathOf(p)
      BY <3>9 DEF Parents, Ids, EntryAt, PathOf
    <3>11. s # PathOf(p)
      BY <3>4, <3>10
    <3>12. ~Fits(p, s)
      BY <3>4, <3>8, <3>10, <3>11 DEF IsStrictPrefix
    <3>13. Len(PathOf(p)) \in Nat /\ Len(PathOf(p)) < n
      BY <3>6, <3>8
    <3>14. Len(PathOf(p)) \in Lost
      BY <3>10, <3>12, <3>13
    <3>15. QED
      BY <3>2, <3>13, <3>14
  <2>2. \A i \in Ids, s \in Seq(AllNames) : Fits(i, s)
    <3>1. \A i \in Ids : Len(EntryAt(i).path) \in Nat
      BY <1>6
    <3>2. QED
      BY <2>1, <3>1
  <2>3. QED
    BY <2>2 DEF AncestorsExist
<1>8. PathsFollowParents /\ PathsAreUnique
  BY <1>4, <1>5 DEF PathsFollowParents, PathsAreUnique, EntryAt
<1>9. QED
  BY <1>7, <1>8 DEF TreeInv

\* No request that is handled moves a folder into itself or below itself.  The
\* simulator does not check that; a device with such a cycle has entries that
\* no path leads to.
NoFolderMovesIntoItself == [][StaysOutside]_vars

\* Paths agree with the parents and name one entry each, whatever is created,
\* copied, renamed, moved and deleted (state.go updateEntry), as long as no
\* folder is moved below itself.
THEOREM TreeStaysInOrder == Spec /\ NoFolderMovesIntoItself => []TreeInv
  BY OutsideKeepsTree, SeedsAreTree, Invariance, PTL DEF Spec, NoFolderMovesIntoItself

\* PathsFollowParents, wherever documents and folders move: every entry lies in
\* a folder that exists, at that folder's path (state.go updateEntry and
\* deleteFolder), as long as no folder is moved below itself.
THEOREM PathsAgreeWithParents == Spec /\ NoFolderMovesIntoItself => []PathsFollowParents
<1>1. TreeInv => PathsFollowParents
  BY DEF TreeInv
<1>2. QED
  BY <1>1, TreeStaysInOrder, PTL

\* PathsAreUnique, wherever documents and folders move: state.go updateEntry
\* looks only for the new path of the folder itself, and no descendant lands on
\* another entry, as long as no folder is moved below itself.
THEOREM PathsNameOneEntry == Spec /\ NoFolderMovesIntoItself => []PathsAreUnique
<1>1. TreeInv => PathsAreUnique
  BY DEF TreeInv
<1>2. QED
  BY <1>1, TreeStaysInOrder, PTL

-----------------------------------------------------------------------------
(* Clients that move folders to the root only meet the hypothesis.         *)

\* A request to move a folder names a place its sender may move to.
MoveAllowed(k) ==
    request[k] # None /\ request[k].op = "updateFolder" => request[k].parent \in MoveTargets \cup {None}
MovesAllowed == \A k \in Channels : MoveAllowed(k)

LEMMA AskingKeepsMoves ==
    ASSUME MovesAllowed, ChannelTypes, NEW c \in Channels, NEW q,
           request' = [request EXCEPT ![c] = q],
           q = None \/ q.op # "updateFolder" \/ q.parent \in MoveTargets \cup {None}
    PROVE  MovesAllowed'
  BY DEF MovesAllowed, MoveAllowed, ChannelTypes

LEMMA StartingKeepsMoves ==
    ASSUME MovesAllowed, ChannelTypes, NEW c \in Clients, ClientStart(c)
    PROVE  MovesAllowed'
<1>1. ASSUME NEW q, Ask(c, q), q.op # "updateFolder" \/ q.parent \in MoveTargets \cup {None}
      PROVE  MovesAllowed'
  BY <1>1, AskingKeepsMoves DEF Ask, Channels
<1>2. CASE Resolve(c)
  BY <1>1, <1>2 DEF Resolve, ResolvePath
<1>3. CASE CreateFolder(c)
  BY <1>1, <1>3 DEF CreateFolder, CreateFolderIn
<1>4. CASE CreateAndUpload(c)
  BY <1>1, <1>4 DEF CreateAndUpload
<1>5. CASE Copy(c)
  BY <1>1, <1>5 DEF Copy
<1>6. CASE Replace(c)
  BY <1>1, <1>6 DEF Replace
<1>7. CASE UpdateDocument(c)
  BY <1>1, <1>7 DEF UpdateDocument
<1>8. CASE UpdateFolder(c)
  BY <1>1, <1>8 DEF UpdateFolder
<1>9. CASE Delete(c)
  BY <1>1, <1>9 DEF Delete
<1>10. CASE DeleteEmpty(c)
  BY <1>1, <1>10 DEF DeleteEmpty
<1>11. QED
  BY <1>2, <1>3, <1>4, <1>5, <1>6, <1>7, <1>8, <1>9, <1>10 DEF ClientStart

LEMMA ContinuingKeepsMoves ==
    ASSUME MovesAllowed, ChannelTypes, NEW c \in Clients, ClientStep(c)
    PROVE  MovesAllowed'
<1>1. ASSUME NEW q, NEW args, NEW step, Continue(c, q, args, step), q.op # "updateFolder"
      PROVE  MovesAllowed'
  BY <1>1, AskingKeepsMoves DEF Continue, Ask, Channels
<1>2. CASE request' = request
  BY <1>2 DEF MovesAllowed, MoveAllowed
<1>3. CASE Resolved(c)
  BY <1>1, <1>2, <1>3 DEF Resolved, Fail, End
<1>4. CASE LookAtCreated(c)
  BY <1>1, <1>2, <1>4 DEF LookAtCreated, Fail, End
<1>5. CASE VerifyCreated(c)
  BY <1>1, <1>2, <1>5 DEF VerifyCreated, Fail, End
<1>6. CASE LookAtUploaded(c)
  BY <1>1, <1>2, <1>6 DEF LookAtUploaded, Fail, End
<1>7. CASE VerifyUploaded(c)
  BY <1>1, <1>2, <1>7 DEF VerifyUploaded, Fail, End
<1>8. CASE LookAtUpdated(c)
  BY <1>1, <1>2, <1>8 DEF LookAtUpdated, Fail, End
<1>9. CASE VerifyUpdated(c)
  BY <1>1, <1>2, <1>9 DEF VerifyUpdated, Fail, End
<1>10. CASE ListBeforeDelete(c)
  BY <1>1, <1>2, <1>10 DEF ListBeforeDelete, Fail, End
<1>11. CASE DeleteIfEmpty(c)
  <2> DEFINE q == [op |-> "deleteFolder", id |-> call[c].id, force |-> "false"]
  <2>1. request' = request \/ Continue(c, q, call[c], "deleted")
    BY <1>11 DEF DeleteIfEmpty, Fail, End
  <2>2. q.op # "updateFolder"
    OBVIOUS
  <2> HIDE DEF q
  <2>3. QED
    BY <1>1, <1>2, <2>1, <2>2
<1>12. CASE LookForDeleted(c)
  BY <1>1, <1>2, <1>12 DEF LookForDeleted, Fail, End
<1>13. CASE VerifyDeleted(c)
  BY <1>1, <1>2, <1>13 DEF VerifyDeleted, Fail, End
<1>14. QED
  BY <1>3, <1>4, <1>5, <1>6, <1>7, <1>8, <1>9, <1>10, <1>11, <1>12, <1>13 DEF ClientStep

LEMMA NetworkKeepsMoves ==
    ASSUME MovesAllowed, ChannelTypes, NEW c \in Clients, Network(c)
    PROVE  MovesAllowed'
<1>1. c \in Channels
  BY DEF Channels
<1>2. CASE LoseRequest(c)
  BY <1>1, <1>2, AskingKeepsMoves DEF LoseRequest, Answer
<1>3. CASE LoseReply(c)
  BY <1>3 DEF LoseReply, MovesAllowed, MoveAllowed
<1>4. CASE Abandon(c)
  BY <1>4 DEF Abandon, MovesAllowed, MoveAllowed, ChannelTypes, Channels
<1>5. QED
  BY <1>2, <1>3, <1>4 DEF Network

LEMMA ServingKeepsMoves ==
    ASSUME MovesAllowed, ChannelTypes, NEW k \in Channels, Serve(k)
    PROVE  MovesAllowed'
<1>1. CASE listDocuments(k)
  BY <1>1, AskingKeepsMoves DEF listDocuments
<1>2. CASE ~listDocuments(k)
  <2>1. request' = [request EXCEPT ![k] = None]
    BY <1>2 DEF Serve, createFolder, createDocument, copyDocument, uploadDocument, updateDocument,
      updateFolder, deleteDocument, deleteFolder, getDocument, getFolder, documentByPath,
      downloadDocument, openDocument, listFolders, Answer, Refuse
  <2>2. QED
    BY <2>1, AskingKeepsMoves
<1>3. QED
  BY <1>1, <1>2

LEMMA NextKeepsMoves == IInv /\ MovesAllowed /\ [Next]_vars => MovesAllowed'
<1> SUFFICES ASSUME IInv, MovesAllowed, [Next]_vars PROVE MovesAllowed'
  OBVIOUS
<1>1. ChannelTypes
  BY DEF IInv, DeviceInv
<1>2. CASE DeviceStep
  BY <1>1, <1>2, ServingKeepsMoves DEF DeviceStep
<1>3. ASSUME NEW c \in Clients, ClientStart(c) \/ ClientStep(c) \/ Network(c)
      PROVE  MovesAllowed'
  BY <1>1, <1>3, StartingKeepsMoves, ContinuingKeepsMoves, NetworkKeepsMoves
<1>4. CASE UNCHANGED vars
  BY <1>4 DEF vars, deviceVars, MovesAllowed, MoveAllowed
<1>5. QED
  BY <1>2, <1>3, <1>4 DEF Next

\* A folder is not in its own parent's path.
LEMMA ParentIsOutside ==
    ASSUME DeviceInv, TreeInv, NEW f \in DOMAIN folders, NEW p \in Parents,
           p \in {folders[f].parent, Root}
    PROVE  ~IsPrefix(folders[f].path, PathOf(p))
<1>1. f \in Ids /\ EntryAt(f) = folders[f]
  BY DEF Ids, EntryAt
<1>2. PICK q \in Parents, n \in AllNames : q = folders[f].parent /\ folders[f].path = Append(PathOf(q), n)
  BY <1>1, EntryFacts
<1>3. PathOf(q) \in Seq(AllNames) /\ PathOf(p) \in Seq(AllNames)
  BY PathOfParent
<1>4. /\ folders[f].path \in Seq(AllNames) /\ Len(folders[f].path) = Len(PathOf(q)) + 1
      /\ Len(PathOf(q)) \in Nat
  BY <1>2, <1>3, AppendProperties
<1>5. Len(PathOf(p)) < Len(folders[f].path) /\ Len(PathOf(p)) \in Nat
  <2>1. CASE p = q
    BY <1>4, <2>1
  <2>2. CASE p = Root
    <3>1. Len(PathOf(p)) = 0
      BY <2>2, EmptySeq DEF PathOf
    <3>2. QED
      BY <1>4, <3>1
  <2>3. QED
    BY <1>2, <2>1, <2>2
<1>6. ASSUME IsPrefix(folders[f].path, PathOf(p)) PROVE Len(folders[f].path) <= Len(PathOf(p))
  BY <1>3, <1>4, <1>6, PrefixPointwise
<1>7. QED
  BY <1>4, <1>5, <1>6

\* Nor does it get there when something else is handled than an update of it.
LEMMA OthersMoveNoFolder ==
    ASSUME DeviceInv, NEW k \in Channels, Serve(k), ~updateFolder(k)
    PROVE  \A f \in DOMAIN folders \cap DOMAIN folders' : folders'[f] = folders[f]
<1>1. CASE createFolder(k)
  <2> DEFINE new == Folder(request[k].parent, request[k].name, Append(PathOf(request[k].parent), request[k].name))
  <2>1. FreshID \notin DOMAIN folders
    BY NewNumber DEF Ids, FreshID
  <2>2. \/ folders' = folders
        \/ folders' = [i \in DOMAIN folders \cup {FreshID} |-> IF i = FreshID THEN new ELSE folders[i]]
    BY <1>1 DEF createFolder, Refuse, store
  <2> HIDE DEF new
  <2>3. QED
    BY <2>1, <2>2
<1>2. CASE deleteFolder(k)
  <2>1. CASE folders' = folders
    BY <2>1
  <2>2. CASE folders' # folders
    <3>1. PICK gone : folders' = Restrict(folders, DOMAIN folders \ gone)
      BY <1>2, <2>2, Zenon DEF deleteFolder, Refuse, store
    <3>2. QED
      BY <3>1 DEF Restrict
  <2>3. QED
    BY <2>1, <2>2
<1>3. CASE ~createFolder(k) /\ ~deleteFolder(k)
  <2>1. folders' = folders
    BY <1>3 DEF Serve, createDocument, copyDocument, uploadDocument, updateDocument, deleteDocument,
      getDocument, getFolder, documentByPath, downloadDocument, openDocument, listDocuments,
      listFolders, AddDocument, Refuse, store
  <2>2. QED
    BY <2>1
<1>4. QED
  BY <1>1, <1>2, <1>3

\* Nor by a rename, or by a move to the root.
LEMMA MovesToRootStayOutside ==
    ASSUME DeviceInv, TreeInv, MovesAllowed, MoveTargets \subseteq {Root}, NEW k \in Channels, Serve(k)
    PROVE  StaysOutside
<1> DEFINE q == request[k]
           new == Updated(folders[q.id], q)
           moved == [folders EXCEPT ![q.id] = new]
<1>1. \A f \in DOMAIN folders : {folders[f].parent, Root} \subseteq Parents
  BY DEF DeviceInv, ParentsExist, Parents
<1>2. CASE ~updateFolder(k)
  <2>1. \A f \in DOMAIN folders \cap DOMAIN folders' : folders'[f].parent = folders[f].parent
    BY <1>2, OthersMoveNoFolder
  <2>2. QED
    BY <1>1, <2>1, ParentIsOutside DEF StaysOutside
<1>3. CASE updateFolder(k) /\ \E code \in {"40012", "40007", "40401"} : Refuse(k, code)
  <2>1. folders' = folders
    BY <1>3 DEF Refuse, store
  <2>2. QED
    BY <1>1, <2>1, ParentIsOutside DEF StaysOutside
<1>4. CASE updateFolder(k) /\ ~\E code \in {"40012", "40007", "40401"} : Refuse(k, code)
  <2>1. /\ q.op = "updateFolder" /\ q.id \in DOMAIN folders /\ q.parent \in Parents \cup {None}
        /\ folders' = Rebase(moved, folders[q.id].path, new.path)
    BY <1>4 DEF updateFolder
  <2>2. folders \in [DOMAIN folders -> FolderMeta]
    BY DEF DeviceInv, StoreTypes
  <2>3. q.parent \in {Root, None}
    BY <2>1 DEF MovesAllowed, MoveAllowed, Serve
  <2>4. new.parent \in {folders[q.id].parent, Root}
    BY <2>1, <2>2, <2>3 DEF Updated, FolderMeta
  <2>5. DOMAIN folders' = DOMAIN folders
    BY <2>1, <2>2 DEF Rebase
  <2>6. ASSUME NEW f \in DOMAIN folders
        PROVE  folders'[f].parent \in {folders[f].parent, Root}
    <3>1. folders'[f].parent = moved[f].parent
      <4>1. moved[f] = IF f = q.id THEN new ELSE folders[f]
        BY <2>1, <2>2
      <4>2. "parent" \in DOMAIN moved[f]
        BY <2>1, <2>2, <4>1 DEF FolderMeta, Updated
      <4> HIDE DEF moved, new
      <4>3. DOMAIN moved = DOMAIN folders
        BY <2>2 DEF moved
      <4>4. folders'[f] = IF IsStrictPrefix(folders[q.id].path, moved[f].path)
                          THEN [moved[f] EXCEPT !.path = new.path \o SubSeq(@, Len(folders[q.id].path) + 1, Len(@))]
                          ELSE moved[f]
        BY <2>1, <4>3 DEF Rebase
      <4>5. QED
        BY <4>2, <4>4
    <3>2. QED
      BY <2>1, <2>2, <2>4, <3>1
  <2>7. QED
    BY <1>1, <2>5, <2>6, ParentIsOutside DEF StaysOutside
<1>5. QED
  BY <1>2, <1>3, <1>4

\* The hypothesis of the theorems above holds of all clients that move folders
\* to the root only, whatever else they do.
THEOREM MovesToTheRootAreHarmless ==
    ASSUME MoveTargets \subseteq {Root}
    PROVE  Spec => NoFolderMovesIntoItself
<1>1. Init => MovesAllowed
  BY DEF Init, DeviceInit, MovesAllowed, MoveAllowed
<1>2. IInv /\ TreeInv /\ MovesAllowed /\ [Next]_vars => [StaysOutside]_vars
  <2> SUFFICES ASSUME IInv, TreeInv, MovesAllowed, [Next]_vars PROVE StaysOutside \/ UNCHANGED vars
    OBVIOUS
  <2>1. CASE DeviceStep
    BY <2>1, MovesToRootStayOutside DEF DeviceStep, IInv
  <2>2. ASSUME NEW c \in Clients, ClientStart(c) \/ ClientStep(c) \/ Network(c)
        PROVE  StaysOutside
    <3>1. folders' = folders
      BY <2>2, ClientsKeepTree
    <3>2. \A f \in DOMAIN folders : folders[f].parent \in Parents
      BY DEF IInv, DeviceInv, ParentsExist, Parents
    <3>3. ASSUME NEW f \in DOMAIN folders
          PROVE  ~IsPrefix(folders[f].path, PathOf(folders[f].parent))
      BY <3>2, <3>3, ParentIsOutside DEF IInv
    <3>4. QED
      BY <3>1, <3>3 DEF StaysOutside
  <2>3. QED
    BY <2>1, <2>2 DEF Next
<1>3. QED
  BY <1>1, <1>2, OutsideKeepsTree, SeedsAreTree, NextKeepsMoves, Invariance, PTL
  DEF Spec, NoFolderMovesIntoItself

=============================================================================
