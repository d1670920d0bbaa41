--------------------------- MODULE TopicName_proof ---------------------------
(***************************************************************************)
(* For every set of letters and every spelling, simplify_topic_name returns *)
(* a simple name, the canonical one of its spelling, and the subscriber     *)
(* takes no component of it for an info file.                               *)
(***************************************************************************)
EXTENDS InfoFileName, FiniteSetTheorems, SequenceTheorems, TLAPS

USE CharAssumption DEF CharAssumption

(* The loop starts with every variable in its type.                          *)
LEMMA InitType == Init => TypeOK
<1> SUFFICES ASSUME Init PROVE TypeOK
  OBVIOUS
<1>1. topic_name \in Seq(Char)
  BY NamesAssumption DEF Init, NamesAssumption
<1>2. index \in 1 .. Len(topic_name) + 1
  BY <1>1 DEF Init
<1>3. topic_name_new \in Seq(Char)
  BY DEF Init
<1> QED
  BY <1>1, <1>2, <1>3 DEF Init, TypeOK

(* Every variable of the loop keeps its type, in particular the index never  *)
(* runs past the spelling (common.h:64).                                     *)
THEOREM TypeCorrect == Spec => []TypeOK
<1>1. Init => TypeOK
  BY InitType
<1>2. TypeOK /\ [Next]_vars => TypeOK'
  <2> SUFFICES ASSUME TypeOK, [Next]_vars PROVE TypeOK'
    OBVIOUS
  <2> USE DEF TypeOK, Looking
  <2>1. CASE SkipService
    BY <2>1 DEF SkipService
  <2>2. CASE TakeSlash
    BY <2>2 DEF TakeSlash, Char
  <2>3. CASE TakeLetter
    <3>1. topic_name[index] \in Char
      BY <2>3 DEF TakeLetter, Char
    <3>2. Append(topic_name_new, topic_name[index]) \in Seq(Char)
      BY <3>1
    <3>3. index + 1 \in 1 .. Len(topic_name) + 1
      BY <2>3 DEF TakeLetter
    <3> QED
      BY <2>3, <3>2, <3>3 DEF TakeLetter
  <2>4. CASE Return
    BY <2>4 DEF Return, Trimmed
  <2>5. CASE UNCHANGED vars
    BY <2>5 DEF vars
  <2> QED
    BY <2>1, <2>2, <2>3, <2>4, <2>5 DEF Next
<1> QED
  BY <1>1, <1>2, PTL DEF Spec

(* Appending a character keeps a name simple when the character is allowed   *)
(* after the last one.                                                       *)
LEMMA AppendSimple ==
  ASSUME NEW name \in Seq(Char), NEW c \in Char,
         Simple(name), c # Service,
         c = Slash => name # <<>> /\ ~EndsInSlash(name)
  PROVE  Simple(Append(name, c))
  BY DEF Simple, EndsInSlash

(* A name ends in the character appended last.                               *)
LEMMA SlashLast ==
  ASSUME NEW name \in Seq(Char), NEW c \in Char
  PROVE  EndsInSlash(Append(name, c)) <=> c = Slash
<1>1. /\ Append(name, c) \in Seq(Char)
      /\ Len(Append(name, c)) = Len(name) + 1
      /\ Append(name, c)[Len(name) + 1] = c
  OBVIOUS
<1> QED
  BY <1>1 DEF EndsInSlash

(* Dropping the trailing slash of a simple name leaves one that does not end *)
(* in a slash.                                                               *)
LEMMA TrimmedSimple ==
  ASSUME NEW name \in Seq(Char), Simple(name)
  PROVE  Simple(Trimmed(name)) /\ ~EndsInSlash(Trimmed(name))
<1>1. CASE EndsInSlash(name)
  <2>1. Trimmed(name) = SubSeq(name, 1, Len(name) - 1)
    BY <1>1 DEF Trimmed, EndsInSlash
  <2>2. /\ Len(name) \in Nat \ {0}
        /\ Len(Trimmed(name)) = Len(name) - 1
        /\ \A i \in 1 .. Len(name) - 1 : Trimmed(name)[i] = name[i]
    <3>1. Len(name) \in Nat \ {0}
      BY <1>1 DEF EndsInSlash
    <3>2. \A i \in 1 .. Len(name) - 1 : name[i] \in Char
      BY <3>1
    <3>3. /\ Len(SubSeq(name, 1, Len(name) - 1)) = Len(name) - 1
          /\ \A i \in 1 .. (Len(name) - 1) - 1 + 1 :
               SubSeq(name, 1, Len(name) - 1)[i] = name[1 + i - 1]
      <4> DEFINE n == Len(name) - 1
      <4>1. n \in Nat
        BY <3>1
      <4>2. \A i \in 1 .. n : name[i] \in Char
        BY <3>2
      <4> HIDE DEF n
      <4>3. /\ Len(SubSeq(name, 1, n)) = IF 1 <= n THEN n - 1 + 1 ELSE 0
            /\ \A i \in 1 .. n - 1 + 1 : SubSeq(name, 1, n)[i] = name[1 + i - 1]
        BY <4>1, <4>2, SubSeqProperties
      <4>4. Len(SubSeq(name, 1, n)) = n
        BY <4>1, <4>3
      <4> QED
        BY <4>3, <4>4 DEF n
    <3> QED
      BY <2>1, <3>1, <3>3
  <2>3. Simple(Trimmed(name))
    BY <2>2 DEF Simple
  <2>4. ~EndsInSlash(Trimmed(name))
    <3> SUFFICES ASSUME EndsInSlash(Trimmed(name)) PROVE FALSE
      OBVIOUS
    <3>1. Trimmed(name) \in Seq(Char)
      BY <2>1
    <3>2. Len(name) - 1 \in 1 .. Len(name) /\ name[Len(name) - 1] = Slash
      BY <2>2, <3>1 DEF EndsInSlash
    <3> QED
      BY <1>1, <2>2, <3>2 DEF Simple, EndsInSlash
  <2> QED
    BY <2>3, <2>4
<1>2. CASE ~EndsInSlash(name)
  BY <1>2 DEF Trimmed, EndsInSlash
<1> QED
  BY <1>1, <1>2

(* What the loop keeps true, and what it returns.                            *)
SimpleInv == TypeOK /\ BuiltSimple /\ ReturnsSimple

(* The name returned (common.h:88) is simple and does not end in a slash,    *)
(* for every spelling; once_slash (common.h:63) is exact while it is built.  *)
THEOREM SimplifiedName == Spec => [](BuiltSimple /\ ReturnsSimple)
<1>1. Init => SimpleInv
  <2> SUFFICES ASSUME Init PROVE BuiltSimple /\ ReturnsSimple
    BY InitType DEF SimpleInv
  <2> QED
    BY DEF Init, BuiltSimple, ReturnsSimple, Simple
<1>2. SimpleInv /\ TypeOK' /\ [Next]_vars => SimpleInv'
  <2> SUFFICES ASSUME SimpleInv, TypeOK', [Next]_vars
               PROVE  BuiltSimple' /\ ReturnsSimple'
    BY DEF SimpleInv
  <2> USE DEF SimpleInv
  <2>1. CASE SkipService
    BY <2>1 DEF SkipService, Looking, BuiltSimple, ReturnsSimple
  <2>2. CASE TakeSlash
    <3>1. CASE ~once_slash /\ Len(topic_name_new) > 0
      <4>1. /\ topic_name_new' = Append(topic_name_new, Slash)
            /\ once_slash' /\ pc' = "loop"
        BY <2>2, <3>1 DEF TakeSlash, Looking
      <4>2. topic_name_new # <<>> /\ ~EndsInSlash(topic_name_new)
        BY <2>2, <3>1 DEF TakeSlash, Looking, BuiltSimple, TypeOK
      <4>3. Simple(topic_name_new')
        BY <4>1, <4>2, AppendSimple DEF BuiltSimple, TypeOK, Char
      <4>4. EndsInSlash(topic_name_new')
        BY <4>1, SlashLast DEF TypeOK
      <4> QED
        BY <4>1, <4>3, <4>4 DEF BuiltSimple, ReturnsSimple
    <3>2. CASE ~(~once_slash /\ Len(topic_name_new) > 0)
      BY <2>2, <3>2 DEF TakeSlash, Looking, BuiltSimple, ReturnsSimple, TypeOK
    <3> QED
      BY <3>1, <3>2
  <2>3. CASE TakeLetter
    <3> DEFINE c == topic_name[index]
    <3>1. /\ topic_name_new' = Append(topic_name_new, c)
          /\ ~once_slash' /\ pc' = "loop"
          /\ c \in Letter
      BY <2>3 DEF TakeLetter, Looking
    <3>2. c \in Char /\ c # Service /\ c # Slash
      BY <3>1 DEF Char
    <3>3. Simple(topic_name_new')
      BY <3>1, <3>2, AppendSimple DEF BuiltSimple, TypeOK
    <3>4. ~EndsInSlash(topic_name_new')
      BY <3>1, <3>2, SlashLast DEF TypeOK
    <3> QED
      BY <3>1, <3>3, <3>4 DEF BuiltSimple, ReturnsSimple
  <2>4. CASE Return
    <3>1. Simple(topic_name_new') /\ ~EndsInSlash(topic_name_new')
      BY <2>4, TrimmedSimple DEF Return, BuiltSimple, TypeOK
    <3> QED
      BY <2>4, <3>1 DEF Return, BuiltSimple, ReturnsSimple
  <2>5. CASE UNCHANGED vars
    BY <2>5 DEF vars, BuiltSimple, ReturnsSimple
  <2> QED
    BY <2>1, <2>2, <2>3, <2>4, <2>5 DEF Next
<1>3. SimpleInv => BuiltSimple /\ ReturnsSimple
  BY DEF SimpleInv
<1> QED
  BY <1>1, <1>2, <1>3, TypeCorrect, PTL DEF Spec

(* The slash flag and the name built so far agree at every character         *)
(* (common.h:70-82).                                                         *)
THEOREM FlagExact == Spec => []BuiltSimple
  BY SimplifiedName, PTL
-----------------------------------------------------------------------------
(* The canonical name. *)

(* What the loop copies before a position is a finite set of positions.      *)
LEMMA CopiedFinite ==
  ASSUME NEW s \in Seq(Char), NEW i \in Nat
  PROVE  /\ Copied(s, i) \in SUBSET (1 .. i - 1)
         /\ IsFiniteSet(Copied(s, i))
         /\ Cardinality(Copied(s, i)) \in Nat
         /\ Cardinality(Copied(s, i)) = 0 <=> Copied(s, i) = {}
<1>1. Copied(s, i) \in SUBSET (1 .. i - 1)
  BY DEF Copied
<1>2. IsFiniteSet(1 .. i - 1)
  BY FS_Interval
<1>3. IsFiniteSet(Copied(s, i))
  BY <1>1, <1>2, FS_Subset
<1> QED
  BY <1>1, <1>3, FS_CardinalityType, FS_EmptySet

(* One position further the loop has copied one character more or as many,   *)
(* and what precedes decides about the next slash.                           *)
LEMMA CopiedStep ==
  ASSUME NEW s \in Seq(Char), NEW i \in 1 .. Len(s)
  PROVE  /\ s[i] \in Letter => /\ Copied(s, i + 1) = Copied(s, i) \union {i}
                               /\ AfterLetter(s, i + 1)
         /\ s[i] = Slash => /\ Copied(s, i + 1) = IF AfterLetter(s, i) THEN Copied(s, i) \union {i}
                                                                       ELSE Copied(s, i)
                            /\ ~AfterLetter(s, i + 1)
         /\ s[i] = Service => /\ Copied(s, i + 1) = Copied(s, i)
                              /\ AfterLetter(s, i + 1) <=> AfterLetter(s, i)
         /\ i \notin Copied(s, i)
<1>1. \A k : k \in 1 .. i + 1 - 1 <=> k \in 1 .. i - 1 \/ k = i
  OBVIOUS
<1>2. /\ s[i] \in Letter => Copied(s, i + 1) = Copied(s, i) \union {i}
      /\ s[i] = Slash => Copied(s, i + 1) = IF AfterLetter(s, i) THEN Copied(s, i) \union {i}
                                                                 ELSE Copied(s, i)
      /\ s[i] = Service => Copied(s, i + 1) = Copied(s, i)
      /\ i \notin Copied(s, i)
  <2>1. i \notin Copied(s, i)
    BY DEF Copied
  <2> DEFINE stays == s[i] \in Letter \/ (s[i] = Slash /\ AfterLetter(s, i))
  <2>2. i \in Copied(s, i + 1) <=> stays
    BY <1>1 DEF Copied
  <2>3. ASSUME NEW k, k # i
        PROVE  k \in Copied(s, i + 1) <=> k \in Copied(s, i)
    BY <1>1, <2>3 DEF Copied
  <2>4. Copied(s, i + 1) = IF stays THEN Copied(s, i) \union {i} ELSE Copied(s, i)
    <3> HIDE DEF stays
    <3> DEFINE C == Copied(s, i)
               D == Copied(s, i + 1)
    <3>1. /\ i \notin C
          /\ i \in D <=> stays
          /\ \A k : k # i => (k \in D <=> k \in C)
      BY <2>1, <2>2, <2>3
    <3> HIDE DEF C, D
    <3>2. D = IF stays THEN C \union {i} ELSE C
      BY <3>1
    <3> QED
      BY <3>2 DEF C, D
  <2>5. /\ s[i] \in Letter => stays
        /\ s[i] = Slash => (stays <=> AfterLetter(s, i))
        /\ s[i] = Service => ~stays
    OBVIOUS
  <2> HIDE DEF stays
  <2> QED
    BY <2>1, <2>4, <2>5
<1>3. s[i] \in Letter => AfterLetter(s, i + 1)
  <2>1. i \in 1 .. i + 1 - 1 /\ \A k \in i + 1 .. i + 1 - 1 : s[k] = Service
    OBVIOUS
  <2> QED
    BY <2>1 DEF AfterLetter
<1>4. s[i] = Slash => ~AfterLetter(s, i + 1)
  BY DEF AfterLetter
<1>5. s[i] = Service => (AfterLetter(s, i + 1) <=> AfterLetter(s, i))
  BY DEF AfterLetter
<1> QED
  BY <1>2, <1>3, <1>4, <1>5

(* Two slashes that the loop copies have a letter between them.              *)
LEMMA LetterBetween ==
  ASSUME NEW s \in Seq(Char), NEW i \in 1 .. Len(s), NEW j \in 1 .. Len(s), i < j,
         s[i] = Slash, AfterLetter(s, j)
  PROVE  \E h \in i + 1 .. j - 1 : s[h] \in Letter
<1>1. PICK h \in 1 .. j - 1 : s[h] \in Letter /\ \A k \in h + 1 .. j - 1 : s[k] = Service
  BY DEF AfterLetter
<1>2. ~(h < i) /\ h # i
  BY <1>1
<1> QED
  BY <1>1, <1>2

(* When the last character copied is a letter it is the last one kept, and   *)
(* otherwise it is the only one that is dropped.                             *)
LEMMA KeptOfCopied ==
  ASSUME NEW s \in Seq(Char), NEW m \in Copied(s, Len(s) + 1),
         Copied(s, m + 1) = Copied(s, Len(s) + 1)
  PROVE  /\ s[m] \in Letter => Kept(s) = Copied(s, Len(s) + 1)
         /\ s[m] = Slash => Kept(s) = Copied(s, Len(s) + 1) \ {m}
<1> DEFINE S == Copied(s, Len(s) + 1)
<1>1. m \in 1 .. Len(s) /\ S \in SUBSET (1 .. Len(s)) /\ Kept(s) \subseteq S
  BY DEF Copied, Kept
<1>2. \A k \in S : k <= m
  BY <1>1 DEF Copied
<1>3. \A j \in 1 .. Len(s) : s[j] \in Letter => j \in S
  BY DEF Copied
<1>4. CASE s[m] \in Letter
  <2>1. ASSUME NEW k \in S PROVE k \in Kept(s)
    <3>1. CASE s[k] \in Letter
      BY <1>1, <3>1 DEF Kept
    <3>2. CASE s[k] = Slash /\ AfterLetter(s, k)
      <4>1. m \in k + 1 .. Len(s)
        BY <1>1, <1>2, <1>4, <3>2
      <4> QED
        BY <1>1, <1>4, <3>2, <4>1 DEF Kept
    <3> QED
      BY <3>1, <3>2 DEF Copied
  <2> QED
    BY <1>1, <1>4, <2>1
<1>5. CASE s[m] = Slash
  <2>1. m \notin Kept(s)
    BY <1>1, <1>2, <1>3, <1>5 DEF Kept
  <2>2. AfterLetter(s, m)
    BY <1>5 DEF Copied
  <2>3. ASSUME NEW k \in S, k # m PROVE k \in Kept(s)
    <3>1. k < m /\ k \in 1 .. Len(s)
      BY <1>1, <1>2, <2>3
    <3>2. CASE s[k] \in Letter
      BY <3>1, <3>2 DEF Kept
    <3>3. CASE s[k] = Slash /\ AfterLetter(s, k)
      <4>1. \E h \in k + 1 .. m - 1 : s[h] \in Letter
        BY <1>1, <2>2, <3>1, <3>3, LetterBetween
      <4>2. \E h \in k + 1 .. Len(s) : s[h] \in Letter
        BY <1>1, <4>1
      <4> QED
        BY <3>1, <3>3, <4>2 DEF Kept
    <3> QED
      BY <3>2, <3>3 DEF Copied
  <2> QED
    BY <1>1, <1>5, <2>1, <2>3
<1> QED
  BY <1>4, <1>5

(* A name that copies what the loop copied, without its trailing slash, is   *)
(* the canonical one.                                                        *)
LEMMA TrimmedCanonical ==
  ASSUME NEW s \in Seq(Char), NEW name \in Seq(Char),
         Len(name) = Cardinality(Copied(s, Len(s) + 1)),
         \A k \in Copied(s, Len(s) + 1) : name[Cardinality(Copied(s, k + 1))] = s[k],
         name # <<>> =>
           \E m \in Copied(s, Len(s) + 1) : Copied(s, m + 1) = Copied(s, Len(s) + 1)
  PROVE  IsCanonical(Trimmed(name), s)
<1> DEFINE S == Copied(s, Len(s) + 1)
<1>1. Len(s) + 1 \in Nat /\ S \in SUBSET (1 .. Len(s)) /\ IsFiniteSet(S) /\ Kept(s) \subseteq S
  <2>1. Len(s) + 1 \in Nat /\ Len(s) + 1 - 1 = Len(s)
    OBVIOUS
  <2>2. Kept(s) \subseteq S
    BY DEF Kept, Copied
  <2>3. S \in SUBSET (1 .. Len(s) + 1 - 1) /\ IsFiniteSet(S)
    BY <2>1, CopiedFinite
  <2> HIDE DEF S
  <2> QED
    BY <2>1, <2>2, <2>3
<1>2. \A k \in S : S \intersect 1 .. k = Copied(s, k + 1)
  BY <1>1 DEF Copied
<1>3. CASE name = <<>>
  <2>1. S = {}
    BY <1>1, <1>3, CopiedFinite
  <2>2. Kept(s) = {}
    BY <1>1, <2>1
  <2>3. Trimmed(name) = <<>>
    BY <1>3 DEF Trimmed
  <2> QED
    BY <2>2, <2>3, FS_EmptySet DEF IsCanonical
<1>4. CASE name # <<>>
  <2>1. PICK m \in S : Copied(s, m + 1) = S
    BY <1>4
  <2>2. name[Len(name)] = s[m]
    BY <2>1
  <2>3. s[m] \in Letter \/ s[m] = Slash
    BY <2>1 DEF Copied
  <2>4. CASE s[m] \in Letter
    <3>1. Trimmed(name) = name
      BY <2>2, <2>4 DEF Trimmed
    <3>2. Kept(s) = S
      BY <2>1, <2>4, KeptOfCopied
    <3> QED
      BY <1>2, <3>1, <3>2 DEF IsCanonical
  <2>5. CASE s[m] = Slash
    <3>1. Trimmed(name) = SubSeq(name, 1, Len(name) - 1)
      BY <1>4, <2>2, <2>5 DEF Trimmed
    <3>2. Kept(s) = S \ {m}
      BY <2>1, <2>5, KeptOfCopied
    <3>3. IsFiniteSet(Kept(s)) /\ Cardinality(Kept(s)) = Len(name) - 1
      <4>1. IsFiniteSet(S) /\ m \in S /\ Cardinality(S) = Len(name)
        BY <1>1, <2>1
      <4> HIDE DEF S
      <4>2. IsFiniteSet(S \ {m}) /\ Cardinality(S \ {m}) = Cardinality(S) - 1
        BY <4>1, FS_RemoveElement
      <4> QED
        BY <3>2, <4>1, <4>2
    <3>4. Len(name) - 1 \in Nat /\ Len(name) - 1 < Len(name)
      BY <3>3, FS_CardinalityType
    <3>5. /\ Len(Trimmed(name)) = Len(name) - 1
          /\ \A i \in 1 .. Len(name) - 1 : Trimmed(name)[i] = name[i]
      BY <3>1, <3>4
    <3>6. ASSUME NEW k \in Kept(s)
          PROVE  Trimmed(name)[Cardinality(Kept(s) \intersect 1 .. k)] = s[k]
      <4> DEFINE K == Kept(s) \intersect 1 .. k
      <4>1. k \in S /\ k # m /\ k \in 1 .. Len(s) /\ m \in 1 .. Len(s)
        BY <1>1, <3>2
      <4>2. k < m
        BY <2>1, <4>1 DEF Copied
      <4>3. K = Copied(s, k + 1)
        BY <1>2, <3>2, <4>1, <4>2
      <4>4. K \in SUBSET Kept(s) /\ k \in K
        BY <4>1
      <4>5. IsFiniteSet(K) /\ Cardinality(K) <= Len(name) - 1
        BY <3>3, <4>4, FS_Subset
      <4>6. Cardinality(K) \in Nat /\ Cardinality(K) # 0
        BY <4>4, <4>5, FS_CardinalityType, FS_EmptySet
      <4>7. Cardinality(K) \in 1 .. Len(name) - 1
        BY <3>4, <4>5, <4>6
      <4>8. name[Cardinality(K)] = s[k]
        BY <4>1, <4>3
      <4> HIDE DEF K
      <4> QED
        BY <3>5, <4>7, <4>8 DEF K
    <3> QED
      BY <3>3, <3>5, <3>6 DEF IsCanonical
  <2> QED
    BY <2>3, <2>4, <2>5
<1> QED
  BY <1>3, <1>4

(* Appending the character at the index to the name copies one more.         *)
LEMMA CopyStep ==
  ASSUME NEW s \in Seq(Char), NEW i \in 1 .. Len(s), NEW name \in Seq(Char),
         Len(name) = Cardinality(Copied(s, i)),
         \A k \in Copied(s, i) : name[Cardinality(Copied(s, k + 1))] = s[k],
         Copied(s, i + 1) = Copied(s, i) \union {i}
  PROVE  /\ Len(Append(name, s[i])) = Cardinality(Copied(s, i + 1))
         /\ \A k \in Copied(s, i + 1) :
              Append(name, s[i])[Cardinality(Copied(s, k + 1))] = s[k]
<1>1. s[i] \in Char /\ i \in Nat /\ i + 1 \in Nat
  OBVIOUS
<1>2. i \notin Copied(s, i) /\ IsFiniteSet(Copied(s, i))
  BY <1>1, CopiedStep, CopiedFinite
<1>3. Cardinality(Copied(s, i + 1)) = Cardinality(Copied(s, i)) + 1
  BY <1>2, FS_AddElement
<1>4. ASSUME NEW k \in Copied(s, i)
      PROVE  Append(name, s[i])[Cardinality(Copied(s, k + 1))] = s[k]
  <2>1. k \in 1 .. i - 1 /\ k + 1 \in Nat
    BY <1>1 DEF Copied
  <2>2. Copied(s, k + 1) \in SUBSET Copied(s, i) /\ k \in Copied(s, k + 1)
    BY <2>1 DEF Copied
  <2>3. Cardinality(Copied(s, k + 1)) <= Len(name)
    BY <1>2, <2>2, FS_Subset
  <2>4. Cardinality(Copied(s, k + 1)) \in Nat \ {0}
    BY <2>1, <2>2, CopiedFinite
  <2>5. Cardinality(Copied(s, k + 1)) \in 1 .. Len(name)
    BY <2>3, <2>4
  <2>6. \A n \in 1 .. Len(name) : Append(name, s[i])[n] = name[n]
    BY <1>1
  <2> QED
    BY <2>5, <2>6
<1>5. Append(name, s[i])[Cardinality(Copied(s, i + 1))] = s[i]
  BY <1>1, <1>3
<1>6. Len(Append(name, s[i])) = Cardinality(Copied(s, i + 1))
  BY <1>1, <1>3
<1>7. \A k \in Copied(s, i + 1) : k \in Copied(s, i) \/ k = i
  OBVIOUS
<1> QED
  BY <1>4, <1>5, <1>6, <1>7, Zenon

(* What the loop has copied, and the two properties of what it returns.     *)
CanonicalInv == TypeOK /\ CopyInv /\ ReturnsCanonical /\ OutOfBoundsOnlyWithoutLetter

(* Nothing is copied before a first letter.                                  *)
LEMMA CopiedLetter ==
  ASSUME NEW s \in Seq(Char)
  PROVE  Copied(s, Len(s) + 1) = {} <=> \A k \in DOMAIN s : s[k] \notin Letter
<1>1. DOMAIN s = 1 .. Len(s) + 1 - 1
  OBVIOUS
<1>2. ASSUME NEW k \in Copied(s, Len(s) + 1) PROVE \E h \in DOMAIN s : s[h] \in Letter
  <2>1. CASE s[k] \in Letter
    BY <1>1, <2>1 DEF Copied
  <2>2. CASE AfterLetter(s, k)
    <3>1. PICK h \in 1 .. k - 1 : s[h] \in Letter
      BY <2>2 DEF AfterLetter
    <3>2. k \in 1 .. Len(s)
      BY DEF Copied
    <3> QED
      BY <1>1, <3>1, <3>2
  <2> QED
    BY <2>1, <2>2 DEF Copied
<1>3. ASSUME NEW k \in DOMAIN s, s[k] \in Letter PROVE k \in Copied(s, Len(s) + 1)
  BY <1>1, <1>3 DEF Copied
<1> QED
  BY <1>2, <1>3

(* The loop starts with nothing copied.                                      *)
LEMMA CanonicalInit == Init => CanonicalInv
<1> SUFFICES ASSUME Init PROVE CopyInv /\ ReturnsCanonical /\ OutOfBoundsOnlyWithoutLetter
  BY InitType DEF CanonicalInv
<1>1. /\ index = 1 /\ topic_name_new = <<>> /\ pc = "loop"
  BY DEF Init
<1>2. Copied(topic_name, 1) = {} /\ ~AfterLetter(topic_name, 1)
  BY DEF Copied, AfterLetter
<1>3. Cardinality(Copied(topic_name, 1)) = 0
  BY <1>2, FS_EmptySet
<1> QED
  BY <1>1, <1>2, <1>3 DEF CopyInv, ReturnsCanonical, OutOfBoundsOnlyWithoutLetter

(* Each character is copied, or not, as the definition without a loop says,  *)
(* and the value returned is that name (common.h:64-88).                     *)
LEMMA CanonicalStep == CanonicalInv /\ TypeOK' /\ [Next]_vars => CanonicalInv'
<1> SUFFICES ASSUME CanonicalInv, TypeOK', [Next]_vars
             PROVE  CopyInv' /\ ReturnsCanonical' /\ OutOfBoundsOnlyWithoutLetter'
  BY DEF CanonicalInv
<1> USE DEF CanonicalInv
<1> DEFINE s == topic_name
           i == index
           name == topic_name_new
           Building == /\ s' = s /\ pc = "loop" /\ pc' = "loop"
                       /\ i \in 1 .. Len(s) /\ i' = i + 1
<1>1. s \in Seq(Char) /\ name \in Seq(Char) /\ i \in 1 .. Len(s) + 1
  BY DEF TypeOK
<1>2. ASSUME Building, Copied(s, i + 1) = Copied(s, i),
             AfterLetter(s, i + 1) <=> ~once_slash' /\ name # <<>>, name' = name
      PROVE  CopyInv' /\ ReturnsCanonical' /\ OutOfBoundsOnlyWithoutLetter'
  BY <1>2 DEF CopyInv, ReturnsCanonical, OutOfBoundsOnlyWithoutLetter
<1>3. ASSUME Building, Copied(s, i + 1) = Copied(s, i) \union {i},
             AfterLetter(s, i + 1) <=> ~once_slash', name' = Append(name, s[i])
      PROVE  CopyInv' /\ ReturnsCanonical' /\ OutOfBoundsOnlyWithoutLetter'
  <2>1. /\ Len(name) = Cardinality(Copied(s, i))
        /\ \A k \in Copied(s, i) : name[Cardinality(Copied(s, k + 1))] = s[k]
    BY <1>3 DEF CopyInv
  <2>2. /\ Len(name') = Cardinality(Copied(s, i + 1))
        /\ \A k \in Copied(s, i + 1) : name'[Cardinality(Copied(s, k + 1))] = s[k]
    BY <1>1, <1>3, <2>1, CopyStep
  <2>3. name' # <<>> /\ i \in Copied(s, i + 1)
    BY <1>1, <1>3
  <2> QED
    BY <1>3, <2>2, <2>3 DEF CopyInv, ReturnsCanonical, OutOfBoundsOnlyWithoutLetter
<1>4. CASE SkipService
  <2>1. Building /\ s[i] = Service /\ name' = name /\ once_slash' = once_slash
    BY <1>1, <1>4 DEF SkipService, Looking
  <2>2. AfterLetter(s, i) <=> ~once_slash /\ name # <<>>
    BY <2>1 DEF CopyInv
  <2> QED
    BY <1>1, <1>2, <2>1, <2>2, CopiedStep
<1>5. CASE TakeSlash
  <2>1. Building /\ s[i] = Slash /\ once_slash'
    BY <1>1, <1>5 DEF TakeSlash, Looking
  <2>2. AfterLetter(s, i) <=> ~once_slash /\ Len(name) > 0
    BY <1>1, <2>1 DEF CopyInv
  <2>3. name' = IF AfterLetter(s, i) THEN Append(name, s[i]) ELSE name
    BY <1>5, <2>1, <2>2 DEF TakeSlash
  <2> QED
    BY <1>1, <1>2, <1>3, <2>1, <2>3, CopiedStep
<1>6. CASE TakeLetter
  <2>1. Building /\ s[i] \in Letter /\ ~once_slash' /\ name' = Append(name, s[i])
    BY <1>1, <1>6 DEF TakeLetter, Looking
  <2> QED
    BY <1>1, <1>3, <2>1, CopiedStep
<1>7. CASE Return
  <2>1. /\ pc = "loop" /\ pc' = "done" /\ s' = s /\ i = Len(s) + 1
        /\ name' = Trimmed(name) /\ outOfBounds' = (name = <<>>)
    BY <1>1, <1>7 DEF Return
  <2>2. /\ Len(name) = Cardinality(Copied(s, Len(s) + 1))
        /\ \A k \in Copied(s, Len(s) + 1) : name[Cardinality(Copied(s, k + 1))] = s[k]
        /\ name # <<>> =>
             \E m \in Copied(s, Len(s) + 1) : Copied(s, m + 1) = Copied(s, Len(s) + 1)
    BY <2>1 DEF CopyInv
  <2>3. IsCanonical(Trimmed(name), s)
    BY <1>1, <2>2, TrimmedCanonical
  <2>4. name = <<>> <=> \A k \in DOMAIN s : s[k] \notin Letter
    <3>1. Len(s) + 1 \in Nat /\ (name = <<>> <=> Len(name) = 0)
      BY <1>1
    <3>2. Cardinality(Copied(s, Len(s) + 1)) = 0 <=> Copied(s, Len(s) + 1) = {}
      BY <1>1, <3>1, CopiedFinite
    <3> QED
      BY <1>1, <2>2, <3>1, <3>2, CopiedLetter
  <2> QED
    BY <2>1, <2>3, <2>4 DEF CopyInv, ReturnsCanonical, OutOfBoundsOnlyWithoutLetter
<1>8. CASE UNCHANGED vars
  BY <1>8 DEF vars, CopyInv, ReturnsCanonical, OutOfBoundsOnlyWithoutLetter
<1> QED
  BY <1>4, <1>5, <1>6, <1>7, <1>8 DEF Next

(* What the loop copies is what the definition without a loop keeps, up to   *)
(* the slash that Return drops (common.h:64-88).                             *)
THEOREM CanonicalInvariant == Spec => []CanonicalInv
  BY CanonicalInit, CanonicalStep, TypeCorrect, PTL DEF Spec

(* For every spelling the name returned is the canonical one (common.h:88).  *)
THEOREM CanonicalName == Spec => []ReturnsCanonical
<1>1. CanonicalInv => ReturnsCanonical
  BY DEF CanonicalInv
<1> QED
  BY <1>1, CanonicalInvariant, PTL

(* The byte before the name is read exactly for a spelling without a letter  *)
(* (common.h:84).                                                            *)
THEOREM FirstByte == Spec => []OutOfBoundsOnlyWithoutLetter
<1>1. CanonicalInv => OutOfBoundsOnlyWithoutLetter
  BY DEF CanonicalInv
<1> QED
  BY <1>1, CanonicalInvariant, PTL

-----------------------------------------------------------------------------
(* The names in a topic's directory. *)

(* A name without a service character has no second part to read a pid from. *)
LEMMA NotAnInfoFile ==
  ASSUME NEW s \in Seq(Char), \A k \in 1 .. Len(s) : s[k] # Service
  PROVE  open_dma_buffer(s) = {}
<1> DEFINE cuts == Cuts(s, Service)
           places == {c \in cuts \X cuts \X cuts : /\ Follows(s, Service, 0, c[1])
                                                   /\ Follows(s, Service, c[1], c[2])
                                                   /\ Follows(s, Service, c[2], c[3])
                                                   /\ Converts(Part(s, c[1], c[2]))
                                                   /\ Converts(Part(s, c[2], c[3]))}
<1>1. cuts = {0, Len(s) + 1} /\ Len(s) \in Nat
  BY DEF Cuts
<1>2. ASSUME NEW c \in cuts \X cuts \X cuts, Follows(s, Service, 0, c[1]),
             Follows(s, Service, c[1], c[2])
      PROVE  FALSE
  <2>1. c[1] \in {0, Len(s) + 1} /\ c[2] \in {0, Len(s) + 1}
    BY <1>1
  <2>2. 0 < c[1] /\ c[1] < c[2]
    BY <1>2 DEF Follows
  <2> QED
    BY <1>1, <2>1, <2>2
<1>3. places = {}
  BY <1>2
<1> QED
  BY <1>3 DEF open_dma_buffer

(* A part of a text is made of its characters.                               *)
LEMMA PartOf ==
  ASSUME NEW s \in Seq(Char), NEW sep \in Char, NEW part \in split(s, sep)
  PROVE  /\ part \in Seq(Char)
         /\ \A k \in 1 .. Len(part) : \E l \in 1 .. Len(s) : part[k] = s[l]
<1>1. PICK a \in Cuts(s, sep), b \in Cuts(s, sep) : part = SubSeq(s, a + 1, b - 1)
  BY DEF split, Part
<1>2. a \in 0 .. Len(s) + 1 /\ b \in 0 .. Len(s) + 1 /\ Len(s) \in Nat
  BY DEF Cuts
<1>3. \A l \in a + 1 .. b - 1 : l \in 1 .. Len(s)
  BY <1>2
<1>4. a + 1 \in Int /\ b - 1 \in Int /\ \A l \in a + 1 .. b - 1 : s[l] \in Char
  BY <1>2, <1>3
<1>5. /\ part \in Seq(Char)
      /\ Len(part) = IF a + 1 <= b - 1 THEN b - 1 - (a + 1) + 1 ELSE 0
      /\ \A k \in 1 .. b - 1 - (a + 1) + 1 : part[k] = s[a + 1 + k - 1]
  BY <1>1, <1>4, SubSeqProperties
<1>6. ASSUME NEW k \in 1 .. Len(part) PROVE \E l \in 1 .. Len(s) : part[k] = s[l]
  <2>1. k \in 1 .. b - 1 - (a + 1) + 1 /\ a + 1 + k - 1 \in a + 1 .. b - 1
    BY <1>2, <1>5
  <2> QED
    BY <1>3, <1>5, <2>1
<1> QED
  BY <1>5, <1>6

(* All of a number is converted.                                             *)
LEMMA NumberConverts ==
  ASSUME NEW n \in Numbers
  PROVE  Converts(n) /\ stoi(n) = n
<1>1. n \in Seq(Digit) /\ n # <<>>
  BY NumbersAssumption DEF NumbersAssumption
<1>2. Len(n) \in Nat \ {0} /\ \A k \in 1 .. Len(n) : n[k] \in Digit
  BY <1>1
<1>3. Digits(n) = 1 .. Len(n)
  BY <1>2 DEF Digits
<1>4. Max(1 .. Len(n)) = Len(n)
  <2>1. Len(n) \in 1 .. Len(n) /\ \A k \in 1 .. Len(n) : Len(n) >= k
    BY <1>2
  <2>2. \E m \in 1 .. Len(n) : \A k \in 1 .. Len(n) : m >= k
    BY <2>1
  <2>3. Max(1 .. Len(n)) \in 1 .. Len(n) /\ \A k \in 1 .. Len(n) : Max(1 .. Len(n)) >= k
    BY <2>2, Zenon DEF Max
  <2> QED
    BY <1>2, <2>1, <2>3
<1>5. SubSeq(n, 1, Len(n)) = n
  BY <1>1
<1> QED
  BY <1>2, <1>3, <1>4, <1>5 DEF Converts, stoi

(* The parts of an info file's name: nothing, the pid and the descriptor.    *)
LEMMA InfoFileCuts ==
  ASSUME NEW pid \in Numbers, NEW fd \in Numbers
  PROVE  /\ Cuts(InfoFile(pid, fd), Service) = {0, 1, Len(pid) + 2, Len(pid) + Len(fd) + 3}
         /\ Len(pid) \in Nat \ {0} /\ Len(fd) \in Nat \ {0}
         /\ Part(InfoFile(pid, fd), 1, Len(pid) + 2) = pid
         /\ Part(InfoFile(pid, fd), Len(pid) + 2, Len(pid) + Len(fd) + 3) = fd
<1> DEFINE p == Len(pid)
           q == Len(fd)
           f == InfoFile(pid, fd)
<1>1. /\ pid \in Seq(Digit) /\ pid # <<>> /\ fd \in Seq(Digit) /\ fd # <<>>
      /\ p \in Nat \ {0} /\ q \in Nat \ {0}
  BY NumbersAssumption DEF NumbersAssumption
<1>2. /\ pid \in Seq(Char) /\ fd \in Seq(Char) /\ <<Service>> \in Seq(Char)
      /\ \A k \in 1 .. p : pid[k] # Service
      /\ \A k \in 1 .. q : fd[k] # Service
  BY <1>1, DigitAssumption DEF DigitAssumption, Char
<1>3. /\ f \in Seq(Char) /\ Len(f) = p + q + 2
      /\ f[1] = Service /\ f[p + 2] = Service
      /\ \A k \in 1 .. p : f[1 + k] = pid[k]
      /\ \A k \in 1 .. q : f[p + 2 + k] = fd[k]
  BY <1>1, <1>2 DEF InfoFile
<1>4. Cuts(f, Service) = {0, 1, p + 2, p + q + 3}
  <2>1. ASSUME NEW k \in 1 .. p + q + 2, k # 1, k # p + 2 PROVE f[k] # Service
    <3>1. CASE k \in 2 .. p + 1
      <4>1. k - 1 \in 1 .. p /\ f[k] = f[1 + (k - 1)]
        BY <1>1, <3>1
      <4> QED
        BY <1>2, <1>3, <4>1
    <3>2. CASE k \in p + 3 .. p + q + 2
      <4>1. k - (p + 2) \in 1 .. q /\ f[k] = f[p + 2 + (k - (p + 2))]
        BY <1>1, <3>2
      <4> QED
        BY <1>2, <1>3, <4>1
    <3> QED
      BY <1>1, <2>1, <3>1, <3>2
  <2>2. {k \in 1 .. Len(f) : f[k] = Service} = {1, p + 2}
    <3> HIDE DEF f
    <3> QED
      BY <1>1, <1>3, <2>1
  <2> QED
    BY <1>1, <1>3, <2>2 DEF Cuts
<1>5. Part(f, 1, p + 2) = pid
  <2>1. /\ Len(SubSeq(f, 2, p + 1)) = p
        /\ \A k \in 1 .. p : SubSeq(f, 2, p + 1)[k] = f[1 + k]
        /\ SubSeq(f, 2, p + 1) \in Seq(Char)
    <3> HIDE DEF f
    <3> QED
      BY <1>1, <1>3
  <2>2. SubSeq(f, 2, p + 1) = pid
    BY <1>2, <1>3, <2>1, SeqEqual
  <2> QED
    BY <1>1, <2>2 DEF Part
<1>6. Part(f, p + 2, p + q + 3) = fd
  <2>1. /\ Len(SubSeq(f, p + 3, p + q + 2)) = q
        /\ \A k \in 1 .. q : SubSeq(f, p + 3, p + q + 2)[k] = f[p + 2 + k]
        /\ SubSeq(f, p + 3, p + q + 2) \in Seq(Char)
    <3> HIDE DEF f
    <3> QED
      BY <1>1, <1>3
  <2>2. SubSeq(f, p + 3, p + q + 2) = fd
    BY <1>2, <1>3, <2>1, SeqEqual
  <2>3. p + 2 + 1 = p + 3 /\ p + q + 3 - 1 = p + q + 2
    BY <1>1
  <2> QED
    BY <2>2, <2>3 DEF Part
<1> QED
  BY <1>1, <1>4, <1>5, <1>6

(* An info file's name is read as what it was made of, and as nothing else.  *)
LEMMA InfoFileRead ==
  ASSUME NEW pid \in Numbers, NEW fd \in Numbers
  PROVE  open_dma_buffer(InfoFile(pid, fd)) = {<<pid, fd>>}
<1> DEFINE f == InfoFile(pid, fd)
           p == Len(pid)
           q == Len(fd)
           cuts == Cuts(f, Service)
           places == {c \in cuts \X cuts \X cuts : /\ Follows(f, Service, 0, c[1])
                                                   /\ Follows(f, Service, c[1], c[2])
                                                   /\ Follows(f, Service, c[2], c[3])
                                                   /\ Converts(Part(f, c[1], c[2]))
                                                   /\ Converts(Part(f, c[2], c[3]))}
           last == <<1, p + 2, p + q + 3>>
<1>1. cuts = {0, 1, p + 2, p + q + 3} /\ p \in Nat \ {0} /\ q \in Nat \ {0}
  BY InfoFileCuts
<1>2. Part(f, 1, p + 2) = pid /\ Part(f, p + 2, p + q + 3) = fd
  BY InfoFileCuts
<1> HIDE DEF f, p, q
<1>3. /\ Follows(f, Service, 0, 1)
      /\ Follows(f, Service, 1, p + 2)
      /\ Follows(f, Service, p + 2, p + q + 3)
  BY <1>1 DEF Follows
<1>4. ASSUME NEW c \in cuts \X cuts \X cuts, Follows(f, Service, 0, c[1]),
             Follows(f, Service, c[1], c[2]), Follows(f, Service, c[2], c[3])
      PROVE  c = last
  <2>1. c[1] \in cuts /\ c[2] \in cuts /\ c[3] \in cuts /\ c = <<c[1], c[2], c[3]>>
    OBVIOUS
  <2>2. c[1] = 1
    BY <1>1, <1>4, <2>1 DEF Follows
  <2>3. c[2] = p + 2
    BY <1>1, <1>4, <2>1, <2>2 DEF Follows
  <2>4. c[3] = p + q + 3
    BY <1>1, <1>4, <2>1, <2>3 DEF Follows
  <2> QED
    BY <2>1, <2>2, <2>3, <2>4
<1>5. last \in places
  <2>1. last \in cuts \X cuts \X cuts
    BY <1>1
  <2>2. Converts(pid) /\ Converts(fd)
    BY NumberConverts
  <2> HIDE DEF cuts
  <2> QED
    BY <1>2, <1>3, <2>1, <2>2
<1>6. places = {last}
  <2> HIDE DEF cuts, last
  <2> QED
    BY <1>4, <1>5
<1>7. open_dma_buffer(f) =
        {<<stoi(Part(f, c[1], c[2])), stoi(Part(f, c[2], c[3]))>> : c \in places}
  BY DEF open_dma_buffer
<1>8. stoi(pid) = pid /\ stoi(fd) = fd
  BY NumberConverts
<1>9. {<<stoi(Part(f, c[1], c[2])), stoi(Part(f, c[2], c[3]))>> : c \in places} = {<<pid, fd>>}
  <2> HIDE DEF places
  <2> QED
    BY <1>2, <1>6, <1>8
<1> QED
  BY <1>7, <1>9 DEF f

(* Whatever topic is spelled, no component of the path it becomes reads as an *)
(* info file, and every info file is read as the pid and the descriptor it   *)
(* was named after (inotify_topic.cpp:55-60, publisher_base.cpp:103).        *)
THEOREM InfoFiles == Spec => []OnlyInfoFilesConnect
<1>1. TypeOK /\ ReturnsSimple => OnlyInfoFilesConnect
  <2> SUFFICES ASSUME TypeOK, ReturnsSimple, pc = "done",
                      NEW component \in split(topic_name_new, Slash)
               PROVE  open_dma_buffer(component) = {}
    BY InfoFileRead DEF OnlyInfoFilesConnect
  <2>1. /\ topic_name_new \in Seq(Char)
        /\ \A k \in 1 .. Len(topic_name_new) : topic_name_new[k] # Service
    BY DEF TypeOK, ReturnsSimple, Simple
  <2>2. /\ component \in Seq(Char)
        /\ \A k \in 1 .. Len(component) : component[k] # Service
    BY <2>1, PartOf DEF Char
  <2> QED
    BY <2>2, NotAnInfoFile
<1> QED
  BY <1>1, SimplifiedName, TypeCorrect, PTL

=============================================================================
