------------------------- MODULE TextCodec_proofs -------------------------
(***************************************************************************)
(* Proofs about the codec, for lines of any length and any limits: the     *)
(* cursor finds the words of the line one after the other, from which it   *)
(* follows what is decoded, which fault is named and to whom.              *)
(***************************************************************************)
EXTENDS TextCodec, SequenceTheorems, WellFoundedInduction, TLAPS

-----------------------------------------------------------------------------
(* The words of a text                                                     *)

(* A set of numbers has a least one.                                       *)
LEMMA LeastNumber ==
  ASSUME NEW S \in SUBSET Nat, S # {}
  PROVE  \E m \in S : \A n \in S : m <= n
<1>1. PICK m \in S : \A n \in S : ~(<<n, m>> \in OpToRel(<, Nat))
  BY NatLessThanWellFounded, WFMin
<1>2. \A n \in S : ~(n < m)
  BY <1>1 DEF OpToRel
<1> QED
  BY <1>2

(* The words among one token more.                                         *)
OneMore(among, text, i) ==
  IF i = 0 THEN <<>>
  ELSE IF text[i] = Blank THEN among[i - 1]
  ELSE Append(among[i - 1], text[i])

(* The words among the first n tokens can be counted: were there a first n *)
(* for which not, one more than the words of n - 1 would do.               *)
LEMMA AmongExists ==
  ASSUME NEW text \in Seq(Token)
  PROVE  \E among : among = [i \in 0 .. Len(text) |-> OneMore(among, text, i)]
<1> DEFINE Counts(among, n) == among = [i \in 0 .. n |-> OneMore(among, text, i)]
           bad == {n \in 0 .. Len(text) : ~\E among : Counts(among, n)}
<1>0. Len(text) \in Nat
  BY LenProperties
<1>1. CASE bad = {}
  <2>1. Len(text) \in 0 .. Len(text) /\ Len(text) \notin bad
    BY <1>0, <1>1
  <2>2. \E among : Counts(among, Len(text))
    BY <2>1
  <2> QED
    BY <2>2
<1>2. CASE bad # {}
  <2>1. PICK n \in bad : \A m \in bad : n <= m
    <3>1. bad \in SUBSET Nat
      BY <1>0
    <3> HIDE DEF bad
    <3> QED
      BY <3>1, <1>2, LeastNumber
  <2>2. n \in 0 .. Len(text) /\ ~\E among : Counts(among, n)
    BY <2>1
  <2>3. CASE n = 0
    <3> DEFINE none == [i \in 0 .. 0 |-> <<>>]
    <3>1. none = [i \in 0 .. 0 |-> OneMore(none, text, i)]
      BY DEF OneMore
    <3> QED
      BY <2>2, <2>3, <3>1
  <2>4. CASE n # 0
    <3>1. n - 1 \in 0 .. Len(text) /\ n - 1 \notin bad
      BY <1>0, <2>1, <2>2, <2>4
    <3>2. PICK before : Counts(before, n - 1)
      BY <3>1
    <3> DEFINE among == [i \in 0 .. n |-> IF i = n THEN OneMore(before, text, n) ELSE before[i]]
    <3>3. ASSUME NEW i \in 0 .. n
          PROVE  among[i] = OneMore(among, text, i)
      <4>0. n \in Nat /\ i \in Nat
        BY <2>2, <1>0
      <4>1. CASE i = 0
        <5>1. 0 \in 0 .. n - 1 /\ among[0] = before[0]
          BY <4>0, <2>4
        <5>2. before[0] = OneMore(before, text, 0)
          BY <3>2, <5>1
        <5> QED
          BY <4>1, <5>1, <5>2 DEF OneMore
      <4>2. CASE i # 0
        <5>1. i - 1 \in 0 .. n /\ i - 1 # n /\ among[i - 1] = before[i - 1]
          BY <4>0, <4>2
        <5>2. OneMore(among, text, i) = OneMore(before, text, i)
          BY <5>1 DEF OneMore
        <5>3. among[i] = OneMore(before, text, i)
          <6>1. CASE i = n
            BY <6>1
          <6>2. CASE i # n
            <7>1. i \in 0 .. n - 1
              BY <4>0, <6>2
            <7> QED
              BY <6>2, <7>1, <3>2
          <6> QED
            BY <6>1, <6>2
        <5> QED
          BY <5>2, <5>3
      <4> QED
        BY <4>1, <4>2
    <3>4. Counts(among, n)
      BY <3>3
    <3> QED
      BY <2>2, <3>4
  <2> QED
    BY <2>3, <2>4
<1> QED
  BY <1>1, <1>2

LEMMA WordsCounted ==
  ASSUME NEW text \in Seq(Token)
  PROVE  WordsAmong(text) = [i \in 0 .. Len(text) |-> OneMore(WordsAmong(text), text, i)]
<1>1. PICK among : among = [i \in 0 .. Len(text) |-> OneMore(among, text, i)]
  BY AmongExists
<1> QED
  BY <1>1, Zenon DEF WordsAmong, OneMore

LEMMA WordsOneByOne ==
  ASSUME NEW text \in Seq(Token), NEW w, w = WordsAmong(text)
  PROVE  /\ w[0] = <<>>
         /\ \A i \in 1 .. Len(text) :
              w[i] = IF text[i] = Blank THEN w[i - 1] ELSE Append(w[i - 1], text[i])
         /\ \A i \in 0 .. Len(text) : w[i] \in Seq(Token)
<1>0. Len(text) \in Nat
  BY LenProperties
<1>1. \A i \in 0 .. Len(text) : w[i] = OneMore(w, text, i)
  BY WordsCounted
<1>2. w[0] = <<>>
  BY <1>0, <1>1 DEF OneMore
<1>3. ASSUME NEW i \in 1 .. Len(text)
      PROVE  w[i] = IF text[i] = Blank THEN w[i - 1] ELSE Append(w[i - 1], text[i])
  <2>1. i \in 0 .. Len(text) /\ i # 0
    BY <1>0
  <2> QED
    BY <1>1, <2>1 DEF OneMore
<1> DEFINE bad == {i \in 0 .. Len(text) : w[i] \notin Seq(Token)}
<1>4. ASSUME bad # {}
      PROVE  FALSE
  <2>1. PICK i \in bad : \A j \in bad : i <= j
    <3>1. bad \in SUBSET Nat
      BY <1>0
    <3> HIDE DEF bad
    <3> QED
      BY <3>1, <1>4, LeastNumber
  <2>2. i \in 1 .. Len(text)
    <3>1. w[0] \in Seq(Token)
      BY <1>2
    <3>2. i # 0
      BY <2>1, <3>1
    <3> QED
      BY <1>0, <2>1, <3>2
  <2>3. i - 1 \in 0 .. Len(text) /\ i - 1 \notin bad
    BY <1>0, <2>1, <2>2
  <2>4. w[i - 1] \in Seq(Token) /\ text[i] \in Token
    BY <2>2, <2>3, ElementOfSeq
  <2>5. w[i] \in Seq(Token)
    BY <1>3, <2>2, <2>4, AppendProperties
  <2> QED
    BY <2>1, <2>5
<1> QED
  BY <1>2, <1>3, <1>4

(* Blanks add no word.                                                     *)
LEMMA OnlyBlanks ==
  ASSUME NEW text \in Seq(Token), NEW w, w = WordsAmong(text),
         NEW k \in 0 .. Len(text), NEW m \in k .. Len(text),
         \A i \in k + 1 .. m : text[i] = Blank
  PROVE  w[m] = w[k]
<1>0. Len(text) \in Nat
  BY LenProperties
<1> DEFINE bad == {i \in k .. m : w[i] # w[k]}
<1>1. ASSUME bad # {}
      PROVE  FALSE
  <2>1. PICK i \in bad : \A j \in bad : i <= j
    <3>1. bad \in SUBSET Nat
      BY <1>0
    <3> HIDE DEF bad
    <3> QED
      BY <3>1, <1>1, LeastNumber
  <2>2. i \in k + 1 .. m /\ i \in 1 .. Len(text)
    BY <1>0, <2>1
  <2>3. i - 1 \in k .. m /\ i - 1 \notin bad
    BY <1>0, <2>1, <2>2
  <2>4. w[i] = w[i - 1]
    BY <2>2, WordsOneByOne
  <2> QED
    BY <2>1, <2>3, <2>4
<1>2. m \in k .. m
  BY <1>0
<1> QED
  BY <1>1, <1>2

Starts(first, all) ==
  Len(first) <= Len(all) /\ \A i \in 1 .. Len(first) : all[i] = first[i]

(* The words among fewer tokens are the first of those among more.         *)
LEMMA WordsStay ==
  ASSUME NEW text \in Seq(Token), NEW w, w = WordsAmong(text),
         NEW k \in 0 .. Len(text), NEW m \in k .. Len(text)
  PROVE  Starts(w[k], w[m])
<1>0. Len(text) \in Nat
  BY LenProperties
<1> DEFINE Keeps(j) == Len(w[k]) <= Len(w[j]) /\ \A i \in 1 .. Len(w[k]) : w[j][i] = w[k][i]
           bad == {j \in k .. m : ~Keeps(j)}
<1>1. \A j \in 0 .. Len(text) : w[j] \in Seq(Token) /\ Len(w[j]) \in Nat
  BY WordsOneByOne, LenProperties
<1>2. ASSUME bad # {}
      PROVE  FALSE
  <2>1. PICK j \in bad : \A i \in bad : j <= i
    <3>1. bad \in SUBSET Nat
      BY <1>0
    <3> HIDE DEF bad
    <3> QED
      BY <3>1, <1>2, LeastNumber
  <2>2. Keeps(k)
    BY <1>1
  <2>3. j \in k + 1 .. m /\ j \in 1 .. Len(text)
    <3>1. j # k
      BY <2>1, <2>2
    <3> QED
      BY <1>0, <2>1, <3>1
  <2>4. j - 1 \in k .. m /\ j - 1 \notin bad /\ j - 1 \in 0 .. Len(text)
    BY <1>0, <2>1, <2>3
  <2>5. Keeps(j - 1)
    BY <2>4
  <2>6. CASE text[j] = Blank
    <3>1. w[j] = w[j - 1]
      BY <2>3, <2>6, WordsOneByOne
    <3> QED
      BY <2>1, <2>5, <3>1
  <2>7. CASE text[j] # Blank
    <3>1. w[j] = Append(w[j - 1], text[j])
      BY <2>3, <2>7, WordsOneByOne
    <3>2. w[j - 1] \in Seq(Token) /\ text[j] \in Token
      BY <2>3, <2>4, <1>1, ElementOfSeq
    <3>3. Len(w[j]) = Len(w[j - 1]) + 1 /\ \A i \in 1 .. Len(w[j - 1]) : w[j][i] = w[j - 1][i]
      BY <3>1, <3>2, AppendProperties
    <3>4. Len(w[k]) \in Nat /\ Len(w[j - 1]) \in Nat
      BY <1>1, <2>4
    <3>5. Len(w[k]) <= Len(w[j - 1]) /\ \A i \in 1 .. Len(w[k]) : w[j - 1][i] = w[k][i]
      BY <2>5
    <3>6. ASSUME NEW i \in 1 .. Len(w[k])
          PROVE  w[j][i] = w[k][i]
      <4>1. i \in 1 .. Len(w[j - 1])
        BY <3>4, <3>5
      <4> QED
        BY <3>3, <3>5, <4>1
    <3>7. Keeps(j)
      BY <3>3, <3>4, <3>5, <3>6
    <3> QED
      BY <2>1, <3>7
  <2> QED
    BY <2>6, <2>7
<1>3. m \in k .. m
  BY <1>0
<1>4. Keeps(m)
  BY <1>2, <1>3
<1> QED
  BY <1>4 DEF Starts

(* What the cursor skips to: the next word, if there is one.               *)
LEMMA SkipsBlanks ==
  ASSUME NEW text \in Seq(Token)
  PROVE  \/ /\ Skipped(text) = <<>>
            /\ \A i \in 1 .. Len(text) : text[i] = Blank
         \/ \E m \in 1 .. Len(text) :
              /\ Skipped(text) = SubSeq(text, m, Len(text))
              /\ text[m] # Blank /\ \A i \in 1 .. m - 1 : text[i] = Blank
<1> DEFINE words == {i \in DOMAIN text : text[i] # Blank}
<1>0. Len(text) \in Nat /\ DOMAIN text = 1 .. Len(text)
  BY LenProperties
<1>1. CASE words = {}
  BY <1>0, <1>1 DEF Skipped
<1>2. CASE words # {}
  <2>1. \E m \in words : \A n \in words : m <= n
    <3>1. words \in SUBSET Nat
      BY <1>0
    <3> HIDE DEF words
    <3> QED
      BY <3>1, <1>2, LeastNumber
  <2>2. PICK m : m = Min(words)
    OBVIOUS
  <2>3. m \in words /\ \A n \in words : m <= n
    BY <2>1, <2>2 DEF Min
  <2>4. Skipped(text) = SubSeq(text, m, Len(text))
    BY <1>2, <2>2 DEF Skipped
  <2> HIDE <2>2
  <2>5. \A i \in 1 .. m - 1 : text[i] = Blank
    BY <1>0, <2>3
  <2> QED
    BY <1>0, <2>3, <2>4, <2>5
<1> QED
  BY <1>1, <1>2

Finds(text, w, n, k, rest) ==
  \/ rest = <<>> /\ w[n] = w[k]
  \/ \E m \in k + 1 .. n :
       /\ rest # <<>> /\ Head(rest) \in Token \ {Blank}
       /\ Tail(rest) = SubSeq(text, m + 1, n) /\ Len(Tail(rest)) = n - m
       /\ w[m] = Append(w[k], Head(rest))
       /\ Len(w[n]) > Len(w[k]) /\ w[n][Len(w[k]) + 1] = Head(rest)

(* The cursor at k: nothing but blanks follow, or the word it takes is the *)
(* next of the text.                                                       *)
LEMMA NextWord ==
  ASSUME NEW text \in Seq(Token), NEW w, w = WordsAmong(text),
         NEW n, n = Len(text), NEW k \in 0 .. n,
         NEW rest, rest = Skipped(SubSeq(text, k + 1, n))
  PROVE  Finds(text, w, n, k, rest)
<1> DEFINE tail == SubSeq(text, k + 1, n)
<1>0. n \in Nat /\ k \in Nat
  BY LenProperties
<1>1. /\ tail \in Seq(Token) /\ Len(tail) = n - k
      /\ \A i \in 1 .. n - k : tail[i] = text[k + i]
  <2>1. \A i \in k + 1 .. n : text[i] \in Token
    BY <1>0, ElementOfSeq
  <2>2. k + 1 \in Int /\ n \in Int
    BY <1>0
  <2>3. /\ tail \in Seq(Token) /\ Len(tail) = IF k + 1 <= n THEN n - (k + 1) + 1 ELSE 0
        /\ \A i \in 1 .. n - (k + 1) + 1 : tail[i] = text[(k + 1) + i - 1]
    BY <2>1, <2>2, SubSeqProperties
  <2> HIDE DEF tail
  <2>4. Len(tail) = n - k
    BY <1>0, <2>3
  <2>5. ASSUME NEW i \in 1 .. n - k
        PROVE  tail[i] = text[k + i]
    <3>1. (k + 1) + i - 1 = k + i /\ i \in 1 .. n - (k + 1) + 1
      BY <1>0
    <3> QED
      BY <2>3, <3>1
  <2> QED
    BY <2>3, <2>4, <2>5
<1>2. rest = Skipped(tail)
  OBVIOUS
<1>3. \A j \in k + 1 .. n : j - k \in 1 .. n - k /\ text[j] = tail[j - k]
  <2> HIDE DEF tail
  <2> TAKE j \in k + 1 .. n
  <2>1. j - k \in 1 .. n - k /\ k + (j - k) = j
    BY <1>0
  <2> QED
    BY <1>1, <2>1
<1> HIDE DEF tail
<1>4. CASE rest = <<>> /\ \A i \in 1 .. Len(tail) : tail[i] = Blank
  <2>1. \A j \in k + 1 .. n : text[j] = Blank
    BY <1>1, <1>3, <1>4
  <2>2. n \in k .. Len(text)
    BY <1>0
  <2>3. w[n] = w[k]
    BY <2>1, <2>2, OnlyBlanks
  <2> QED
    BY <1>4, <2>3 DEF Finds
<1>5. ASSUME NEW p \in 1 .. Len(tail), rest = SubSeq(tail, p, Len(tail)),
             tail[p] # Blank, \A i \in 1 .. p - 1 : tail[i] = Blank
      PROVE  \E m \in k + 1 .. n :
              /\ rest # <<>> /\ Head(rest) \in Token \ {Blank}
              /\ Tail(rest) = SubSeq(text, m + 1, n) /\ Len(Tail(rest)) = n - m
              /\ w[m] = Append(w[k], Head(rest))
              /\ Len(w[n]) > Len(w[k]) /\ w[n][Len(w[k]) + 1] = Head(rest)
  <2>1. p \in 1 .. n - k /\ p \in Nat
    BY <1>1
  <2> PICK m \in k + 1 .. n : m = k + p
    BY <1>0, <2>1
  <2>2. text[m] = tail[p] /\ m \in 1 .. Len(text) /\ m \in 1 .. n
    <3>1. m - k = p /\ m \in 1 .. n
      BY <1>0, <2>1
    <3> QED
      BY <1>3, <3>1
  <2>3. rest = SubSeq(text, m, n)
    <3>1. /\ SubSeq(tail, p, n - k) \in Seq(Token)
          /\ Len(SubSeq(tail, p, n - k)) = n - k - p + 1
          /\ \A i \in 1 .. n - k - p + 1 : SubSeq(tail, p, n - k)[i] = tail[p + i - 1]
      <4>1. \A i \in p .. n - k : tail[i] \in Token
        BY <1>1, <2>1, ElementOfSeq
      <4> QED
        BY <1>0, <2>1, <4>1, SubSeqProperties
    <3>2. /\ SubSeq(text, m, n) \in Seq(Token)
          /\ Len(SubSeq(text, m, n)) = n - m + 1
          /\ \A i \in 1 .. n - m + 1 : SubSeq(text, m, n)[i] = text[m + i - 1]
      <4>1. \A i \in m .. n : text[i] \in Token
        BY <1>0, <2>2, ElementOfSeq
      <4> QED
        BY <1>0, <2>2, <4>1, SubSeqProperties
    <3>3. n - m + 1 = n - k - p + 1
      BY <1>0, <2>1
    <3>4. ASSUME NEW i \in 1 .. n - m + 1
          PROVE  SubSeq(tail, p, n - k)[i] = SubSeq(text, m, n)[i]
      <4>1. m + i - 1 \in k + 1 .. n /\ (m + i - 1) - k = p + i - 1
        BY <1>0, <2>1
      <4>2. text[m + i - 1] = tail[p + i - 1]
        BY <1>3, <4>1
      <4> QED
        BY <3>1, <3>2, <3>3, <4>2
    <3>5. SubSeq(tail, p, n - k) = SubSeq(text, m, n)
      <4> PICK a, b \in Seq(Token) : a = SubSeq(tail, p, n - k) /\ b = SubSeq(text, m, n)
        BY <3>1, <3>2
      <4>1. Len(a) = n - m + 1 /\ Len(b) = n - m + 1
        BY <3>1, <3>2, <3>3
      <4>2. \A i \in 1 .. Len(a) : a[i] = b[i]
        BY <3>4, <4>1
      <4>3. a = b
        BY <4>1, <4>2, SeqEqual
      <4> QED
        BY <4>3
    <3> QED
      BY <1>1, <1>5, <3>5
  <2>4. rest # <<>> /\ Head(rest) = text[m] /\ Tail(rest) = SubSeq(text, m + 1, n)
    <3>1. Head(rest) = text[m] /\ Tail(rest) = SubSeq(text, m + 1, n)
      <4>1. n \in m .. Len(text)
        BY <1>0
      <4> QED
        BY <2>2, <2>3, <4>1, HeadTailOfSubSeq
    <3>2. Len(rest) = n - m + 1
      <4>1. \A i \in m .. n : text[i] \in Token
        BY <1>0, <2>2, ElementOfSeq
      <4> QED
        BY <1>0, <2>2, <2>3, <4>1, SubSeqProperties
    <3>3. Len(rest) # 0
      BY <1>0, <3>2
    <3> QED
      BY <3>1, <3>3, EmptySeq
  <2>5. Len(Tail(rest)) = n - m
    <3>1. \A i \in m + 1 .. n : text[i] \in Token
      BY <1>0, <2>2, ElementOfSeq
    <3>2. Len(SubSeq(text, m + 1, n)) = IF m + 1 <= n THEN n - (m + 1) + 1 ELSE 0
      BY <1>0, <2>2, <3>1, SubSeqProperties
    <3> QED
      BY <1>0, <2>2, <2>4, <3>2
  <2>6. text[m] # Blank /\ text[m] \in Token /\ Head(rest) \in Token \ {Blank}
    BY <1>5, <2>2, <2>4, ElementOfSeq
  <2>7. w[m - 1] = w[k]
    <3>1. m - 1 \in k .. Len(text) /\ k \in 0 .. Len(text)
      BY <1>0, <2>2
    <3>2. ASSUME NEW j \in k + 1 .. m - 1
          PROVE  text[j] = Blank
      <4>1. j \in k + 1 .. n /\ j - k \in 1 .. p - 1
        BY <1>0, <2>1
      <4> QED
        BY <1>3, <1>5, <4>1
    <3> QED
      BY <3>1, <3>2, OnlyBlanks
  <2>8. w[m] = Append(w[k], Head(rest))
    BY <2>2, <2>4, <2>6, <2>7, WordsOneByOne
  <2>9. /\ Len(w[m]) = Len(w[k]) + 1 /\ w[m][Len(w[k]) + 1] = Head(rest)
        /\ Len(w[k]) \in Nat
    <3>1. w[k] \in Seq(Token)
      BY WordsOneByOne
    <3> QED
      BY <2>6, <2>8, <3>1, AppendProperties, LenProperties
  <2>10. Len(w[m]) <= Len(w[n]) /\ \A i \in 1 .. Len(w[m]) : w[n][i] = w[m][i]
    <3>1. m \in 0 .. Len(text) /\ n \in m .. Len(text)
      BY <1>0, <2>2
    <3>2. PICK b \in m .. Len(text) : b = n
      BY <3>1
    <3>3. Starts(w[m], w[b])
      BY <3>1, WordsStay
    <3> QED
      BY <3>2, <3>3 DEF Starts
  <2>11. Len(w[n]) \in Nat
    <3>1. n \in 0 .. Len(text)
      BY <1>0
    <3> QED
      BY <3>1, WordsOneByOne, LenProperties
  <2>12. Len(w[n]) > Len(w[k]) /\ w[n][Len(w[k]) + 1] = Head(rest)
    <3> PICK next : next = Len(w[k]) + 1
      OBVIOUS
    <3>1. next \in 1 .. Len(w[m]) /\ w[m][next] = Head(rest)
      BY <2>9
    <3>2. w[n][next] = Head(rest)
      BY <2>10, <3>1
    <3>3. Len(w[n]) > Len(w[k])
      BY <2>9, <2>10, <2>11
    <3> QED
      BY <3>2, <3>3
  <2> QED
    BY <2>4, <2>5, <2>6, <2>8, <2>12
<1>6. \/ rest = <<>> /\ \A i \in 1 .. Len(tail) : tail[i] = Blank
      \/ \E p \in 1 .. Len(tail) :
           /\ rest = SubSeq(tail, p, Len(tail))
           /\ tail[p] # Blank /\ \A i \in 1 .. p - 1 : tail[i] = Blank
  BY <1>1, <1>2, SkipsBlanks
<1> QED
  BY <1>4, <1>5, <1>6 DEF Finds

-----------------------------------------------------------------------------
(* The fields                                                              *)

(* What the i-th field of a request is taken to be.                        *)
Meaning(i, word) ==
  IF i = 2 THEN word ELSE IF word.kind = "number" THEN word.value ELSE word.text

LEMMA PositiveRead ==
  ASSUME NEW word \in Token
  PROVE  /\ ParsePositive(word) # NoValue <=> word \in Positive
         /\ word \in Positive =>
              /\ ParsePositive(word) = Value(word.value)
              /\ word.kind = "number" /\ word.value \in Nat \ {0}
<1>1. \A v : Value(v) # NoValue
  <2> TAKE v
  <2>1. Value(v).none = FALSE /\ NoValue.none = TRUE
    BY DEF Value, NoValue
  <2> QED
    BY <2>1
<1>2. \A v, u : Value(v) = Value(u) => v = u
  <2> TAKE v, u
  <2>1. Value(v).value = v /\ Value(u).value = u
    BY DEF Value
  <2> QED
    BY <2>1
<1>3. CASE word.kind = "number"
  <2>1. word.value \in Nat /\ word = Number(word.value)
    BY <1>3 DEF Token, Number
  <2>2. word \in Positive <=> word.value \in 1 .. NumberLimit - 1
    <3>1. \A n : word = Number(n) => word.value = n
      BY DEF Number
    <3> QED
      BY <2>1, <3>1 DEF Positive
  <2>3. NumberLimit \in Nat
    BY CodecAssumption
  <2>4. ParseUnsigned(word) = IF word.value < NumberLimit THEN Value(word.value) ELSE NoValue
    BY <1>3 DEF ParseUnsigned
  <2>5. CASE word.value < NumberLimit
    <3>1. ParseUnsigned(word) = Value(word.value)
      BY <2>4, <2>5
    <3>2. ParsePositive(word) = IF word.value = 0 THEN NoValue ELSE Value(word.value)
      BY <1>2, <3>1 DEF ParsePositive
    <3>3. word \in Positive <=> word.value # 0
      BY <2>1, <2>2, <2>3, <2>5
    <3> QED
      BY <1>1, <1>3, <2>1, <3>2, <3>3
  <2>6. CASE ~(word.value < NumberLimit)
    <3>1. ParseUnsigned(word) = NoValue
      BY <2>4, <2>6
    <3>2. ParsePositive(word) = NoValue
      BY <1>1, <3>1 DEF ParsePositive
    <3>3. word \notin Positive
      BY <2>1, <2>2, <2>3, <2>6
    <3> QED
      BY <3>2, <3>3
  <2> QED
    BY <2>5, <2>6
<1>4. CASE word.kind # "number"
  <2>1. ParseUnsigned(word) = NoValue
    BY <1>4 DEF ParseUnsigned
  <2>2. ParsePositive(word) = NoValue
    BY <1>1, <2>1 DEF ParsePositive
  <2>3. word \notin Positive
    BY <1>4 DEF Positive, Number
  <2> QED
    BY <2>2, <2>3
<1> QED
  BY <1>3, <1>4

LEMMA TextRead ==
  ASSUME NEW word \in Token, NEW texts
  PROVE  /\ ParseOneOf(word, texts) # NoValue <=> word \in Texts(texts)
         /\ word \in Texts(texts) =>
              ParseOneOf(word, texts) = Value(word.text) /\ word.kind = "text"
<1>1. \A v : Value(v) # NoValue
  <2> TAKE v
  <2>1. Value(v).none = FALSE /\ NoValue.none = TRUE
    BY DEF Value, NoValue
  <2> QED
    BY <2>1
<1>2. word \in Texts(texts) <=> word.kind = "text" /\ word.text \in texts
  <2>1. ASSUME NEW t \in texts, word = Text(t)
        PROVE  word.kind = "text" /\ word.text \in texts
    BY <2>1 DEF Text
  <2>2. ASSUME word.kind = "text"
        PROVE  word = Text(word.text)
    BY <2>2 DEF Token, Text
  <2> QED
    BY <2>1, <2>2 DEF Texts
<1> QED
  BY <1>1, <1>2 DEF ParseOneOf

(* A word is accepted as a field of a new order exactly if it may stand    *)
(* there.                                                                  *)
LEMMA NewOrderFieldRead ==
  ASSUME NEW i \in 1 .. 7, NEW word \in Token
  PROVE  /\ Parse(NewOrderFields[i], word) # NoValue <=> NewOrderWord(i + 1, word)
         /\ NewOrderWord(i + 1, word) =>
              Parse(NewOrderFields[i], word) = Value(Meaning(i, word))
<1>0. \A v : Value(v) # NoValue
  <2> TAKE v
  <2>1. Value(v).none = FALSE /\ NoValue.none = TRUE
    BY DEF Value, NoValue
  <2> QED
    BY <2>1
<1>1. CASE i \in {1, 6, 7}
  <2>1. Parse(NewOrderFields[i], word) = ParsePositive(word)
    BY <1>1 DEF Parse, NewOrderFields
  <2>2. NewOrderWord(i + 1, word) <=> word \in Positive
    BY <1>1 DEF NewOrderWord
  <2>3. i # 2
    BY <1>1
  <2> QED
    BY <2>1, <2>2, <2>3, PositiveRead DEF Meaning
<1>2. CASE i = 2
  BY <1>0, <1>2 DEF Parse, NewOrderFields, NewOrderWord, Meaning
<1>3. CASE i = 3
  <2>1. /\ Parse(NewOrderFields[i], word) = ParseOneOf(word, {"B", "S"})
        /\ NewOrderWord(i + 1, word) <=> word \in Texts({"B", "S"})
    BY <1>3 DEF Parse, NewOrderFields, NewOrderWord
  <2> QED
    BY <1>3, <2>1, TextRead DEF Meaning
<1>4. CASE i = 4
  <2>1. /\ Parse(NewOrderFields[i], word) = ParseOneOf(word, {"L", "M"})
        /\ NewOrderWord(i + 1, word) <=> word \in Texts({"L", "M"})
    BY <1>4 DEF Parse, NewOrderFields, NewOrderWord
  <2> QED
    BY <1>4, <2>1, TextRead DEF Meaning
<1>5. CASE i = 5
  <2>1. /\ Parse(NewOrderFields[i], word) = ParseOneOf(word, {"GFD", "IOC", "FOK"})
        /\ NewOrderWord(i + 1, word) <=> word \in Texts({"GFD", "IOC", "FOK"})
    BY <1>5 DEF Parse, NewOrderFields, NewOrderWord
  <2> QED
    BY <1>5, <2>1, TextRead DEF Meaning
<1> QED
  BY <1>1, <1>2, <1>3, <1>4, <1>5

(* A cancel has the first two fields of a new order.                       *)
LEMMA FieldRead ==
  ASSUME NEW k \in {"N", "C"}, NEW i \in 1 .. Len(FieldsOf(k)), NEW word \in Token
  PROVE  /\ i \in 1 .. 7
         /\ Parse(FieldsOf(k)[i], word) # NoValue <=> NewOrderWord(i + 1, word)
         /\ NewOrderWord(i + 1, word) =>
              Parse(FieldsOf(k)[i], word) = Value(Meaning(i, word))
<1>1. i \in 1 .. 7 /\ FieldsOf(k)[i] = NewOrderFields[i]
  <2>1. CASE k = "N"
    BY <2>1 DEF FieldsOf, NewOrderFields
  <2>2. CASE k = "C"
    BY <2>2 DEF FieldsOf, NewOrderFields, CancelOrderFields
  <2> QED
    BY <2>1, <2>2
<1> QED
  BY <1>1, NewOrderFieldRead

LEMMA ReasonsNamed ==
  ASSUME NEW k \in {"N", "C"}, NEW i \in 1 .. Len(FieldsOf(k))
  PROVE  /\ ReasonFor(FieldsOf(k)[i]) = "InvalidPrice" <=> k = "N" /\ i = 6
         /\ ReasonFor(FieldsOf(k)[i]) = "InvalidQuantity" <=> k = "N" /\ i = 7
         /\ Len(FieldsOf("N")) = 7 /\ Len(FieldsOf("C")) = 2
<1>1. CASE k = "N"
  BY <1>1 DEF FieldsOf, NewOrderFields, CancelOrderFields, ReasonFor
<1>2. CASE k = "C"
  BY <1>2 DEF FieldsOf, NewOrderFields, CancelOrderFields, ReasonFor
<1> QED
  BY <1>1, <1>2

-----------------------------------------------------------------------------
(* Reading a line                                                          *)

FieldValues == Nat \cup STRING \cup Token

Inv == CodecInv /\ fields \in Seq(FieldValues)

LEMMA LineTyped ==
  ASSUME line \in Line
  PROVE  /\ line.text \in Seq(Token) /\ Len(line.text) \in Nat
         /\ Words \in Seq(Token) /\ Len(Words) \in Nat
         /\ Length \in Nat /\ MaxLength \in Nat
<1>1. line.text \in Seq(Token) /\ Len(line.text) \in Nat
  BY LenProperties DEF Line
<1>2. Words \in Seq(Token)
  <2>1. Len(line.text) \in 0 .. Len(line.text)
    BY <1>1
  <2> QED
    BY <1>1, <2>1, WordsOneByOne DEF Words
<1>3. Length \in Nat
  <2>1. PICK return \in {0, 1} : return = IF line.cr THEN 1 ELSE 0
    BY Zenon
  <2>2. Length = Len(line.text) + return
    BY <2>1, Zenon DEF Length
  <2> QED
    BY <1>1, <2>2
<1> QED
  BY <1>1, <1>2, <1>3, LenProperties, CodecAssumption

LEMMA ReadSoFar ==
  ASSUME ReadingInOrder
  PROVE  /\ WordsRead \in Seq(Token) /\ Len(WordsRead) \in Nat
         /\ Starts(WordsRead, Words)
<1>1. /\ line.text \in Seq(Token) /\ Len(line.text) \in Nat
      /\ Position \in 0 .. Len(line.text)
  BY LineTyped DEF ReadingInOrder
<1>2. Len(line.text) \in Position .. Len(line.text)
  BY <1>1
<1>3. WordsRead \in Seq(Token)
  BY <1>1, WordsOneByOne DEF WordsRead
<1>4. Starts(WordsRead, Words)
  BY <1>1, <1>2, WordsStay DEF WordsRead, Words
<1> QED
  BY <1>3, <1>4, LenProperties

(* The next word of the line is the one the cursor finds.                  *)
LEMMA CursorFinds ==
  ASSUME ReadingInOrder
  PROVE  \/ Skipped(cursor) = <<>> /\ Words = WordsRead
         \/ /\ Skipped(cursor) # <<>>
            /\ Head(Skipped(cursor)) \in Token \ {Blank}
            /\ Len(Words) > Len(WordsRead)
            /\ Words[Len(WordsRead) + 1] = Head(Skipped(cursor))
            /\ Len(line.text) - Len(Tail(Skipped(cursor))) \in 0 .. Len(line.text)
            /\ Tail(Skipped(cursor)) =
                 SubSeq(line.text, (Len(line.text) - Len(Tail(Skipped(cursor)))) + 1,
                        Len(line.text))
            /\ WordsAmong(line.text)[Len(line.text) - Len(Tail(Skipped(cursor)))] =
                 Append(WordsRead, Head(Skipped(cursor)))
<1>0. line.text \in Seq(Token) /\ Len(line.text) \in Nat
  BY LineTyped DEF ReadingInOrder
<1> PICK text \in Seq(Token) : text = line.text
  BY <1>0
<1> PICK n \in Nat : n = Len(text)
  BY <1>0
<1>1. PICK k, w, rest :
        /\ text = line.text /\ n = Len(text) /\ k = Position
        /\ w = WordsAmong(text) /\ rest = Skipped(cursor)
  OBVIOUS
<1>2. k \in 0 .. n /\ rest = Skipped(SubSeq(text, k + 1, n))
  BY <1>1 DEF ReadingInOrder
<1>3. Words = w[n] /\ WordsRead = w[k]
  BY <1>1 DEF Words, WordsRead
<1>4. Finds(text, w, n, k, rest)
  BY <1>1, <1>2, NextWord
<1>5. CASE rest = <<>> /\ w[n] = w[k]
  BY <1>1, <1>3, <1>5
<1>6. ASSUME NEW m \in k + 1 .. n,
             /\ rest # <<>> /\ Head(rest) \in Token \ {Blank}
             /\ Tail(rest) = SubSeq(text, m + 1, n) /\ Len(Tail(rest)) = n - m
             /\ w[m] = Append(w[k], Head(rest))
             /\ Len(w[n]) > Len(w[k]) /\ w[n][Len(w[k]) + 1] = Head(rest)
      PROVE  /\ rest # <<>> /\ Head(rest) \in Token \ {Blank}
             /\ Len(w[n]) > Len(w[k]) /\ w[n][Len(w[k]) + 1] = Head(rest)
             /\ n - Len(Tail(rest)) \in 0 .. n
             /\ Tail(rest) = SubSeq(text, (n - Len(Tail(rest))) + 1, n)
             /\ w[n - Len(Tail(rest))] = Append(w[k], Head(rest))
  <2>1. n - Len(Tail(rest)) = m /\ m \in 0 .. n
    BY <1>2, <1>6
  <2> QED
    BY <1>6, <2>1
<1> QED
  BY <1>1, <1>3, <1>4, <1>5, <1>6 DEF Finds

(* What is known of the line while the fields are read.                    *)
LEMMA KnownOfTheLine ==
  ASSUME ReadingInOrder, fields \in Seq(FieldValues), kind # "none"
  PROVE  /\ kind \in {"N", "C"} /\ Len(fields) \in 0 .. Len(FieldsOf(kind))
         /\ Len(WordsRead) = Len(fields) + 1 /\ Len(Words) >= Len(fields) + 1
         /\ Words[1] = Text(kind)
         /\ \A i \in 1 .. Len(fields) :
              NewOrderWord(i + 1, Words[i + 1]) /\ fields[i] = Meaning(i, Words[i + 1])
<1>1. /\ kind \in {"N", "C"} /\ Len(WordsRead) = Len(fields) + 1
      /\ WordsRead[1] = Text(kind) /\ Len(fields) <= Len(FieldsOf(kind))
      /\ \A i \in DOMAIN fields :
           Parse(FieldsOf(kind)[i], WordsRead[i + 1]) = Value(fields[i])
  BY DEF ReadingInOrder
<1>2. Len(fields) \in Nat /\ DOMAIN fields = 1 .. Len(fields)
  BY LenProperties
<1>3. /\ WordsRead \in Seq(Token) /\ Len(WordsRead) <= Len(Words)
      /\ \A i \in 1 .. Len(WordsRead) : Words[i] = WordsRead[i]
      /\ Len(Words) \in Nat
  BY ReadSoFar, LineTyped DEF Starts, ReadingInOrder
<1>4. Len(FieldsOf(kind)) \in Nat
  BY <1>1 DEF FieldsOf, NewOrderFields, CancelOrderFields
<1>5. Words[1] = Text(kind)
  <2>1. 1 \in 1 .. Len(WordsRead)
    BY <1>1, <1>2
  <2> QED
    BY <1>1, <1>3, <2>1
<1>6. ASSUME NEW i \in 1 .. Len(fields)
      PROVE  NewOrderWord(i + 1, Words[i + 1]) /\ fields[i] = Meaning(i, Words[i + 1])
  <2> PICK word : word = Words[i + 1]
    OBVIOUS
  <2>1. i + 1 \in 1 .. Len(WordsRead) /\ i \in 1 .. Len(FieldsOf(kind)) /\ i \in DOMAIN fields
    BY <1>1, <1>2, <1>4
  <2>2. word = WordsRead[i + 1] /\ word \in Token
    BY <1>3, <2>1, ElementOfSeq
  <2>3. Parse(FieldsOf(kind)[i], word) = Value(fields[i])
    BY <1>1, <2>1, <2>2
  <2>4. Value(fields[i]).none = FALSE /\ NoValue.none = TRUE /\ Value(fields[i]).value = fields[i]
    BY DEF Value, NoValue
  <2>5. NewOrderWord(i + 1, word)
    BY <1>1, <2>1, <2>2, <2>3, <2>4, FieldRead
  <2>6. Value(fields[i]) = Value(Meaning(i, word))
    BY <1>1, <2>1, <2>2, <2>3, <2>5, FieldRead
  <2>7. Value(Meaning(i, word)).value = Meaning(i, word)
    BY DEF Value
  <2> QED
    BY <2>4, <2>5, <2>6, <2>7
<1> QED
  BY <1>1, <1>2, <1>3, <1>4, <1>5, <1>6

LEMMA LineKept ==
  ASSUME line' = line
  PROVE  /\ Words' = Words /\ Length' = Length
         /\ \A n : StartsNewOrder(n)' <=> StartsNewOrder(n)
         /\ StartsCancel' <=> StartsCancel
         /\ NewOrderLine' <=> NewOrderLine
         /\ CancelLine' <=> CancelLine
<1>1. Words' = Words /\ Length' = Length
  BY DEF Words, Length
<1>2. \A n : StartsNewOrder(n)' <=> StartsNewOrder(n)
  BY <1>1 DEF StartsNewOrder
<1>3. StartsCancel' <=> StartsCancel
  BY <1>1 DEF StartsCancel
<1> QED
  BY <1>1, <1>2, <1>3 DEF NewOrderLine, CancelLine

(* While the result is pending nothing is claimed of it.                   *)
LEMMA PendingClaimsNothing ==
  ASSUME result = Pending
  PROVE  ~Decoded /\ ~Refused
<1>1. result.type = "Pending"
  BY DEF Pending
<1> QED
  BY <1>1 DEF Decoded, Refused

LEMMA PendingStill ==
  (result = Pending => ~Decoded /\ ~Refused)'
<1>1. [](result = Pending => ~Decoded /\ ~Refused)
  <2>1. result = Pending => ~Decoded /\ ~Refused
    BY PendingClaimsNothing
  <2> QED
    BY <2>1, PTL
<1> QED
  BY <1>1, PTL

(* A refusal is right if the line is wrong and reason and id are its.      *)
LEMMA RefusalIsRight ==
  ASSUME Inv, NEW id, NEW reason, Refuse(id, reason),
         Length > MaxLength \/ ~(NewOrderLine \/ CancelLine),
         Length <= MaxLength =>
           /\ reason = "InvalidPrice" <=>
                StartsNewOrder(6) /\ Len(Words) >= 7 /\ ~StartsNewOrder(7)
           /\ reason = "InvalidQuantity" <=>
                StartsNewOrder(7) /\ Len(Words) >= 8 /\ ~StartsNewOrder(8),
         id = IF StartsCancel /\ Length <= MaxLength THEN Words[2].value ELSE NoId
  PROVE  Inv'
<1>1. /\ result' = Rejected(id, reason)
      /\ line' = line /\ cursor' = cursor /\ kind' = kind /\ fields' = fields
  BY DEF Refuse
<1>2. /\ result'.type = "Rejected" /\ result'.reason = reason
      /\ result'.client_order_id = id
  BY <1>1 DEF Rejected
<1>3. ~Decoded' /\ Refused'
  BY <1>2 DEF Decoded, Refused
<1>4. Position' = Position /\ WordsRead' = WordsRead
  BY <1>1 DEF Position, WordsRead
<1>5. ReadingInOrder'
  <2>1. ReadingInOrder
    BY DEF Inv, CodecInv
  <2>2. Length' = Length
    BY <1>1, LineKept
  <2> QED
    BY <1>1, <1>3, <1>4, <2>1, <2>2 DEF ReadingInOrder
<1>6. /\ Words' = Words /\ Length' = Length
      /\ \A n : StartsNewOrder(n)' <=> StartsNewOrder(n)
      /\ StartsCancel' <=> StartsCancel
      /\ NewOrderLine' <=> NewOrderLine
      /\ CancelLine' <=> CancelLine
  BY <1>1, LineKept
<1>7. DecodesTheProtocol'
  BY <1>3, <1>6 DEF DecodesTheProtocol
<1>8. FirstFaultNamed'
  <2>1. ASSUME Length' <= MaxLength
        PROVE  /\ result'.reason = "InvalidPrice" <=>
                    StartsNewOrder(6)' /\ Len(Words') >= 7 /\ ~StartsNewOrder(7)'
               /\ result'.reason = "InvalidQuantity" <=>
                    StartsNewOrder(7)' /\ Len(Words') >= 8 /\ ~StartsNewOrder(8)'
    <3>1. Length <= MaxLength
      BY <1>6, <2>1
    <3>2. /\ StartsNewOrder(6)' <=> StartsNewOrder(6)
          /\ StartsNewOrder(7)' <=> StartsNewOrder(7)
          /\ StartsNewOrder(8)' <=> StartsNewOrder(8)
          /\ Words' = Words
      BY <1>6
    <3> QED
      BY <1>2, <3>1, <3>2
  <2> QED
    BY <2>1 DEF FirstFaultNamed
<1>9. RefusalsTraceable'
  BY <1>2, <1>6 DEF RefusalsTraceable
<1>10. fields' \in Seq(FieldValues)
  BY <1>1 DEF Inv
<1> QED
  BY <1>5, <1>7, <1>8, <1>9, <1>10 DEF Inv, CodecInv

LEMMA OtherTexts == Text("N") # Text("C")
<1>1. Text("N").text = "N" /\ Text("C").text = "C"
  BY DEF Text
<1> QED
  BY <1>1

(* How far a line starts like a new order, from the words not yet read.    *)
LEMMA NewOrderSoFar ==
  ASSUME ReadingInOrder, fields \in Seq(FieldValues), kind = "N", NEW n \in 1 .. 8
  PROVE  StartsNewOrder(n) <=>
           Len(Words) >= n /\ \A i \in Len(fields) + 2 .. n : NewOrderWord(i, Words[i])
<1>1. /\ Words[1] = Text("N") /\ Len(fields) \in Nat
      /\ \A i \in 1 .. Len(fields) : NewOrderWord(i + 1, Words[i + 1])
  BY KnownOfTheLine, LenProperties
<1>2. NewOrderWord(1, Words[1])
  BY <1>1 DEF NewOrderWord
<1>3. ASSUME NEW i \in 1 .. n, i \notin Len(fields) + 2 .. n
      PROVE  NewOrderWord(i, Words[i])
  <2>1. CASE i = 1
    BY <1>2, <2>1
  <2>2. CASE i # 1
    <3> PICK j : j = i - 1
      OBVIOUS
    <3>1. j \in 1 .. Len(fields) /\ j + 1 = i
      BY <1>1, <1>3, <2>2
    <3> QED
      BY <1>1, <3>1
  <2> QED
    BY <2>1, <2>2
<1>4. \A i \in Len(fields) + 2 .. n : i \in 1 .. n
  BY <1>1
<1> QED
  BY <1>3, <1>4 DEF StartsNewOrder

LEMMA CancelIsNoNewOrder ==
  ASSUME ReadingInOrder, fields \in Seq(FieldValues), kind = "C", NEW n \in 1 .. 8
  PROVE  ~StartsNewOrder(n)
<1>1. Words[1] = Text("C") /\ 1 \in 1 .. n
  BY KnownOfTheLine
<1>2. ~NewOrderWord(1, Words[1])
  BY <1>1, OtherTexts DEF NewOrderWord
<1> QED
  BY <1>1, <1>2 DEF StartsNewOrder

(* The id a refusal carries is that of a cancel which names one.           *)
LEMMA IdNamed ==
  ASSUME ReadingInOrder, fields \in Seq(FieldValues), kind # "none",
         fields = <<>> => Len(Words) < 2 \/ Words[2] \notin Positive
  PROVE  RejectedId = IF StartsCancel /\ Length <= MaxLength THEN Words[2].value ELSE NoId
<1>1. /\ kind \in {"N", "C"} /\ Words[1] = Text(kind) /\ Length <= MaxLength
      /\ Len(Words) >= Len(fields) + 1
      /\ \A i \in 1 .. Len(fields) :
           NewOrderWord(i + 1, Words[i + 1]) /\ fields[i] = Meaning(i, Words[i + 1])
  BY KnownOfTheLine DEF ReadingInOrder
<1>2. Len(Words) \in Nat /\ Words \in Seq(Token) /\ Len(fields) \in Nat
  BY LineTyped, LenProperties DEF ReadingInOrder
<1>3. CASE kind = "N"
  <2>1. ~StartsCancel
    BY <1>1, <1>3, OtherTexts DEF StartsCancel
  <2> QED
    BY <1>3, <2>1 DEF RejectedId
<1>4. CASE kind = "C" /\ fields = <<>>
  <2>1. ~StartsCancel
    BY <1>2, <1>4 DEF StartsCancel
  <2> QED
    BY <1>4, <2>1 DEF RejectedId
<1>5. CASE kind = "C" /\ fields # <<>>
  <2>1. 1 \in 1 .. Len(fields)
    BY <1>2, <1>5, EmptySeq
  <2>2. NewOrderWord(1 + 1, Words[1 + 1]) /\ fields[1] = Meaning(1, Words[1 + 1])
    BY <1>1, <2>1
  <2>3. Words[2] \in Positive /\ fields[1] = Meaning(1, Words[2])
    BY <2>2 DEF NewOrderWord
  <2>4. Len(Words) >= 2
    BY <1>1, <1>2, <2>1
  <2>5. Words[2] \in Token
    <3>1. 2 \in 1 .. Len(Words)
      BY <1>2, <2>4
    <3> QED
      BY <1>2, <3>1, ElementOfSeq
  <2>6. fields[1] = Words[2].value
    BY <2>3, <2>5, PositiveRead DEF Meaning
  <2>7. StartsCancel
    BY <1>1, <1>5, <2>3, <2>4 DEF StartsCancel
  <2> QED
    BY <1>1, <1>5, <2>6, <2>7 DEF RejectedId
<1> QED
  BY <1>1, <1>3, <1>4, <1>5

-----------------------------------------------------------------------------
(* The actions                                                             *)

LEMMA InitKeepsInv ==
  ASSUME Init
  PROVE  Inv
<1>1. /\ line \in Line /\ cursor = line.text /\ kind = "none" /\ fields = <<>>
      /\ result = Pending
  BY CodecAssumption DEF Init
<1>2. line.text \in Seq(Token) /\ Len(line.text) \in Nat
  BY <1>1, LineTyped
<1>3. Position = 0
  BY <1>1, <1>2 DEF Position
<1>4. cursor = SubSeq(line.text, Position + 1, Len(line.text))
  BY <1>1, <1>2, <1>3, SubSeqFull
<1>5. WordsRead = <<>>
  BY <1>2, <1>3, WordsOneByOne DEF WordsRead
<1>6. ~Decoded /\ ~Refused
  BY <1>1, PendingClaimsNothing
<1>7. ReadingInOrder
  BY <1>1, <1>2, <1>3, <1>4, <1>5, <1>6 DEF ReadingInOrder
<1>8. fields \in Seq(FieldValues)
  BY <1>1, EmptySeq
<1> QED
  BY <1>6, <1>7, <1>8
     DEF Inv, CodecInv, DecodesTheProtocol, FirstFaultNamed, RefusalsTraceable

LEMMA UnchangedKeepsInv ==
  ASSUME Inv, UNCHANGED vars
  PROVE  Inv'
<1>1. /\ line' = line /\ cursor' = cursor /\ kind' = kind /\ fields' = fields
      /\ result' = result
  BY DEF vars
<1>2. /\ Words' = Words /\ Length' = Length
      /\ \A n : StartsNewOrder(n)' <=> StartsNewOrder(n)
      /\ StartsCancel' <=> StartsCancel
      /\ NewOrderLine' <=> NewOrderLine
      /\ CancelLine' <=> CancelLine
  BY <1>1, LineKept
<1>3. (Decoded' <=> Decoded) /\ (Refused' <=> Refused)
  BY <1>1 DEF Decoded, Refused
<1>4. Position' = Position /\ WordsRead' = WordsRead
  BY <1>1 DEF Position, WordsRead
<1>5. ReadingInOrder'
  BY <1>1, <1>2, <1>3, <1>4 DEF Inv, CodecInv, ReadingInOrder
<1>6. DecodesTheProtocol'
  BY <1>1, <1>2, <1>3 DEF Inv, CodecInv, DecodesTheProtocol
<1>7. FirstFaultNamed'
  <2>1. /\ StartsNewOrder(6)' <=> StartsNewOrder(6)
        /\ StartsNewOrder(7)' <=> StartsNewOrder(7)
        /\ StartsNewOrder(8)' <=> StartsNewOrder(8)
    BY <1>2
  <2> QED
    BY <1>1, <1>2, <1>3, <2>1 DEF Inv, CodecInv, FirstFaultNamed
<1>8. RefusalsTraceable'
  BY <1>1, <1>2, <1>3 DEF Inv, CodecInv, RefusalsTraceable
<1> QED
  BY <1>1, <1>5, <1>6, <1>7, <1>8 DEF Inv, CodecInv

LEMMA RefuseTooLongKeepsInv ==
  ASSUME Inv, RefuseTooLong
  PROVE  Inv'
<1>1. Length > MaxLength /\ Refuse(NoId, "InvalidMessage")
  BY DEF RefuseTooLong
<1>2. ~(Length <= MaxLength)
  BY <1>1, LineTyped DEF Inv, CodecInv, ReadingInOrder
<1> QED
  BY <1>1, <1>2, RefusalIsRight

(* The words read and their number, after the cursor has taken the next.   *)
LEMMA CursorMoves ==
  ASSUME ReadingInOrder, Skipped(cursor) # <<>>, line' = line,
         cursor' = Tail(Skipped(cursor))
  PROVE  /\ Position' \in 0 .. Len(line.text)
         /\ cursor' = SubSeq(line.text, Position' + 1, Len(line.text))
         /\ WordsRead' = Append(WordsRead, Head(Skipped(cursor)))
<1>1. Position' = Len(line.text) - Len(Tail(Skipped(cursor)))
  BY DEF Position
<1>2. WordsRead' = WordsAmong(line.text)[Len(line.text) - Len(Tail(Skipped(cursor)))]
  BY <1>1 DEF WordsRead
<1> QED
  BY <1>1, <1>2, CursorFinds

LEMMA ReadTypeKeepsInv ==
  ASSUME Inv, ReadType
  PROVE  Inv'
<1> PICK rest : rest = Skipped(cursor)
  OBVIOUS
<1>1. /\ result = Pending /\ kind = "none" /\ Length <= MaxLength
      /\ IF rest = <<>> \/ Head(rest) \notin {Text("N"), Text("C")}
         THEN Refuse(NoId, "InvalidMessage")
         ELSE /\ kind' = Head(rest).text
              /\ cursor' = Tail(rest)
              /\ UNCHANGED <<line, fields, result>>
  BY DEF ReadType
<1>2. ReadingInOrder /\ fields = <<>> /\ WordsRead = <<>> /\ Len(WordsRead) = 0
  BY <1>1 DEF Inv, CodecInv, ReadingInOrder
<1>3. Len(Words) \in Nat
  BY <1>2, LineTyped DEF ReadingInOrder
<1>4. \/ rest = <<>> /\ Len(Words) = 0
      \/ rest # <<>> /\ Head(rest) \in Token /\ Words[1] = Head(rest)
  <2>1. Len(WordsRead) + 1 = 1
    BY <1>2
  <2> QED
    BY <1>2, <2>1, CursorFinds
<1>5. CASE rest = <<>> \/ Head(rest) \notin {Text("N"), Text("C")}
  <2>1. ASSUME NEW n \in 1 .. 8
        PROVE  ~StartsNewOrder(n)
    <3>1. 1 \in 1 .. n /\ (rest = <<>> => ~(Len(Words) >= n))
      BY <1>3, <1>4
    <3>2. rest # <<>> => ~NewOrderWord(1, Words[1])
      BY <1>4, <1>5 DEF NewOrderWord
    <3> QED
      BY <3>1, <3>2 DEF StartsNewOrder
  <2>2. ~StartsCancel
    BY <1>3, <1>4, <1>5 DEF StartsCancel
  <2>3. ~NewOrderLine /\ ~CancelLine
    BY <2>1, <2>2 DEF NewOrderLine, CancelLine
  <2>4. ~StartsNewOrder(6) /\ ~StartsNewOrder(7)
    BY <2>1
  <2>5. Refuse(NoId, "InvalidMessage")
    BY <1>1, <1>5
  <2> QED
    BY <2>2, <2>3, <2>4, <2>5, RefusalIsRight
<1>6. CASE rest # <<>> /\ Head(rest) \in {Text("N"), Text("C")}
  <2>1. /\ kind' = Head(rest).text /\ cursor' = Tail(rest)
        /\ line' = line /\ fields' = fields /\ result' = result
    BY <1>1, <1>6
  <2>2. kind' \in {"N", "C"} /\ Head(rest) = Text(kind')
    BY <1>6, <2>1 DEF Text
  <2>3. /\ Position' \in 0 .. Len(line.text)
        /\ cursor' = SubSeq(line.text, Position' + 1, Len(line.text))
        /\ WordsRead' = Append(WordsRead, Head(rest))
    BY <1>2, <1>6, <2>1, CursorMoves
  <2>4. Len(WordsRead') = 1 /\ WordsRead'[1] = Text(kind')
    <3>1. /\ Len(Append(WordsRead, Head(rest))) = Len(WordsRead) + 1
          /\ Append(WordsRead, Head(rest))[Len(WordsRead) + 1] = Head(rest)
      BY <1>2, <1>4, <1>6, ReadSoFar, AppendProperties
    <3>2. Len(WordsRead) + 1 = 1
      BY <1>2
    <3> QED
      BY <2>2, <2>3, <3>1, <3>2
  <2>5. fields' = <<>> /\ Len(fields') = 0 /\ DOMAIN fields' = {}
    BY <1>2, <2>1
  <2>6. kind' # "none" /\ 0 <= Len(FieldsOf(kind')) /\ Length' = Length
    BY <2>1, <2>2, LineKept DEF FieldsOf, NewOrderFields, CancelOrderFields
  <2>7. ~Decoded' /\ ~Refused'
    BY <1>1, <2>1, PendingStill DEF Pending
  <2>8. ReadingInOrder'
    <3>1. line' \in Line
      BY <1>2, <2>1 DEF ReadingInOrder
    <3>2. Len(WordsRead') = Len(fields') + 1 /\ Len(fields') <= Len(FieldsOf(kind'))
      BY <2>4, <2>5, <2>6
    <3> QED
      BY <1>1, <2>1, <2>2, <2>3, <2>4, <2>5, <2>6, <3>1, <3>2 DEF ReadingInOrder
  <2>9. fields' \in Seq(FieldValues)
    BY <2>5, EmptySeq
  <2> QED
    BY <2>7, <2>8, <2>9
       DEF Inv, CodecInv, DecodesTheProtocol, FirstFaultNamed, RefusalsTraceable
<1> QED
  BY <1>4, <1>5, <1>6

LEMMA MeaningTyped ==
  ASSUME NEW i \in 1 .. 7, NEW word \in Token, NewOrderWord(i + 1, word)
  PROVE  Meaning(i, word) \in FieldValues
<1>1. CASE i = 2
  BY <1>1 DEF Meaning, FieldValues
<1>2. CASE i \in {1, 6, 7}
  <2>1. word \in Positive
    BY <1>2 DEF NewOrderWord
  <2>2. Meaning(i, word) = word.value /\ word.value \in Nat
    BY <1>2, <2>1, PositiveRead DEF Meaning
  <2> QED
    BY <2>2 DEF FieldValues
<1>3. CASE i \in {3, 4, 5}
  <2>1. word \in Texts({"B", "S"}) \/ word \in Texts({"L", "M"})
          \/ word \in Texts({"GFD", "IOC", "FOK"})
    BY <1>3 DEF NewOrderWord
  <2>2. word.kind = "text"
    BY <2>1, TextRead
  <2>3. word.text \in STRING
    BY <2>2 DEF Token
  <2>4. Meaning(i, word) = word.text
    BY <1>3, <2>2 DEF Meaning
  <2> QED
    BY <2>3, <2>4 DEF FieldValues
<1> QED
  BY <1>1, <1>2, <1>3

(* The words up to the n-th, and the next word of the line.               *)
LEMMA Places ==
  ASSUME NEW f \in Nat
  PROVE  /\ f < 5 => 6 >= f + 2
         /\ f < 6 => 7 >= f + 2
         /\ f < 7 => 8 >= f + 2
         /\ f = 5 => 6 < f + 2 /\ 7 >= f + 2
         /\ f = 6 => 7 < f + 2 /\ 8 >= f + 2
         /\ f > 5 => 7 < f + 2
         /\ f > 6 => 8 < f + 2
         /\ f + 1 = 6 => f = 5
         /\ f + 1 = 7 => f = 6
         /\ f = 5 => f + 1 = 6
         /\ f = 6 => f + 1 = 7
         /\ f < 5 \/ f = 5 \/ f > 5
         /\ f < 6 \/ f = 6 \/ f > 6
         /\ ~(f < 5 /\ f = 5) /\ ~(f > 5 /\ f = 5)
         /\ ~(f < 6 /\ f = 6) /\ ~(f > 6 /\ f = 6)
         /\ \A n \in 1 .. 8 : n < f + 2 => \A i \in f + 2 .. n : FALSE
OBVIOUS

LEMMA WordsPastTheFields ==
  ASSUME NEW f \in Nat, NEW words \in Nat,
         (f <= 6 /\ words = f + 1) \/ (f = 7 /\ words > 8)
  PROVE  /\ words >= 7 => 7 < f + 2
         /\ words >= 8 => 8 < f + 2
<1>1. CASE f <= 6 /\ words = f + 1
  BY <1>1
<1>2. CASE f = 7 /\ words > 8
  BY <1>2
<1> QED
  BY <1>1, <1>2

(* A line that ends before its fields, or goes on behind them, is none.    *)
LEMMA WrongLength ==
  ASSUME Inv, kind # "none", NEW reason,
         Refuse(RejectedId, reason), reason = "InvalidMessage",
         \/ Len(fields) < Len(FieldsOf(kind)) /\ Len(Words) = Len(fields) + 1
         \/ Len(fields) = Len(FieldsOf(kind)) /\ Len(Words) > Len(fields) + 1
  PROVE  Inv'
<1>1. /\ ReadingInOrder /\ fields \in Seq(FieldValues) /\ kind \in {"N", "C"}
      /\ Len(fields) \in Nat /\ Len(Words) \in Nat
      /\ kind = "N" => Len(FieldsOf(kind)) = 7
      /\ kind = "C" => Len(FieldsOf(kind)) = 2
  BY KnownOfTheLine, LineTyped, LenProperties
     DEF Inv, CodecInv, ReadingInOrder, FieldsOf, NewOrderFields, CancelOrderFields
<1> PICK f, words \in Nat : f = Len(fields) /\ words = Len(Words)
  BY <1>1
<1>2. /\ kind = "N" => (f <= 6 /\ words = f + 1) \/ (f = 7 /\ words > 8)
      /\ kind = "C" => (f <= 1 /\ words = f + 1) \/ (f = 2 /\ words > 3)
  <2>1. CASE kind = "N"
    <3>1. (f < 7 /\ words = f + 1) \/ (f = 7 /\ words > f + 1)
      BY <1>1, <2>1
    <3> QED
      BY <2>1, <3>1
  <2>2. CASE kind = "C"
    <3>1. (f < 2 /\ words = f + 1) \/ (f = 2 /\ words > f + 1)
      BY <1>1, <2>2
    <3> QED
      BY <2>2, <3>1
  <2> QED
    BY <1>1, <2>1, <2>2
<1>3. fields = <<>> => Len(Words) < 2 \/ Words[2] \notin Positive
  <2>1. ASSUME fields = <<>>
        PROVE  words < 2
    <3>1. f = 0
      BY <2>1, EmptySeq
    <3>2. words = f + 1
      BY <1>1, <1>2, <3>1
    <3> QED
      BY <3>1, <3>2
  <2> QED
    BY <2>1
<1>4. RejectedId = IF StartsCancel /\ Length <= MaxLength THEN Words[2].value ELSE NoId
  BY <1>1, <1>3, IdNamed
<1>5. CASE kind = "N"
  <2>1. \A n \in 1 .. 8 :
          StartsNewOrder(n) <=>
            Len(Words) >= n /\ \A i \in f + 2 .. n : NewOrderWord(i, Words[i])
    BY <1>1, <1>5, NewOrderSoFar
  <2>0. (f <= 6 /\ words = f + 1) \/ (f = 7 /\ words > 8)
    BY <1>2, <1>5
  <2>2. ~NewOrderLine
    <3>1. words # 8
      BY <2>0
    <3> QED
      BY <3>1 DEF NewOrderLine
  <2>3. ~CancelLine
    BY <1>1, <1>5, KnownOfTheLine, OtherTexts DEF CancelLine, StartsCancel
  <2>4. ~(StartsNewOrder(6) /\ Len(Words) >= 7 /\ ~StartsNewOrder(7))
    <3>1. words >= 7 => 7 < f + 2
      BY <2>0, WordsPastTheFields
    <3>2. Len(Words) >= 7 => StartsNewOrder(7)
      <4>1. 7 \in 1 .. 8
        OBVIOUS
      <4> QED
        BY <2>1, <3>1, <4>1, Places
    <3> QED
      BY <3>2
  <2>5. ~(StartsNewOrder(7) /\ Len(Words) >= 8 /\ ~StartsNewOrder(8))
    <3>1. words >= 8 => 8 < f + 2
      BY <2>0, WordsPastTheFields
    <3>2. Len(Words) >= 8 => StartsNewOrder(8)
      <4>1. 8 \in 1 .. 8
        OBVIOUS
      <4> QED
        BY <2>1, <3>1, <4>1, Places
    <3> QED
      BY <3>2
  <2> QED
    BY <1>4, <2>2, <2>3, <2>4, <2>5, RefusalIsRight
<1>6. CASE kind = "C"
  <2>1. ~StartsNewOrder(6) /\ ~StartsNewOrder(7) /\ ~StartsNewOrder(8)
    BY <1>1, <1>6, CancelIsNoNewOrder
  <2>2. ~NewOrderLine
    BY <2>1 DEF NewOrderLine
  <2>3. ~CancelLine
    <3>1. (f <= 1 /\ words = f + 1) \/ (f = 2 /\ words > 3)
      BY <1>2, <1>6
    <3>2. words # 3
      BY <3>1
    <3> QED
      BY <3>2 DEF CancelLine
  <2> QED
    BY <1>4, <2>1, <2>2, <2>3, RefusalIsRight
<1> QED
  BY <1>1, <1>5, <1>6

(* A line with a wrong word is refused for the field it stands for.        *)
LEMMA WrongWord ==
  ASSUME Inv, kind # "none", Len(fields) < Len(FieldsOf(kind)),
         Refuse(RejectedId, ReasonFor(FieldsOf(kind)[Len(fields) + 1])),
         Len(Words) >= Len(fields) + 2,
         ~NewOrderWord(Len(fields) + 2, Words[Len(fields) + 2])
  PROVE  Inv'
<1>0. Len(fields) \in Nat
  BY LenProperties DEF Inv
<1> PICK f \in Nat : f = Len(fields)
  BY <1>0
<1> PICK reason : reason = ReasonFor(FieldsOf(kind)[Len(fields) + 1])
  OBVIOUS
<1>1. /\ ReadingInOrder /\ fields \in Seq(FieldValues) /\ kind \in {"N", "C"}
      /\ f \in Nat /\ Len(Words) \in Nat
  BY KnownOfTheLine, LineTyped, LenProperties DEF Inv, CodecInv, ReadingInOrder
<1>2. /\ f < Len(FieldsOf(kind)) /\ Len(Words) >= f + 2
      /\ ~NewOrderWord(f + 2, Words[f + 2]) /\ Refuse(RejectedId, reason)
      /\ kind = "N" => Len(FieldsOf(kind)) = 7
      /\ kind = "C" => Len(FieldsOf(kind)) = 2
  BY <1>1 DEF FieldsOf, NewOrderFields, CancelOrderFields
<1>3. /\ reason = "InvalidPrice" <=> kind = "N" /\ f = 5
      /\ reason = "InvalidQuantity" <=> kind = "N" /\ f = 6
  <2>1. f + 1 \in 1 .. Len(FieldsOf(kind))
    BY <1>1, <1>2
  <2>2. /\ reason = "InvalidPrice" <=> kind = "N" /\ f + 1 = 6
        /\ reason = "InvalidQuantity" <=> kind = "N" /\ f + 1 = 7
    BY <1>1, <2>1, ReasonsNamed
  <2>3. /\ f + 1 = 6 => f = 5
        /\ f = 5 => f + 1 = 6
        /\ f + 1 = 7 => f = 6
        /\ f = 6 => f + 1 = 7
    BY Places
  <2> QED
    BY <2>2, <2>3
<1>4. RejectedId = IF StartsCancel /\ Length <= MaxLength THEN Words[2].value ELSE NoId
  <2>1. ASSUME fields = <<>>
        PROVE  Words[2] \notin Positive
    <3>1. f = 0 /\ f + 2 = 2
      BY <2>1, EmptySeq
    <3>2. ~NewOrderWord(2, Words[2])
      BY <1>2, <3>1
    <3> QED
      BY <3>2 DEF NewOrderWord
  <2> QED
    BY <1>1, <2>1, IdNamed
<1>5. CASE kind = "N"
  <2>1. \A n \in 1 .. 8 :
          StartsNewOrder(n) <=>
            Len(Words) >= n /\ \A i \in f + 2 .. n : NewOrderWord(i, Words[i])
    BY <1>1, <1>5, NewOrderSoFar
  <2>2. \A n \in 1 .. 8 : n >= f + 2 => ~StartsNewOrder(n)
    <3> TAKE n \in 1 .. 8
    <3>1. n >= f + 2 => f + 2 \in f + 2 .. n
      BY <1>1
    <3> QED
      BY <1>2, <2>1, <3>1
  <2>3. \A n \in 1 .. 8 : n < f + 2 => StartsNewOrder(n)
    <3> TAKE n \in 1 .. 8
    <3>1. n < f + 2 => Len(Words) >= n /\ \A i : i \notin f + 2 .. n
      BY <1>1, <1>2
    <3> QED
      BY <2>1, <3>1
  <2>4. ~NewOrderLine
    <3>1. 8 \in 1 .. 8 /\ 8 >= f + 2
      BY <1>1, <1>2, <1>5
    <3> QED
      BY <2>2, <3>1 DEF NewOrderLine
  <2>5. ~CancelLine
    BY <1>1, <1>5, KnownOfTheLine, OtherTexts DEF CancelLine, StartsCancel
  <2>6. StartsNewOrder(6) /\ Len(Words) >= 7 /\ ~StartsNewOrder(7) <=> f = 5
    <3>1. 6 \in 1 .. 8 /\ 7 \in 1 .. 8
      OBVIOUS
    <3>2. CASE f < 5
      <4>1. 6 >= f + 2 /\ f # 5
        BY <3>2, Places
      <4>2. ~StartsNewOrder(6)
        BY <2>2, <3>1, <4>1
      <4> QED
        BY <4>1, <4>2
    <3>3. CASE f = 5
      <4>1. 6 < f + 2 /\ 7 >= f + 2
        BY <3>3, Places
      <4>2. StartsNewOrder(6) /\ ~StartsNewOrder(7)
        BY <2>2, <2>3, <3>1, <4>1
      <4>3. Len(Words) >= 7
        BY <1>2, <3>3
      <4> QED
        BY <3>3, <4>2, <4>3
    <3>4. CASE f > 5
      <4>1. 7 < f + 2 /\ f # 5
        BY <3>4, Places
      <4>2. StartsNewOrder(7)
        BY <2>3, <3>1, <4>1
      <4> QED
        BY <4>1, <4>2
    <3> QED
      BY <3>2, <3>3, <3>4, Places
  <2>7. StartsNewOrder(7) /\ Len(Words) >= 8 /\ ~StartsNewOrder(8) <=> f = 6
    <3>1. 7 \in 1 .. 8 /\ 8 \in 1 .. 8
      OBVIOUS
    <3>2. CASE f < 6
      <4>1. 7 >= f + 2 /\ f # 6
        BY <3>2, Places
      <4>2. ~StartsNewOrder(7)
        BY <2>2, <3>1, <4>1
      <4> QED
        BY <4>1, <4>2
    <3>3. CASE f = 6
      <4>1. 7 < f + 2 /\ 8 >= f + 2
        BY <3>3, Places
      <4>2. StartsNewOrder(7) /\ ~StartsNewOrder(8)
        BY <2>2, <2>3, <3>1, <4>1
      <4>3. Len(Words) >= 8
        BY <1>2, <3>3
      <4> QED
        BY <3>3, <4>2, <4>3
    <3>4. CASE f > 6
      <4>1. 8 < f + 2 /\ f # 6
        BY <3>4, Places
      <4>2. StartsNewOrder(8)
        BY <2>3, <3>1, <4>1
      <4> QED
        BY <4>1, <4>2
    <3> QED
      BY <3>2, <3>3, <3>4, Places
  <2>8. /\ reason = "InvalidPrice" <=>
             StartsNewOrder(6) /\ Len(Words) >= 7 /\ ~StartsNewOrder(7)
        /\ reason = "InvalidQuantity" <=>
             StartsNewOrder(7) /\ Len(Words) >= 8 /\ ~StartsNewOrder(8)
    BY <1>3, <1>5, <2>6, <2>7
  <2> QED
    BY <1>2, <1>4, <2>4, <2>5, <2>8, RefusalIsRight
<1>6. CASE kind = "C"
  <2>1. ~StartsNewOrder(6) /\ ~StartsNewOrder(7) /\ ~StartsNewOrder(8)
    BY <1>1, <1>6, CancelIsNoNewOrder
  <2>2. ~NewOrderLine
    BY <2>1 DEF NewOrderLine
  <2>3. ~CancelLine
    <3>1. f = 0 \/ f = 1
      BY <1>1, <1>2, <1>6
    <3>2. CASE f = 0
      <4>1. ~NewOrderWord(2, Words[2])
        BY <1>2, <3>2
      <4> QED
        BY <4>1 DEF NewOrderWord, CancelLine, StartsCancel
    <3>3. CASE f = 1
      <4>1. ~NewOrderWord(3, Words[3])
        BY <1>2, <3>3
      <4> QED
        BY <4>1 DEF NewOrderWord
    <3> QED
      BY <3>1, <3>2, <3>3
  <2>4. reason # "InvalidPrice" /\ reason # "InvalidQuantity"
    BY <1>3, <1>6
  <2> QED
    BY <1>2, <1>4, <2>1, <2>2, <2>3, <2>4, RefusalIsRight
<1> QED
  BY <1>1, <1>5, <1>6

LEMMA ReadFieldKeepsInv ==
  ASSUME Inv, ReadField
  PROVE  Inv'
<1> PICK rest : rest = Skipped(cursor)
  OBVIOUS
<1>0. Len(fields) \in Nat
  BY LenProperties DEF Inv
<1> PICK f \in Nat : f = Len(fields)
  BY <1>0
<1> PICK field : field = FieldsOf(kind)[Len(fields) + 1]
  OBVIOUS
<1>1. /\ result = Pending /\ kind # "none" /\ f < Len(FieldsOf(kind))
      /\ IF rest = <<>>
         THEN Refuse(RejectedId, "InvalidMessage")
         ELSE IF Parse(field, Head(rest)) = NoValue
         THEN Refuse(RejectedId, ReasonFor(field))
         ELSE /\ fields' = Append(fields, Parse(field, Head(rest)).value)
              /\ cursor' = Tail(rest)
              /\ UNCHANGED <<line, kind, result>>
  BY DEF ReadField
<1>2. /\ ReadingInOrder /\ fields \in Seq(FieldValues) /\ kind \in {"N", "C"}
      /\ Len(WordsRead) = f + 1 /\ WordsRead \in Seq(Token)
      /\ Len(FieldsOf(kind)) \in Nat
  BY <1>1, KnownOfTheLine, ReadSoFar
     DEF Inv, CodecInv, FieldsOf, NewOrderFields, CancelOrderFields
<1>3. \/ rest = <<>> /\ Len(Words) = f + 1
      \/ /\ rest # <<>> /\ Head(rest) \in Token /\ Len(Words) > f + 1
         /\ Words[f + 2] = Head(rest)
  <2>1. (f + 1) + 1 = f + 2
    OBVIOUS
  <2>2. \/ rest = <<>> /\ Words = WordsRead
        \/ /\ rest # <<>> /\ Head(rest) \in Token \ {Blank}
           /\ Len(Words) > Len(WordsRead)
           /\ Words[Len(WordsRead) + 1] = Head(rest)
    BY <1>2, CursorFinds
  <2> QED
    BY <1>2, <2>1, <2>2
<1>4. CASE rest = <<>>
  <2>1. Refuse(RejectedId, "InvalidMessage") /\ Len(Words) = f + 1
    BY <1>1, <1>3, <1>4
  <2> QED
    BY <1>1, <2>1, WrongLength
<1> PICK word : word = Head(rest)
  OBVIOUS
<1>5. /\ f + 1 \in 1 .. Len(FieldsOf(kind)) /\ (f + 1) + 1 = f + 2
      /\ field = FieldsOf(kind)[f + 1]
  BY <1>1, <1>2
<1>6. ASSUME rest # <<>>
      PROVE  /\ word \in Token /\ word = Words[f + 2]
             /\ f + 1 \in 1 .. 7
             /\ Parse(field, word) # NoValue <=> NewOrderWord(f + 2, word)
             /\ NewOrderWord(f + 2, word) =>
                  Parse(field, word) = Value(Meaning(f + 1, word))
  <2>1. word \in Token /\ word = Words[f + 2]
    BY <1>3, <1>6
  <2> QED
    BY <1>2, <1>5, <2>1, FieldRead
<1>7. CASE rest # <<>> /\ Parse(field, word) = NoValue
  <2>1. ~NewOrderWord(f + 2, Words[f + 2])
    BY <1>6, <1>7
  <2>2. Refuse(RejectedId, ReasonFor(field))
    BY <1>1, <1>7
  <2>3. Len(Words) >= f + 2
    <3>1. Len(Words) \in Nat /\ Len(Words) > f + 1
      BY <1>2, <1>3, <1>7, LineTyped DEF ReadingInOrder
    <3> QED
      BY <3>1
  <2> QED
    BY <1>1, <2>1, <2>2, <2>3, WrongWord
<1>8. CASE rest # <<>> /\ Parse(field, word) # NoValue
  <2> PICK value : value = Meaning(f + 1, word)
    OBVIOUS
  <2>1. Parse(field, word) = Value(value) /\ value \in FieldValues
    BY <1>5, <1>6, <1>8, MeaningTyped
  <2>2. /\ fields' = Append(fields, value) /\ cursor' = Tail(rest)
        /\ line' = line /\ kind' = kind /\ result' = result
    <3>1. Value(value).value = value
      BY DEF Value
    <3> QED
      BY <1>1, <1>8, <2>1, <3>1
  <2>3. /\ Position' \in 0 .. Len(line.text)
        /\ cursor' = SubSeq(line.text, Position' + 1, Len(line.text))
        /\ WordsRead' = Append(WordsRead, word)
    BY <1>2, <1>8, <2>2, CursorMoves
  <2>4. /\ fields' \in Seq(FieldValues) /\ Len(fields') = f + 1
        /\ fields'[f + 1] = value /\ \A i \in 1 .. f : fields'[i] = fields[i]
    BY <1>2, <2>1, <2>2, AppendProperties
  <2>5. /\ Len(WordsRead') = f + 2 /\ WordsRead'[f + 2] = word
        /\ \A i \in 1 .. f + 1 : WordsRead'[i] = WordsRead[i]
    BY <1>2, <1>5, <1>6, <1>8, <2>3, AppendProperties
  <2>6. ~Decoded' /\ ~Refused'
    BY <1>1, <2>2, PendingStill DEF Pending
  <2>7. ASSUME NEW i \in DOMAIN fields'
        PROVE  Parse(FieldsOf(kind)[i], WordsRead'[i + 1]) = Value(fields'[i])
    <3>1. i \in 1 .. f + 1
      BY <2>4, <2>7, LenProperties
    <3>2. CASE i = f + 1
      BY <1>5, <2>1, <2>4, <2>5, <3>2
    <3>3. CASE i # f + 1
      <4>1. i \in 1 .. f /\ i + 1 \in 1 .. f + 1 /\ i \in DOMAIN fields
        BY <1>2, <3>1, <3>3, LenProperties
      <4>2. Parse(FieldsOf(kind)[i], WordsRead[i + 1]) = Value(fields[i])
        BY <1>1, <1>2, <4>1 DEF ReadingInOrder
      <4> QED
        BY <2>4, <2>5, <4>1, <4>2
    <3> QED
      BY <3>2, <3>3
  <2>8. ReadingInOrder'
    <3>1. /\ line \in Line /\ Length <= MaxLength /\ WordsRead[1] = Text(kind)
          /\ 1 \in 1 .. f + 1
      BY <1>1, <1>2 DEF ReadingInOrder
    <3>2. Length' = Length
      BY <2>2, LineKept
    <3>3. WordsRead'[1] = Text(kind')
      BY <2>2, <2>5, <3>1
    <3>4. Len(WordsRead') = Len(fields') + 1 /\ Len(fields') <= Len(FieldsOf(kind'))
      BY <1>5, <2>2, <2>4, <2>5
    <3> QED
      BY <1>1, <1>2, <2>2, <2>3, <2>7, <3>1, <3>2, <3>3, <3>4 DEF ReadingInOrder
  <2> QED
    BY <2>4, <2>6, <2>8
       DEF Inv, CodecInv, DecodesTheProtocol, FirstFaultNamed, RefusalsTraceable
<1> QED
  BY <1>4, <1>7, <1>8

(* A line whose words have all been read and are right is a request.       *)
LEMMA FinishKeepsInv ==
  ASSUME Inv, Finish
  PROVE  Inv'
<1> PICK rest : rest = Skipped(cursor)
  OBVIOUS
<1>1. /\ result = Pending /\ kind # "none" /\ Len(fields) = Len(FieldsOf(kind))
      /\ IF rest # <<>>
         THEN Refuse(RejectedId, "InvalidMessage")
         ELSE /\ result' = [type |-> kind, fields |-> fields]
              /\ UNCHANGED <<line, cursor, kind, fields>>
  BY DEF Finish
<1>2. /\ ReadingInOrder /\ fields \in Seq(FieldValues) /\ kind \in {"N", "C"}
      /\ Len(WordsRead) = Len(fields) + 1 /\ Words[1] = Text(kind)
      /\ \A i \in 1 .. Len(fields) :
           NewOrderWord(i + 1, Words[i + 1]) /\ fields[i] = Meaning(i, Words[i + 1])
  BY <1>1, KnownOfTheLine DEF Inv, CodecInv
<1>3. /\ kind = "N" => Len(fields) = 7
      /\ kind = "C" => Len(fields) = 2
  BY <1>1 DEF FieldsOf, NewOrderFields, CancelOrderFields
<1>4. CASE rest # <<>>
  <2>1. Len(Words) > Len(fields) + 1
    BY <1>2, <1>4, CursorFinds
  <2>2. Refuse(RejectedId, "InvalidMessage")
    BY <1>1, <1>4
  <2> QED
    BY <1>1, <2>1, <2>2, WrongLength
<1>5. CASE rest = <<>>
  <2>1. /\ result' = [type |-> kind, fields |-> fields]
        /\ line' = line /\ cursor' = cursor /\ kind' = kind /\ fields' = fields
    BY <1>1, <1>5
  <2>2. result'.type = kind /\ result'.fields = fields
    BY <2>1
  <2>3. ~Refused'
    BY <1>2, <2>2 DEF Refused
  <2>4. Len(Words) = Len(fields) + 1
    BY <1>2, <1>5, CursorFinds
  <2>5. NewOrderLine \/ CancelLine
    <3>0. Len(fields) \in Nat /\ Len(Words) \in Nat
      BY <1>2, LineTyped, LenProperties DEF ReadingInOrder
    <3> PICK f, words \in Nat : f = Len(fields) /\ words = Len(Words)
      BY <3>0
    <3>1. CASE kind = "N"
      <4>0. f = 7 /\ words = f + 1
        BY <1>3, <2>4, <3>1
      <4>1. Len(Words) = 8 /\ Len(fields) = 7
        BY <4>0
      <4>2. \A i \in 9 .. 8 : NewOrderWord(i, Words[i])
        OBVIOUS
      <4>3. StartsNewOrder(8)
        <5>1. 8 \in 1 .. 8 /\ Len(fields) + 2 = 9
          BY <4>1
        <5>2. StartsNewOrder(8) <=>
                Len(Words) >= 8 /\ \A i \in Len(fields) + 2 .. 8 : NewOrderWord(i, Words[i])
          BY <1>2, <3>1, <5>1, NewOrderSoFar
        <5> QED
          BY <4>1, <4>2, <5>1, <5>2
      <4> QED
        BY <4>1, <4>3 DEF NewOrderLine
    <3>2. CASE kind = "C"
      <4>0. f = 2 /\ words = f + 1
        BY <1>3, <2>4, <3>2
      <4>1. Len(Words) = 3 /\ 1 \in 1 .. Len(fields)
        BY <4>0
      <4>2. NewOrderWord(1 + 1, Words[1 + 1])
        BY <1>2, <4>1
      <4>3. Words[2] \in Positive
        BY <4>2 DEF NewOrderWord
      <4> QED
        BY <1>2, <3>2, <4>1, <4>3 DEF CancelLine, StartsCancel
    <3> QED
      BY <1>2, <3>1, <3>2
  <2>6. ASSUME NEW i \in DOMAIN fields
        PROVE  fields[i] = IF i = 2 THEN Words[i + 1]
                           ELSE IF Words[i + 1].kind = "number" THEN Words[i + 1].value
                           ELSE Words[i + 1].text
    <3>1. i \in 1 .. Len(fields)
      BY <1>2, LenProperties
    <3> QED
      BY <1>2, <3>1 DEF Meaning
  <2>7. Length <= MaxLength
    BY <1>1, <1>2 DEF ReadingInOrder
  <2>8. /\ Words' = Words /\ Length' = Length
        /\ NewOrderLine' <=> NewOrderLine
        /\ CancelLine' <=> CancelLine
    BY <2>1, LineKept
  <2>9. DecodesTheProtocol'
    BY <2>2, <2>3, <2>5, <2>6, <2>7, <2>8 DEF DecodesTheProtocol
  <2>10. ReadingInOrder'
    <3>1. Position' = Position /\ WordsRead' = WordsRead
      BY <2>1 DEF Position, WordsRead
    <3> QED
      BY <1>1, <1>2, <2>1, <2>8, <3>1 DEF ReadingInOrder
  <2> QED
    BY <1>2, <2>1, <2>3, <2>9, <2>10
       DEF Inv, CodecInv, FirstFaultNamed, RefusalsTraceable
<1> QED
  BY <1>4, <1>5

-----------------------------------------------------------------------------
(* The results *)

LEMMA CodecStep ==
  ASSUME Inv, [Next]_vars
  PROVE  Inv'
<1>1. CASE RefuseTooLong
  BY <1>1, RefuseTooLongKeepsInv
<1>2. CASE ReadType
  BY <1>2, ReadTypeKeepsInv
<1>3. CASE ReadField
  BY <1>3, ReadFieldKeepsInv
<1>4. CASE Finish
  BY <1>4, FinishKeepsInv
<1>5. CASE UNCHANGED vars
  BY <1>5, UnchangedKeepsInv
<1> QED
  BY <1>1, <1>2, <1>3, <1>4, <1>5 DEF Next

(* For every limit, every bound on the length and every set of lines, the  *)
(* cursor has at every step passed the words of the line in their order:   *)
(* the type and the fields read so far, each with the value its place      *)
(* gives it (TextCodec.cpp:25-62, :124-300).                               *)
THEOREM CodecInvariance == Spec => []CodecInv
<1>1. Init => Inv
  BY InitKeepsInv
<1>2. Inv /\ [Next]_vars => Inv'
  BY CodecStep
<1>3. Inv => CodecInv
  BY DEF Inv
<1> QED
  BY <1>1, <1>2, <1>3, PTL DEF Spec

(* A line becomes a request exactly if it is one of the protocol, and its  *)
(* fields have the values of their words (TextCodec.cpp:64-82, :124-300).  *)
THEOREM LinesDecoded == Spec => []DecodesTheProtocol
<1>1. CodecInv => DecodesTheProtocol
  BY DEF CodecInv
<1> QED
  BY <1>1, CodecInvariance, PTL

(* The reason of a refusal is that of the first fault of the line, also if *)
(* words are missing or wrong behind it (TextCodec.cpp:178-204).           *)
THEOREM FaultsNamed == Spec => []FirstFaultNamed
<1>1. CodecInv => FirstFaultNamed
  BY DEF CodecInv
<1> QED
  BY <1>1, CodecInvariance, PTL

(* A refusal carries a client order id exactly for a cancel that names it  *)
(* itself (TextCodec.cpp:127-204, :234-236).                               *)
THEOREM RefusalsTraced == Spec => []RefusalsTraceable
<1>1. CodecInv => RefusalsTraceable
  BY DEF CodecInv
<1> QED
  BY <1>1, CodecInvariance, PTL

=============================================================================
