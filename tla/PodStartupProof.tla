--------------------------- MODULE PodStartupProof ---------------------------
(***************************************************************************)
(* From an Authenticator to the filters on its interfaces: proofs about    *)
(* PodStartup for any interfaces, VFs, ports, lists and secrets.           *)
(***************************************************************************)
EXTENDS PodStartup, SequenceTheorems, FiniteSetTheorems, WellFoundedInduction, TLAPS

-----------------------------------------------------------------------------
(* Strings                                                                 *)

(* c enumerates, in order, the places where Split cuts a string.           *)
IsCuts(str, sep, n, c) ==
    /\ n \in Nat /\ c \in [0 .. n -> Nat]
    /\ \A i, j \in 0 .. n : i < j => c[i] < c[j]
    /\ \A x : (x \in DOMAIN str /\ str[x] = sep) \/ x = 0 \/ x = Len(str) + 1
                <=> \E i \in 0 .. n : x = c[i]

(* The fields are what lies between two cuts.                              *)
LEMMA SplitAt ==
  ASSUME NEW str, NEW sep, NEW n, NEW c, IsCuts(str, sep, n, c)
  PROVE  Split(str, sep) = [k \in 1 .. n |-> SubSeq(str, c[k - 1] + 1, c[k] - 1)]
<1> USE DEF IsCuts
<1>0. {i \in DOMAIN str : str[i] = sep} \cup {0, Len(str) + 1} = {c[i] : i \in 0 .. n}
  OBVIOUS
<1> DEFINE cuts == {c[i] : i \in 0 .. n}
           Before(i) == {j \in cuts : j < i}
<1>1. \A i, j \in 0 .. n : (c[i] < c[j] => i < j) /\ (c[i] = c[j] => i = j)
  <2>1. SUFFICES ASSUME NEW i \in 0 .. n, NEW j \in 0 .. n
                 PROVE  (c[i] < c[j] => i < j) /\ (c[i] = c[j] => i = j)
    OBVIOUS
  <2>2. c[i] \in Nat /\ c[j] \in Nat /\ i \in Nat /\ j \in Nat
    OBVIOUS
  <2>3. (i < j => c[i] < c[j]) /\ (j < i => c[j] < c[i])
    OBVIOUS
  <2>4. QED  BY <2>2, <2>3
<1>2. ASSUME NEW m \in 0 .. n + 1, NEW S, S = {c[i] : i \in 0 .. m - 1}
      PROVE  Cardinality(S) = m
  <2> DEFINE f == [i \in 1 .. m |-> c[i - 1]]
  <2>1. f \in [1 .. m -> S]
    BY <1>2
  <2>2. \A i, j \in 1 .. m : f[i] = f[j] => i = j
    <3>1. SUFFICES ASSUME NEW i \in 1 .. m, NEW j \in 1 .. m, f[i] = f[j] PROVE i = j
      OBVIOUS
    <3>2. i - 1 \in 0 .. n /\ j - 1 \in 0 .. n /\ c[i - 1] = c[j - 1]
      BY <3>1
    <3>3. i - 1 = j - 1
      BY <1>1, <3>2
    <3>4. QED  BY <3>3
  <2>3. \A x \in S : \E i \in 1 .. m : f[i] = x
    <3>1. SUFFICES ASSUME NEW x \in S PROVE \E i \in 1 .. m : f[i] = x
      OBVIOUS
    <3>2. PICK i \in 0 .. m - 1 : x = c[i]
      BY <1>2
    <3>3. i + 1 \in 1 .. m /\ f[i + 1] = x
      BY <3>2
    <3>4. QED  BY <3>3
  <2>4. f \in Bijection(1 .. m, S)
    BY Zenon, <2>1, <2>2, <2>3 DEF Bijection, Injection, Surjection, IsInjective
  <2>5. QED  BY <2>4, FS_CountingElements DEF ExistsBijection
<1>3. Cardinality(cuts) = n + 1
  BY <1>2
<1>4. ASSUME NEW k \in 0 .. n PROVE Cardinality(Before(c[k])) = k
  <2>1. Before(c[k]) = {c[i] : i \in 0 .. k - 1}
    BY <1>1, <1>4
  <2>2. k \in 0 .. n + 1
    BY <1>4
  <2>3. QED  BY Zenon, <1>2, <2>1, <2>2
<1> HIDE DEF Before
<1>5. ASSUME NEW k \in 0 .. n
      PROVE  (CHOOSE i \in cuts : Cardinality(Before(i)) = k) = c[k]
  <2>1. c[k] \in cuts /\ Cardinality(Before(c[k])) = k
    BY <1>4, <1>5
  <2>2. ASSUME NEW x \in cuts, Cardinality(Before(x)) = k PROVE x = c[k]
    <3>1. PICK i \in 0 .. n : x = c[i]
      BY <2>2
    <3>2. QED  BY <1>4, <2>2, <3>1
  <2>3. QED  BY <2>1, <2>2
<1> DEFINE Fields(C) ==
             [k \in 1 .. (Cardinality(C) - 1) |->
                SubSeq(str, (CHOOSE i \in C : Cardinality({j \in C : j < i}) = k - 1) + 1,
                            (CHOOSE i \in C : Cardinality({j \in C : j < i}) = k) - 1)]
           Cut(k) == CHOOSE i \in cuts : Cardinality(Before(i)) = k
<1>6. Split(str, sep) = Fields({i \in DOMAIN str : str[i] = sep} \cup {0, Len(str) + 1})
  BY DEF Split
<1>7. Fields(cuts) = [k \in 1 .. (Cardinality(cuts) - 1) |->
                        SubSeq(str, Cut(k - 1) + 1, Cut(k) - 1)]
  BY DEF Before
<1> HIDE DEF Fields, Cut
<1>8. Split(str, sep) = Fields(cuts)
  BY Zenon, <1>0, <1>6
<1>9. \A k \in 0 .. n : Cut(k) = c[k]
  BY <1>5 DEF Cut
<1>10. \A k \in 1 .. n : Cut(k - 1) = c[k - 1] /\ Cut(k) = c[k]
  BY <1>9
<1>11. Cardinality(cuts) - 1 = n
  BY <1>3
<1> HIDE DEF cuts
<1>12. QED  BY Zenon, <1>7, <1>8, <1>10, <1>11

(* str has the parts at its odd places and separators at the even ones.    *)
IsJoin(str, parts, sep) ==
    /\ Len(parts) \in Nat /\ Len(parts) > 0
    /\ Len(str) = 2 * Len(parts) - 1
    /\ DOMAIN str = 1 .. (2 * Len(parts) - 1)
    /\ \A i \in 1 .. Len(parts) : str[2 * i - 1] = parts[i]
    /\ \A i \in 1 .. Len(parts) - 1 : str[2 * i] = sep
    /\ \A j \in 1 .. (2 * Len(parts) - 1) :
          \/ \E i \in 1 .. Len(parts) : j = 2 * i - 1
          \/ \E i \in 1 .. Len(parts) - 1 : j = 2 * i

LEMMA JoinFacts ==
  ASSUME NEW S, NEW parts \in Seq(S), parts # <<>>, NEW sep
  PROVE  Join(parts, sep) \in Seq(S \cup {sep}) /\ IsJoin(Join(parts, sep), parts, sep)
<1>0. PICK n \in Nat : n = Len(parts)
  BY LenProperties
<1>1. n > 0
  BY <1>0, EmptySeq
<1>2. \A j \in 1 .. (2 * n - 1) :
         \/ \E i \in 1 .. n : j = 2 * i - 1
         \/ \E i \in 1 .. n - 1 : j = 2 * i
  <2>1. SUFFICES ASSUME NEW j \in 1 .. (2 * n - 1)
                 PROVE  \/ \E i \in 1 .. n : j = 2 * i - 1
                        \/ \E i \in 1 .. n - 1 : j = 2 * i
    OBVIOUS
  <2>2. CASE j % 2 = 1
    <3>1. (j + 1) \div 2 \in 1 .. n /\ j = 2 * ((j + 1) \div 2) - 1
      BY <2>2
    <3>2. QED  BY <3>1
  <2>3. CASE j % 2 # 1
    <3>1. j \div 2 \in 1 .. n - 1 /\ j = 2 * (j \div 2)
      BY <2>3
    <3>2. QED  BY <3>1
  <2>4. QED  BY <2>2, <2>3
<1>3. PICK str : str = Join(parts, sep)
  OBVIOUS
<1>4. str = [i \in 1 .. (2 * n - 1) |-> IF i % 2 = 1 THEN parts[(i + 1) \div 2] ELSE sep]
  BY <1>0, <1>3 DEF Join
<1>5. \A i \in 1 .. n : str[2 * i - 1] = parts[i]
  <2>1. ASSUME NEW i \in 1 .. n
        PROVE  /\ 2 * i - 1 \in 1 .. (2 * n - 1) /\ (2 * i - 1) % 2 = 1
               /\ ((2 * i - 1) + 1) \div 2 = i
    OBVIOUS
  <2>2. QED  BY <1>4, <2>1
<1>6. \A i \in 1 .. n - 1 : str[2 * i] = sep
  <2>1. ASSUME NEW i \in 1 .. n - 1
        PROVE  2 * i \in 1 .. (2 * n - 1) /\ (2 * i) % 2 # 1
    OBVIOUS
  <2>2. QED  BY <1>4, <2>1
<1>7. \A i \in 1 .. n : parts[i] \in S
  BY <1>0, ElementOfSeq
<1>8. str \in [1 .. (2 * n - 1) -> S \cup {sep}]
  <2>1. \A j \in 1 .. (2 * n - 1) : str[j] \in S \cup {sep}
    BY Zenon, <1>2, <1>5, <1>6, <1>7
  <2>2. QED  BY <1>4, <2>1
<1>9. str \in Seq(S \cup {sep}) /\ Len(str) = 2 * n - 1 /\ DOMAIN str = 1 .. (2 * n - 1)
  <2>1. 2 * n - 1 \in Nat
    BY <1>1
  <2>2. str \in Seq(S \cup {sep})
    BY <1>8, <2>1, IsASeq
  <2>3. QED  BY <1>8, <2>1, <2>2, LenProperties
<1>10. IsJoin(str, parts, sep)
  BY <1>0, <1>1, <1>2, <1>5, <1>6, <1>9 DEF IsJoin
<1>11. QED  BY <1>3, <1>9, <1>10

(* A field between two separators.                                         *)
LEMMA OneToken ==
  ASSUME NEW S, NEW str \in Seq(S), NEW m \in 1 .. Len(str)
  PROVE  SubSeq(str, m, m) = <<str[m]>>
<1>1. Len(str) \in Nat /\ str[m] \in S /\ m \in Int
  BY LenProperties, ElementOfSeq
<1>2. \A i \in m .. m : str[i] \in S
  BY <1>1
<1>3. /\ SubSeq(str, m, m) \in Seq(S) /\ Len(SubSeq(str, m, m)) = 1
      /\ SubSeq(str, m, m)[1] = str[m]
  BY <1>1, <1>2, SubSeqProperties
<1>4. <<str[m]>> \in Seq(S) /\ Len(<<str[m]>>) = 1 /\ <<str[m]>>[1] = str[m]
  BY <1>1
<1>5. PICK s, t : s = SubSeq(str, m, m) /\ t = <<str[m]>>
  OBVIOUS
<1>6. \A i \in 1 .. Len(s) : s[i] = t[i]
  BY <1>3, <1>4, <1>5
<1>7. s = t
  BY Zenon, <1>3, <1>4, <1>5, <1>6, SeqEqual
<1>8. QED  BY <1>5, <1>7

LEMMA JoinSplit ==
  ASSUME NEW S, NEW parts \in Seq(S), parts # <<>>, NEW sep, sep \notin S
  PROVE  Split(Join(parts, sep), sep) = [k \in 1 .. Len(parts) |-> <<parts[k]>>]
<1> DEFINE n == Len(parts)
           str == Join(parts, sep)
<1>1. str \in Seq(S \cup {sep}) /\ IsJoin(str, parts, sep)
  BY JoinFacts
<1> HIDE DEF str
<1>3. /\ n \in Nat /\ n > 0 /\ str \in Seq(S \cup {sep}) /\ Len(str) = 2 * n - 1
      /\ DOMAIN str = 1 .. (2 * n - 1)
      /\ \A i \in 1 .. n : str[2 * i - 1] = parts[i]
      /\ \A i \in 1 .. n - 1 : str[2 * i] = sep
      /\ \A j \in 1 .. (2 * n - 1) :
            \/ \E i \in 1 .. n : j = 2 * i - 1
            \/ \E i \in 1 .. n - 1 : j = 2 * i
  BY <1>1 DEF IsJoin
<1>4. \A i \in 1 .. n : parts[i] \in S /\ parts[i] # sep
  BY ElementOfSeq
<1> HIDE DEF n
<1>5. PICK c : c = [i \in 0 .. n |-> 2 * i]
  OBVIOUS
<1>6. c \in [0 .. n -> Nat] /\ \A i, j \in 0 .. n : i < j => c[i] < c[j]
  BY <1>3, <1>5
<1>7. \A x : (x \in DOMAIN str /\ str[x] = sep) \/ x = 0 \/ x = Len(str) + 1
               <=> \E i \in 0 .. n : x = c[i]
  <2>1. ASSUME NEW j \in DOMAIN str, str[j] = sep PROVE \E i \in 0 .. n : j = c[i]
    <3>1. PICK i \in 1 .. n - 1 : j = 2 * i
      BY Zenon, <1>3, <1>4, <2>1
    <3>2. i \in 0 .. n /\ j = c[i]
      BY <1>3, <1>5, <3>1
    <3>3. QED  BY <3>2
  <2>2. 0 = c[0] /\ Len(str) + 1 = c[n] /\ 0 \in 0 .. n /\ n \in 0 .. n
    BY <1>3, <1>5
  <2>3. ASSUME NEW i \in 0 .. n
        PROVE  \/ c[i] \in DOMAIN str /\ str[c[i]] = sep
               \/ c[i] = 0 \/ c[i] = Len(str) + 1
    <3>1. CASE i \in 1 .. n - 1
      <4>1. 2 * i \in 1 .. (2 * n - 1) /\ str[2 * i] = sep
        BY <1>3, <3>1
      <4>2. QED  BY <1>3, <1>5, <4>1
    <3>2. CASE i \notin 1 .. n - 1
      <4>1. i = 0 \/ i = n
        BY <1>3, <3>2
      <4>2. QED  BY <2>2, <4>1
    <3>3. QED  BY <3>1, <3>2
  <2>4. QED  BY <2>1, <2>2, <2>3
<1>8. Split(str, sep) = [k \in 1 .. n |-> SubSeq(str, c[k - 1] + 1, c[k] - 1)]
  <2>1. IsCuts(str, sep, n, c)
    BY <1>3, <1>6, <1>7 DEF IsCuts
  <2>2. QED  BY <2>1, SplitAt
<1>9. \A k \in 1 .. n : SubSeq(str, c[k - 1] + 1, c[k] - 1) = <<parts[k]>>
  <2>1. SUFFICES ASSUME NEW k \in 1 .. n
                 PROVE  SubSeq(str, c[k - 1] + 1, c[k] - 1) = <<parts[k]>>
    OBVIOUS
  <2>2. c[k - 1] + 1 = 2 * k - 1 /\ c[k] - 1 = 2 * k - 1 /\ 2 * k - 1 \in 1 .. Len(str)
    BY <1>3, <1>5
  <2>3. str[2 * k - 1] = parts[k]
    BY <1>3
  <2>4. SubSeq(str, 2 * k - 1, 2 * k - 1) = <<str[2 * k - 1]>>
    BY <1>3, <2>2, OneToken
  <2>5. QED  BY <2>2, <2>3, <2>4
<1>10. Split(str, sep) = [k \in 1 .. n |-> <<parts[k]>>]
  BY <1>8, <1>9
<1>11. QED  BY <1>10 DEF n, str

(* A string without the separator is one field.                            *)
LEMMA SplitWhole ==
  ASSUME NEW S, NEW str \in Seq(S), NEW sep, sep \notin S
  PROVE  Split(str, sep) = [k \in 1 .. 1 |-> str]
<1>1. Len(str) \in Nat /\ DOMAIN str = 1 .. Len(str) /\ \A i \in 1 .. Len(str) : str[i] # sep
  BY LenProperties, ElementOfSeq
<1>2. PICK c : c = [i \in 0 .. 1 |-> IF i = 0 THEN 0 ELSE Len(str) + 1]
  OBVIOUS
<1>3. /\ c \in [0 .. 1 -> Nat] /\ \A i, j \in 0 .. 1 : i < j => c[i] < c[j]
      /\ c[0] = 0 /\ c[1] = Len(str) + 1
  BY <1>1, <1>2
<1>4. \A x : (x \in DOMAIN str /\ str[x] = sep) \/ x = 0 \/ x = Len(str) + 1
               <=> \E i \in 0 .. 1 : x = c[i]
  BY <1>1, <1>3
<1>5. Split(str, sep) = [k \in 1 .. 1 |-> SubSeq(str, c[k - 1] + 1, c[k] - 1)]
  <2>1. PICK n : n = 1
    OBVIOUS
  <2>2. IsCuts(str, sep, n, c)
    BY <1>3, <1>4, <2>1 DEF IsCuts
  <2>3. Split(str, sep) = [k \in 1 .. n |-> SubSeq(str, c[k - 1] + 1, c[k] - 1)]
    BY <2>2, SplitAt
  <2>4. QED  BY <2>1, <2>3
<1>6. SubSeq(str, 1, Len(str)) = str
  BY SubSeqFull
<1>7. \A k \in 1 .. 1 : SubSeq(str, c[k - 1] + 1, c[k] - 1) = str
  <2>1. SUFFICES ASSUME NEW k \in 1 .. 1
                 PROVE  SubSeq(str, c[k - 1] + 1, c[k] - 1) = str
    OBVIOUS
  <2>2. c[k - 1] + 1 = 1 /\ c[k] - 1 = Len(str)
    BY <1>1, <1>3
  <2>3. QED  BY <1>6, <2>2
<1>8. QED  BY <1>5, <1>7

(* A string that neither starts nor ends with a blank stays as it is.      *)
LEMMA TrimNothing ==
  ASSUME NEW S, NEW str \in Seq(S), str # <<>>, str[1] # Space, str[Len(str)] # Space
  PROVE  TrimSpace(str) = str
<1>1. Len(str) \in Nat \ {0} /\ DOMAIN str = 1 .. Len(str)
  BY LenProperties, EmptySeq
<1>2. PICK text : text = {i \in DOMAIN str : str[i] # Space}
  OBVIOUS
<1>3. text \subseteq 1 .. Len(str) /\ 1 \in text /\ Len(str) \in text
  BY <1>1, <1>2
<1>4. Min(text) = 1
  <2>1. \A x \in text : x =< 1 => x = 1
    BY <1>1, <1>3
  <2>2. \A y \in text : 1 =< y
    BY <1>1, <1>3
  <2>3. QED  BY Zenon, <1>3, <2>1, <2>2 DEF Min
<1>5. Max(text) = Len(str)
  <2>1. PICK n : n = Len(str)
    OBVIOUS
  <2>2. n \in Nat /\ text \subseteq 1 .. n /\ n \in text
    BY <1>1, <1>3, <2>1
  <2>3. \A x \in text : x >= n => x = n
    BY <2>2
  <2>4. \A y \in text : n >= y
    BY <2>2
  <2>5. Max(text) = n
    BY Zenon, <2>2, <2>3, <2>4 DEF Max
  <2>6. QED  BY <2>1, <2>5
<1>6. TrimSpace(str) = SubSeq(str, Min(text), Max(text))
  BY Zenon, <1>2, <1>3 DEF TrimSpace
<1>7. QED  BY <1>4, <1>5, <1>6, SubSeqFull

(* A name or number on its own holds no blank to trim.                     *)
LEMMA TrimToken ==
  ASSUME NEW x, x # Space
  PROVE  TrimSpace(<<x>>) = <<x>>
<1>1. PICK t : t = <<x>>
  OBVIOUS
<1>2. t \in Seq({x}) /\ t # <<>> /\ t[1] = x /\ Len(t) = 1
  BY <1>1
<1>3. TrimSpace(t) = t
  BY <1>2, TrimNothing
<1>4. QED  BY <1>1, <1>3

LEMMA JoinEmpty ==
  ASSUME NEW sep
  PROVE  Join(<<>>, sep) = <<>>
BY DEF Join

LEMMA ValuesEmpty == Values(<<>>) = <<>> /\ ~ParseFails(<<>>)
<1>1. ParseStringsArgs(<<>>) = <<>>
  BY DEF ParseStringsArgs
<1>2. QED  BY <1>1 DEF Values, ParseFails

(* What parseStringsArgs makes of a list joined with commas.               *)
LEMMA CommaRoundTrip ==
  ASSUME NEW S, NEW parts \in Seq(S), Comma \notin S, Space \notin S
  PROVE  /\ Values(Join(parts, Comma)) = parts
         /\ Join(parts, Comma) = <<>> => parts = <<>>
<1>1. CASE parts = <<>>
  BY <1>1, JoinEmpty, ValuesEmpty
<1>2. CASE parts # <<>>
  <2>1. PICK str : str = Join(parts, Comma)
    OBVIOUS
  <2>2. PICK n : n = Len(parts)
    OBVIOUS
  <2>3. n \in Nat /\ \A k \in 1 .. n : parts[k] \in S /\ parts[k] # Space
    BY <2>2, LenProperties, ElementOfSeq
  <2>4. str # <<>>
    <3>1. IsJoin(str, parts, Comma)
      BY Zenon, <1>2, <2>1, JoinFacts
    <3>2. Len(str) > 0
      BY <2>2, <2>3, <3>1 DEF IsJoin
    <3>3. QED  BY <3>2
  <2>5. Split(str, Comma) = [k \in 1 .. n |-> <<parts[k]>>]
    BY <1>2, <2>1, <2>2, JoinSplit
  <2>6. \A k \in 1 .. n : TrimSpace(<<parts[k]>>) = <<parts[k]>>
    BY <2>3, TrimToken
  <2>7. ParseStringsArgs(str) = [k \in 1 .. n |-> <<parts[k]>>]
    BY <2>4, <2>5, <2>6 DEF ParseStringsArgs
  <2>8. Values(str) = [k \in 1 .. n |-> parts[k]]
    BY <2>7 DEF Values
  <2>9. parts = [k \in 1 .. n |-> parts[k]]
    BY <2>2
  <2>10. QED  BY <1>2, <2>1, <2>4, <2>8, <2>9
<1>3. QED  BY <1>1, <1>2

(* What parseIntArgs makes of a list joined with blanks: it fails, or the  *)
(* list has at most one port.                                              *)
LEMMA SpaceRoundTrip ==
  ASSUME NEW S, NEW parts \in Seq(S), Comma \notin S, Space \notin S,
         ~ParseFails(Join(parts, Space))
  PROVE  Values(Join(parts, Space)) = parts
<1>1. CASE parts = <<>>
  BY <1>1, JoinEmpty, ValuesEmpty
<1>2. CASE parts # <<>>
  <2>1. PICK str : str = Join(parts, Space)
    OBVIOUS
  <2>2. PICK n : n = Len(parts)
    OBVIOUS
  <2>3. n \in Nat /\ \A k \in 1 .. n : parts[k] \in S /\ parts[k] # Space
    BY <2>2, LenProperties, ElementOfSeq
  <2>4. str \in Seq(S \cup {Space}) /\ IsJoin(str, parts, Space)
    BY <1>2, <2>1, JoinFacts
  <2>5. n > 0 /\ Len(str) = 2 * n - 1 /\ \A i \in 1 .. n : str[2 * i - 1] = parts[i]
    BY <2>2, <2>4 DEF IsJoin
  <2>6. str # <<>> /\ str[1] = parts[1] /\ str[Len(str)] = parts[n]
    <3>1. 1 \in 1 .. n /\ n \in 1 .. n /\ 2 * 1 - 1 = 1 /\ Len(str) > 0
      BY <2>3, <2>5
    <3>2. str[2 * 1 - 1] = parts[1] /\ str[2 * n - 1] = parts[n]
      BY <2>5, <3>1
    <3>3. QED  BY <2>5, <3>1, <3>2
  <2>7. TrimSpace(str) = str
    <3>1. str[1] # Space /\ str[Len(str)] # Space
      BY <2>3, <2>5, <2>6
    <3>2. QED  BY <2>4, <2>6, <3>1, TrimNothing
  <2>8. Split(str, Comma) = [k \in 1 .. 1 |-> str]
    <3>1. PICK T : T = S \cup {Space}
      OBVIOUS
    <3>2. Comma \notin T /\ str \in Seq(T)
      BY Zenon, <2>4, <3>1 DEF Comma, Space
    <3>3. QED  BY <3>2, SplitWhole
  <2>9. ParseStringsArgs(str) = [k \in 1 .. 1 |-> str]
    BY <2>6, <2>7, <2>8 DEF ParseStringsArgs
  <2>10. Len(str) = 1
    BY <2>1, <2>9 DEF ParseFails, IsNumber
  <2>11. n = 1
    <3>1. n \in Nat /\ 2 * n - 1 = 1
      BY Zenon, <2>3, <2>5, <2>10
    <3>2. QED  BY <3>1
  <2>12. Values(str) = [k \in 1 .. 1 |-> str[1]]
    BY <2>9 DEF Values
  <2>13. parts = [k \in 1 .. 1 |-> parts[1]]
    <3>1. parts = [k \in 1 .. n |-> parts[k]]
      BY <2>2
    <3>2. \A k \in 1 .. 1 : k = 1
      OBVIOUS
    <3>3. QED  BY <2>11, <3>1, <3>2
  <2>14. QED  BY <2>1, <2>6, <2>12, <2>13
<1>3. QED  BY <1>1, <1>2

(* The downward API's line for a label, split at its =.                    *)
LEMMA LabelSplit ==
  ASSUME NEW key, NEW value, key # Equals, value # Equals
  PROVE  /\ Len(Split(Label(key, value), Equals)) = 2
         /\ Split(Label(key, value), Equals)[1] = <<key>>
         /\ Split(Label(key, value), Equals)[2] = <<Quote, value, Quote>>
<1>1. PICK line : line = Label(key, value)
  OBVIOUS
<1>2. PICK S : S = {key, Equals, Quote, value}
  OBVIOUS
<1>3. /\ line = <<key, Equals, Quote, value, Quote>>
      /\ line \in Seq(S) /\ Len(line) = 5 /\ DOMAIN line = 1 .. 5
      /\ line[1] = key /\ line[2] = Equals /\ line[3] = Quote /\ line[4] = value
      /\ line[5] = Quote
  BY <1>1, <1>2 DEF Label
<1>4. PICK c : c = [i \in 0 .. 2 |-> IF i = 0 THEN 0 ELSE IF i = 1 THEN 2 ELSE 6]
  OBVIOUS
<1>5. c[0] = 0 /\ c[1] = 2 /\ c[2] = 6 /\ c \in [0 .. 2 -> Nat]
  BY <1>4
<1>6. \A x : (x \in DOMAIN line /\ line[x] = Equals) \/ x = 0 \/ x = Len(line) + 1
               <=> x = 0 \/ x = 2 \/ x = 6
  <2>1. \A x \in 1 .. 5 : x = 1 \/ x = 2 \/ x = 3 \/ x = 4 \/ x = 5
    OBVIOUS
  <2>2. Quote # Equals
    BY DEF Quote, Equals
  <2>3. \A x \in DOMAIN line : line[x] = Equals <=> x = 2
    BY <1>3, <2>1, <2>2
  <2>4. QED  BY <1>3, <2>3
<1>7. PICK n : n = 2
  OBVIOUS
<1>8. \A i \in 0 .. n : i = 0 \/ i = 1 \/ i = 2
  BY <1>7
<1>9. IsCuts(line, Equals, n, c)
  <2>1. \A i, j \in 0 .. n : i < j => c[i] < c[j]
    BY <1>5, <1>7, <1>8
  <2>2. \A x : (x = 0 \/ x = 2 \/ x = 6) <=> \E i \in 0 .. n : x = c[i]
    BY <1>5, <1>7, <1>8
  <2>3. QED  BY <1>5, <1>6, <1>7, <2>1, <2>2 DEF IsCuts
<1>10. Split(line, Equals) = [k \in 1 .. n |-> SubSeq(line, c[k - 1] + 1, c[k] - 1)]
  BY <1>9, SplitAt
<1>11. /\ Len(Split(line, Equals)) = 2
       /\ Split(line, Equals)[1] = SubSeq(line, 1, 1)
       /\ Split(line, Equals)[2] = SubSeq(line, 3, 5)
  <2>1. PICK fields : fields = Split(line, Equals)
    OBVIOUS
  <2>2. fields = [k \in 1 .. 2 |-> SubSeq(line, c[k - 1] + 1, c[k] - 1)]
    BY <1>7, <1>10, <2>1
  <2>3. 1 \in 1 .. 2 /\ 2 \in 1 .. 2 /\ 1 - 1 = 0 /\ 2 - 1 = 1 /\ 0 + 1 = 1 /\ 2 + 1 = 3 /\ 6 - 1 = 5
    OBVIOUS
  <2>4. Len(fields) = 2
    BY <2>2
  <2>5. fields[1] = SubSeq(line, c[1 - 1] + 1, c[1] - 1)
    BY Zenon, <2>2, <2>3
  <2>6. fields[2] = SubSeq(line, c[2 - 1] + 1, c[2] - 1)
    BY Zenon, <2>2, <2>3
  <2>7. QED  BY <1>5, <2>1, <2>3, <2>4, <2>5, <2>6
<1>12. SubSeq(line, 1, 1) = <<key>>
  <2>1. PICK m \in 1 .. Len(line) : m = 1
    BY <1>3
  <2>2. SubSeq(line, m, m) = <<line[m]>>
    BY Zenon, <1>3, OneToken
  <2>3. QED  BY <1>3, <2>1, <2>2
<1>13. SubSeq(line, 3, 5) = <<Quote, value, Quote>>
  <2>1. PICK a, b : a = 3 /\ b = 5
    OBVIOUS
  <2>2. a \in Int /\ b \in Int /\ \A i \in a .. b : line[i] \in S
    BY <1>3, <2>1, ElementOfSeq
  <2>3. PICK s : s = SubSeq(line, a, b)
    OBVIOUS
  <2>4. /\ s \in Seq(S) /\ Len(s) = 3
        /\ \A i \in 1 .. 3 : s[i] = line[a + i - 1]
    BY <2>1, <2>2, <2>3, SubSeqProperties
  <2>5. s[1] = line[3] /\ s[2] = line[4] /\ s[3] = line[5]
    BY <2>1, <2>4
  <2>6. PICK t : t = <<Quote, value, Quote>>
    OBVIOUS
  <2>7. t \in Seq(S) /\ Len(t) = 3 /\ t[1] = Quote /\ t[2] = value /\ t[3] = Quote
    BY <1>2, <2>6
  <2>8. \A i \in 1 .. Len(s) : s[i] = t[i]
    <3>1. \A i \in 1 .. 3 : i = 1 \/ i = 2 \/ i = 3
      OBVIOUS
    <3>2. QED  BY <1>3, <2>4, <2>5, <2>7, <3>1
  <2>9. s = t
    BY <2>4, <2>7, <2>8, SeqEqual
  <2>10. QED  BY Zenon, <2>1, <2>3, <2>6, <2>9
<1>14. QED  BY <1>1, <1>11, <1>12, <1>13

(* The label of the one line that has a key is its value.                  *)
LEMMA LabelFound ==
  ASSUME NEW key, NEW value, key # Equals, value # Equals,
         NEW m \in DOMAIN Labels, Labels[m] = Label(key, value),
         \A i \in DOMAIN Labels : Split(Labels[i], Equals)[1] = <<key>> => i = m,
         m \in Nat
  PROVE  LabelValue(Labels, key) = <<value>>
<1>1. PICK hits : hits = {i \in DOMAIN Labels : /\ Len(Split(Labels[i], Equals)) = 2
                                                /\ Split(Labels[i], Equals)[1] = <<key>>}
  OBVIOUS
<1>2. hits = {m}
  BY <1>1, LabelSplit
<1>3. Max(hits) = m
  BY <1>2 DEF Max
<1>4. PICK quoted : quoted = <<Quote, value, Quote>>
  OBVIOUS
<1>5. Split(Labels[Max(hits)], Equals)[2] = quoted
  BY <1>3, <1>4, LabelSplit
<1>6. LabelValue(Labels, key) = SubSeq(quoted, 2, Len(quoted) - 1)
  BY Zenon, <1>1, <1>2, <1>5 DEF LabelValue
<1>7. Len(quoted) = 3 /\ quoted \in Seq({Quote, value}) /\ quoted[2] = value
  BY <1>4
<1>8. SubSeq(quoted, 2, 2) = <<quoted[2]>>
  <2>1. PICK i \in 1 .. Len(quoted) : i = 2
    BY <1>7
  <2>2. SubSeq(quoted, i, i) = <<quoted[i]>>
    BY <1>7, OneToken
  <2>3. QED  BY <2>1, <2>2
<1>9. QED  BY <1>6, <1>7, <1>8

(* GetAuthNamespacedName finds the key of the Authenticator in the labels  *)
(* the DaemonSet puts on its pods.                                         *)
LEMMA LabelsRoundTrip ==
  GetAuthNamespacedName(Labels) = [namespace |-> <<AuthNamespace>>, name |-> <<AuthName>>]
<1>1. PICK ns, nm, app : /\ ns = "authenticator-namespace" /\ nm = "authenticator-name"
                         /\ app = "app"
  OBVIOUS
<1>2. ns # nm /\ ns # app /\ nm # app /\ ns # Equals /\ nm # Equals /\ app # Equals
  BY <1>1 DEF Equals
<1>3. AuthNamespace # Equals /\ AuthName # Equals /\ "authenticator.eapol" # Equals
  BY SeparatorAssumption DEF Equals
<1>4. /\ DOMAIN Labels = 1 .. 3 /\ Labels[1] = Label(app, "authenticator.eapol")
      /\ Labels[2] = Label(nm, AuthName) /\ Labels[3] = Label(ns, AuthNamespace)
  BY <1>1 DEF Labels
<1>5. /\ Split(Labels[1], Equals)[1] = <<app>> /\ Split(Labels[2], Equals)[1] = <<nm>>
      /\ Split(Labels[3], Equals)[1] = <<ns>>
  BY <1>2, <1>3, <1>4, LabelSplit
<1>6. \A i \in DOMAIN Labels : i = 1 \/ i = 2 \/ i = 3
  BY <1>4
<1>7. <<app>> # <<nm>> /\ <<app>> # <<ns>> /\ <<nm>> # <<ns>>
  BY <1>2
<1>8. /\ \A i \in DOMAIN Labels : Split(Labels[i], Equals)[1] = <<ns>> => i = 3
      /\ \A i \in DOMAIN Labels : Split(Labels[i], Equals)[1] = <<nm>> => i = 2
  BY <1>5, <1>6, <1>7
<1>9. 2 \in DOMAIN Labels /\ 3 \in DOMAIN Labels /\ 2 \in Nat /\ 3 \in Nat
  BY <1>4
<1>10. LabelValue(Labels, ns) = <<AuthNamespace>>
  BY <1>2, <1>3, <1>4, <1>8, <1>9, LabelFound
<1>11. LabelValue(Labels, nm) = <<AuthName>>
  BY <1>2, <1>3, <1>4, <1>8, <1>9, LabelFound
<1>12. QED  BY <1>1, <1>10, <1>11 DEF GetAuthNamespacedName

-----------------------------------------------------------------------------
(* The netdevs initInterfaces visits                                       *)

(* A non-empty set of numbers has a least one.                             *)
LEMMA LeastNumber ==
  ASSUME NEW T, T \subseteq Nat, T # {}
  PROVE  \E x \in T : \A y \in T : ~(y < x)
<1>1. PICK x \in T : \A y \in T : ~(<<y, x>> \in OpToRel(<, Nat))
  BY Zenon, NatLessThanWellFounded, WFMin
<1>2. ASSUME NEW y \in T, y < x PROVE <<y, x>> \in OpToRel(<, Nat)
  BY <1>2 DEF OpToRel
<1>3. QED  BY Zenon, <1>1, <1>2

LEMMA ConcatElements ==
  ASSUME NEW S, NEW s \in Seq(S), NEW t \in Seq(S)
  PROVE  s \o t \in Seq(S) /\ ToSet(s) \subseteq ToSet(s \o t) /\ ToSet(t) \subseteq ToSet(s \o t)
<1>1. PICK u : u = s \o t
  OBVIOUS
<1>2. PICK m \in Nat, n \in Nat : m = Len(s) /\ n = Len(t)
  BY LenProperties
<1>3. /\ u \in Seq(S) /\ Len(u) = m + n
      /\ \A i \in 1 .. m + n : u[i] = IF i <= m THEN s[i] ELSE t[i - m]
  BY <1>1, <1>2, ConcatProperties
<1>4. DOMAIN s = 1 .. m /\ DOMAIN t = 1 .. n /\ DOMAIN u = 1 .. m + n
  BY <1>2, <1>3, LenProperties
<1>5. \A i \in 1 .. m : i \in DOMAIN u /\ u[i] = s[i]
  BY <1>3, <1>4
<1>6. \A i \in 1 .. n : m + i \in DOMAIN u /\ u[m + i] = t[i]
  BY <1>3, <1>4
<1>7. ToSet(s) \subseteq ToSet(u)
  BY <1>4, <1>5 DEF ToSet
<1>8. ToSet(t) \subseteq ToSet(u)
  BY <1>4, <1>6 DEF ToSet
<1>9. QED  BY <1>1, <1>3, <1>7, <1>8

(* g is the function FlattenSeq computes, on the first m sequences.        *)
Flattens(g, seqs, m) ==
    g = [i \in 1 .. m |-> IF i = 1 THEN seqs[i] ELSE g[i - 1] \o seqs[i]]

LEMMA FlattensExists ==
  ASSUME NEW seqs, NEW n \in Nat
  PROVE  \E g : Flattens(g, seqs, n)
<1> DEFINE Bad == {m \in Nat : ~ \E g : Flattens(g, seqs, m)}
<1>1. SUFFICES ASSUME Bad # {} PROVE FALSE
  OBVIOUS
<1>2. PICK m \in Bad : \A y \in Bad : ~(y < m)
  <2>1. Bad \subseteq Nat
    OBVIOUS
  <2> HIDE DEF Bad
  <2>2. QED  BY Zenon, <1>1, <2>1, LeastNumber
<1>3. m \in Nat
  OBVIOUS
<1>4. m # 0
  <2>1. PICK g : g = [i \in 1 .. 0 |-> i]
    OBVIOUS
  <2>2. Flattens(g, seqs, 0)
    BY <2>1 DEF Flattens
  <2>3. QED  BY <2>2
<1>5. PICK g : Flattens(g, seqs, m - 1)
  <2>1. m - 1 \in Nat /\ m - 1 < m
    BY <1>3, <1>4
  <2>2. QED  BY <1>2, <2>1
<1>6. PICK h : h = [i \in 1 .. m |-> IF i = m
                                     THEN IF m = 1 THEN seqs[m] ELSE g[m - 1] \o seqs[m]
                                     ELSE g[i]]
  OBVIOUS
<1>7. \A i \in 1 .. m : h[i] = IF i = 1 THEN seqs[i] ELSE h[i - 1] \o seqs[i]
  <2>1. SUFFICES ASSUME NEW i \in 1 .. m
                 PROVE  h[i] = IF i = 1 THEN seqs[i] ELSE h[i - 1] \o seqs[i]
    OBVIOUS
  <2>2. i # 1 => i - 1 \in 1 .. m /\ i - 1 # m
    BY <1>3
  <2>3. i # 1 => h[i - 1] = g[i - 1]
    BY <1>6, <2>2
  <2>4. CASE i = m
    BY <1>6, <2>3, <2>4
  <2>5. CASE i # m
    <3>1. i \in 1 .. m - 1
      BY <1>3, <2>5
    <3>2. g[i] = IF i = 1 THEN seqs[i] ELSE g[i - 1] \o seqs[i]
      BY Zenon, <1>5, <3>1 DEF Flattens
    <3>3. h[i] = g[i]
      BY <1>6, <2>5
    <3>4. QED  BY <2>3, <3>2, <3>3
  <2>6. QED  BY <2>4, <2>5
<1>8. Flattens(h, seqs, m)
  BY Zenon, <1>6, <1>7 DEF Flattens
<1>9. QED  BY <1>8

(* FlattenSeq has the elements of every sequence, and no others.           *)
LEMMA FlattenElements ==
  ASSUME NEW S, NEW seqs \in Seq(Seq(S)), seqs # <<>>
  PROVE  /\ FlattenSeq(seqs) \in Seq(S)
         /\ \A k \in 1 .. Len(seqs) : ToSet(seqs[k]) \subseteq ToSet(FlattenSeq(seqs))
<1>1. PICK n \in Nat : n = Len(seqs) /\ n # 0
  BY LenProperties, EmptySeq
<1>2. \A k \in 1 .. n : seqs[k] \in Seq(S)
  BY <1>1, ElementOfSeq
<1>3. PICK g : g = CHOOSE f : Flattens(f, seqs, n)
  OBVIOUS
<1>4. Flattens(g, seqs, n)
  BY Zenon, <1>3, FlattensExists
<1>5. FlattenSeq(seqs) = g[n]
  BY <1>1, <1>3 DEF FlattenSeq, Flattens
<1> DEFINE Bad == {m \in Nat : /\ m \in 1 .. n
                               /\ ~(/\ g[m] \in Seq(S)
                                    /\ \A k \in 1 .. m : ToSet(seqs[k]) \subseteq ToSet(g[m]))}
<1>6. \A m \in 1 .. n : g[m] = IF m = 1 THEN seqs[m] ELSE g[m - 1] \o seqs[m]
  BY Zenon, <1>4 DEF Flattens
<1>7. Bad = {}
  <2>1. SUFFICES ASSUME Bad # {} PROVE FALSE
    OBVIOUS
  <2>2. PICK m \in Bad : \A y \in Bad : ~(y < m)
    <3>1. Bad \subseteq Nat
      OBVIOUS
    <3> HIDE DEF Bad
    <3>2. QED  BY Zenon, <2>1, <3>1, LeastNumber
  <2>3. m \in 1 .. n
    OBVIOUS
  <2>4. CASE m = 1
    <3>1. g[1] = seqs[1] /\ 1 \in 1 .. n
      BY <1>6, <2>3, <2>4
    <3>2. \A k \in 1 .. 1 : k = 1
      OBVIOUS
    <3>3. QED  BY <1>2, <2>4, <3>1, <3>2
  <2>5. CASE m # 1
    <3>1. m - 1 \in 1 .. n /\ m - 1 \in Nat /\ m - 1 < m
      BY <2>3, <2>5
    <3>2. /\ g[m - 1] \in Seq(S)
          /\ \A k \in 1 .. m - 1 : ToSet(seqs[k]) \subseteq ToSet(g[m - 1])
      BY Zenon, <2>2, <3>1
    <3>3. g[m] = g[m - 1] \o seqs[m]
      BY Zenon, <1>6, <2>3, <2>5
    <3>4. /\ g[m] \in Seq(S) /\ ToSet(g[m - 1]) \subseteq ToSet(g[m])
          /\ ToSet(seqs[m]) \subseteq ToSet(g[m])
      BY <1>2, <2>3, <3>2, <3>3, ConcatElements
    <3>5. \A k \in 1 .. m : k = m \/ k \in 1 .. m - 1
      BY <2>3
    <3>6. \A k \in 1 .. m : ToSet(seqs[k]) \subseteq ToSet(g[m])
      BY <3>2, <3>4, <3>5
    <3>7. QED  BY <3>4, <3>6
  <2>6. QED  BY <2>4, <2>5
<1>8. n \in 1 .. n
  BY <1>1
<1>9. QED  BY Zenon, <1>1, <1>5, <1>7, <1>8

-----------------------------------------------------------------------------
(* The inductive invariant                                                 *)

DropFilter == [pref |-> 10001, match |-> Frames, action |-> "drop"]
EapolFilter == [pref |-> 10000, match |-> {Eapol}, action |-> "ok"]

(* The operator's side: a typed spec, and a template made from its lists.  *)
ConfigInv ==
    /\ a11r \in [ifaces: Seq(Interfaces), tcp: Seq(Ports), udp: Seq(Ports),
                 enabled: BOOLEAN, secrets: Secrets]
    /\ conf = HostapdConf(a11r)
    /\ template.ifaces = Join(a11r.ifaces, Comma)
    /\ template.tcp = Join(a11r.tcp, Space) /\ template.udp = Join(a11r.udp, Space)
    /\ template.labels = Labels

(* The monitor works through its netdevs from the first.                   *)
NetdevInv ==
    /\ DOMAIN filters = AllNetdevs
    /\ netdevs \in Seq(AllNetdevs)
    /\ startPc \in {"reset", "drop", "eapol", "ports"} => netdevs # <<>>
    /\ startPc = "monitoring" => netdevs = <<>>

(* The filters of the first netdev are as far as startPc says.             *)
HeadInv ==
    /\ startPc = "drop" => filters[netdevs[1]] = {}
    /\ startPc \in {"eapol", "ports"} => netdevs[1] \in PFs
    /\ startPc = "eapol" => filters[netdevs[1]] = {DropFilter}
    /\ startPc = "ports" => filters[netdevs[1]] = {DropFilter, EapolFilter}

(* d has all the filters it needs, and of the others only ports': all of   *)
(* these unless tc refused one.                                            *)
Done(d) ==
    IF d \in PFs
    THEN /\ DropFilter \in filters[d] /\ EapolFilter \in filters[d]
         /\ \A x \in filters[d] : x = DropFilter \/ x = EapolFilter \/ x \in PortFilters
         /\ d \notin refused => PortFilters \subseteq filters[d]
    ELSE filters[d] = {DropFilter}

(* Every netdev to protect is done, or still to be visited.                *)
VisitedInv ==
    startPc \in {"reset", "drop", "eapol", "ports", "monitoring"} =>
        \A d \in Protected : d \in ToSet(netdevs) \/ Done(d)

StartInv == ConfigInv /\ ArgsRoundTrip /\ NetdevInv /\ HeadInv /\ VisitedInv

LEMMA ListsTyped ==
  ASSUME NEW S, NEW s \in Lists(S)
  PROVE  s \in Seq(S)
BY DEF Lists, SeqOf

LEMMA ArgsKept ==
  ASSUME args' = args
  PROVE  (\A f : Unprotects(f)' = Unprotects(f)) /\ PortFilters' = PortFilters
<1>1. \A f : Unprotects(f)' = Unprotects(f)
  BY DEF Unprotects
<1>2. {g \in Frames \ {Eapol} : Unprotects(g)'} = {g \in Frames \ {Eapol} : Unprotects(g)}
  BY <1>1
<1>3. PortFilters' = PortFilters
  BY <1>2 DEF PortFilters
<1>4. QED  BY <1>1, <1>3

LEMMA DoneKept ==
  ASSUME NEW d, Done(d), filters'[d] = filters[d], args' = args, refused \subseteq refused'
  PROVE  Done(d)'
BY ArgsKept DEF Done

(* The verdict of a complete set of filters.                               *)
LEMMA DoneProtects ==
  ASSUME NEW d, Done(d)
  PROVE  /\ d \in PFs => Accepts(d, Eapol)
         /\ \A f \in Frames : Accepts(d, f) => f = Eapol \/ Unprotects(f)
         /\ d \in PFs /\ d \notin refused =>
                \A f \in Frames \ {Eapol} : Unprotects(f) => Accepts(d, f)
<1>1. /\ DropFilter.match = Frames /\ DropFilter.pref = 10001 /\ DropFilter.action = "drop"
      /\ EapolFilter.match = {Eapol} /\ EapolFilter.pref = 10000 /\ EapolFilter.action = "ok"
  BY DEF DropFilter, EapolFilter
<1>2. Eapol \in Frames /\ Eapol.ip = 0
  BY DEF Frames, Eapol
<1>3. \A f \in Frames \ {Eapol} : f.ip = 4 \/ f.ip = 6
  BY DEF Frames
<1>4. ASSUME NEW x \in PortFilters, NEW f \in x.match
      PROVE  f # Eapol /\ Unprotects(f)
  <2>1. PICK g \in Frames \ {Eapol} : Unprotects(g) /\ x = PortFilter(g)
    BY <1>4 DEF PortFilters
  <2>2. f.ip = g.ip /\ f.port = g.port /\ (g.ip = 6 \/ f.proto = g.proto)
    BY <1>4, <2>1 DEF PortFilter
  <2>3. f # Eapol
    BY <1>2, <1>3, <2>1, <2>2
  <2>4. Unprotects(f)
    BY <2>1, <2>2 DEF Unprotects
  <2>5. QED  BY <2>3, <2>4
<1>5. DropFilter \in filters[d]
  BY DEF Done
<1>6. ASSUME d \in PFs PROVE Accepts(d, Eapol)
  <2>1. EapolFilter \in Matching(d, Eapol)
    BY <1>1, <1>6 DEF Done, Matching
  <2>2. \A y \in Matching(d, Eapol) : y = DropFilter \/ y = EapolFilter
    BY <1>4, <1>6 DEF Done, Matching
  <2>3. \A y \in Matching(d, Eapol) : EapolFilter.pref <= y.pref
    BY <1>1, <2>2
  <2>4. QED  BY <1>1, <2>1, <2>3 DEF Accepts
<1>7. ASSUME NEW f \in Frames, Accepts(d, f)
      PROVE  f = Eapol \/ Unprotects(f)
  <2>1. DropFilter \in Matching(d, f)
    BY <1>1, <1>5, <1>7 DEF Matching
  <2>2. PICK x \in Matching(d, f) : x.action = "ok"
    BY <1>7, <2>1 DEF Accepts
  <2>3. x \in filters[d] /\ f \in x.match /\ x # DropFilter
    BY <1>1, <2>2 DEF Matching
  <2>4. d \in PFs
    BY <2>3 DEF Done
  <2>5. x = EapolFilter \/ x \in PortFilters
    BY <2>3, <2>4 DEF Done
  <2>6. QED  BY <1>1, <1>4, <2>3, <2>4, <2>5
<1>8. ASSUME d \in PFs, d \notin refused, NEW f \in Frames \ {Eapol}, Unprotects(f)
      PROVE  Accepts(d, f)
  <2>1. PICK x \in PortFilters : x = PortFilter(f)
    BY Zenon, <1>8 DEF PortFilters
  <2>2. x.pref = 9999 /\ x.action = "ok" /\ f \in x.match
    BY <1>8, <2>1 DEF PortFilter
  <2>3. x \in Matching(d, f)
    BY <1>8, <2>1, <2>2 DEF Done, Matching
  <2>4. \A y \in PortFilters : y.pref = 9999
    BY DEF PortFilters, PortFilter
  <2>5. \A y \in Matching(d, f) : y = DropFilter \/ y = EapolFilter \/ y \in PortFilters
    BY <1>8 DEF Done, Matching
  <2>6. \A y \in Matching(d, f) : x.pref <= y.pref
    BY <1>1, <2>2, <2>4, <2>5
  <2>7. QED  BY <2>2, <2>3, <2>6 DEF Accepts
<1>9. QED  BY <1>6, <1>7, <1>8

(* No obligation on the filters before main has read its arguments.        *)
LEMMA IdleInv ==
  ASSUME ConfigInv', DOMAIN filters' = AllNetdevs, netdevs' \in Seq(AllNetdevs),
         startPc' \in {"main", "unscheduled", "exited"}
  PROVE  StartInv'
<1>1. startPc' \notin {"reset", "drop", "eapol", "ports", "monitoring"}
  OBVIOUS
<1>2. ArgsRoundTrip'
  BY <1>1 DEF ArgsRoundTrip
<1>3. NetdevInv'
  BY <1>1 DEF NetdevInv
<1>4. HeadInv'
  BY <1>1 DEF HeadInv
<1>5. VisitedInv'
  BY <1>1 DEF VisitedInv
<1>6. QED  BY <1>2, <1>3, <1>4, <1>5 DEF StartInv

LEMMA ConfigKept ==
  ASSUME ConfigInv, UNCHANGED configVars
  PROVE  ConfigInv' /\ Protected' = Protected
BY DEF ConfigInv, configVars, Protected

-----------------------------------------------------------------------------
(* The invariant holds at the start, and every action preserves it         *)

LEMMA DaemonsetFields ==
  ASSUME NEW a
  PROVE  /\ Daemonset(a).ifaces = Join(a.ifaces, Comma) /\ Daemonset(a).tcp = Join(a.tcp, Space)
         /\ Daemonset(a).udp = Join(a.udp, Space) /\ Daemonset(a).labels = Labels
         /\ Daemonset(a).files = Projected(a)
BY DEF Daemonset

LEMMA StartInvInit == StartInit => StartInv
<1>1. SUFFICES ASSUME StartInit PROVE StartInv
  OBVIOUS
<1>2. NoSecrets \in Secrets
  BY ZenonT(30) DEF NoSecrets, Secrets
<1>3. \A i \in Plain : <<i>> \in Seq(Interfaces)
  BY DEF Interfaces
<1>4. a11r \in [ifaces: Seq(Interfaces), tcp: Seq(Ports), udp: Seq(Ports),
                enabled: BOOLEAN, secrets: Secrets]
  <2>1. CASE a11r \in [ifaces: Lists(Interfaces), tcp: Lists(Ports), udp: Lists(Ports),
                       enabled: BOOLEAN, secrets: {NoSecrets}]
    BY <1>2, <2>1, ListsTyped
  <2>2. CASE a11r \in [ifaces: {<<i>> : i \in Plain}, tcp: {<<>>}, udp: {<<>>},
                       enabled: BOOLEAN, secrets: Secrets]
    <3>1. a11r.ifaces \in Seq(Interfaces)
      BY Zenon, <1>3, <2>2
    <3>2. <<>> \in Seq(Ports)
      OBVIOUS
    <3>3. QED  BY Zenon, <2>2, <3>1, <3>2
  <2>3. QED  BY <1>1, <2>1, <2>2 DEF StartInit, Specs
<1>5. ConfigInv
  BY <1>1, <1>4, DaemonsetFields DEF StartInit, ConfigInv
<1>6. startPc \in {"main", "unscheduled"} /\ netdevs = <<>> /\ DOMAIN filters = AllNetdevs
  BY <1>1 DEF StartInit
<1>7. ArgsRoundTrip /\ NetdevInv /\ HeadInv /\ VisitedInv
  BY <1>6 DEF ArgsRoundTrip, NetdevInv, HeadInv, VisitedInv
<1>8. QED  BY <1>5, <1>7 DEF StartInv

LEMMA RolloutInv ==
  ASSUME StartInv, Rollout(a11r'),
         a11r' \in [ifaces: Seq(Interfaces), tcp: Seq(Ports), udp: Seq(Ports),
                    enabled: BOOLEAN, secrets: Secrets],
         conf' = HostapdConf(a11r')
  PROVE  StartInv'
<1>1. ConfigInv'
  BY DaemonsetFields DEF Rollout, ConfigInv
<1>2. /\ DOMAIN filters' = AllNetdevs /\ netdevs' \in Seq(AllNetdevs)
      /\ startPc' \in {"main", "unscheduled", "exited"}
  BY DEF Rollout, StartInv, NetdevInv
<1>3. QED  BY <1>1, <1>2, IdleInv

LEMMA OperatorStep ==
  ASSUME StartInv, Operator
  PROVE  StartInv'
<1> USE DEF StartInv
<1>1. CASE UpdateDaemonSet
  BY Zenon, <1>1, RolloutInv DEF UpdateDaemonSet, ConfigInv
<1>2. ASSUME NEW tcp \in Lists(Ports), NEW udp \in Lists(Ports), EditPorts(tcp, udp)
      PROVE  StartInv'
  <2>1. tcp \in Seq(Ports) /\ udp \in Seq(Ports)
    BY ListsTyped
  <2>2. a11r' = [a11r EXCEPT !.tcp = tcp, !.udp = udp] /\ conf' = conf /\ Rollout(a11r')
    BY <1>2 DEF EditPorts
  <2>3. a11r' \in [ifaces: Seq(Interfaces), tcp: Seq(Ports), udp: Seq(Ports),
                   enabled: BOOLEAN, secrets: Secrets]
    BY Zenon, <2>1, <2>2 DEF ConfigInv
  <2>4. a11r'.secrets = a11r.secrets
    BY <2>2 DEF ConfigInv
  <2>5. conf' = HostapdConf(a11r')
    BY <2>2, <2>4 DEF ConfigInv, HostapdConf
  <2>6. QED  BY <2>2, <2>3, <2>5, RolloutInv
<1>3. ASSUME NEW secrets \in Secrets, UpdateConfigMap(secrets)
      PROVE  StartInv'
  <2>1. /\ a11r' = [a11r EXCEPT !.secrets = secrets] /\ conf' = HostapdConf(a11r')
        /\ template' = template /\ UNCHANGED mainVars /\ filters' = filters
    BY <1>3 DEF UpdateConfigMap
  <2>2. /\ a11r' \in [ifaces: Seq(Interfaces), tcp: Seq(Ports), udp: Seq(Ports),
                      enabled: BOOLEAN, secrets: Secrets]
        /\ a11r'.ifaces = a11r.ifaces /\ a11r'.tcp = a11r.tcp /\ a11r'.udp = a11r.udp
    BY <2>1 DEF ConfigInv
  <2>3. ConfigInv'
    BY <2>1, <2>2 DEF ConfigInv
  <2>4. startPc' = startPc /\ args' = args /\ netdevs' = netdevs /\ refused' = refused
    BY <2>1 DEF mainVars
  <2>5. ArgsRoundTrip'
    BY <2>2, <2>4 DEF ArgsRoundTrip
  <2>6. NetdevInv' /\ HeadInv'
    BY <2>1, <2>4 DEF NetdevInv, HeadInv
  <2>7. Protected' = Protected
    BY <2>2 DEF Protected
  <2>8. VisitedInv'
    BY <2>1, <2>4, <2>7, DoneKept DEF VisitedInv
  <2>9. QED  BY <2>3, <2>5, <2>6, <2>8
<1>4. QED  BY <1>1, <1>2, <1>3 DEF Operator

LEMMA HostapdStep ==
  ASSUME StartInv, KubeletSyncs \/ HostapdStarts \/ HostapdRestarts \/ UNCHANGED startVars
  PROVE  StartInv'
<1> USE DEF StartInv
<1>1. /\ a11r' = a11r /\ conf' = conf /\ template' = template
      /\ args' = args /\ startPc' = startPc /\ netdevs' = netdevs /\ filters' = filters
      /\ refused' = refused
  BY DEF KubeletSyncs, HostapdStarts, HostapdRestarts, startVars, configVars, mainVars
<1>2. ConfigInv' /\ Protected' = Protected
  BY <1>1 DEF ConfigInv, Protected
<1>3. ArgsRoundTrip'
  BY <1>1 DEF ArgsRoundTrip
<1>4. NetdevInv' /\ HeadInv'
  BY <1>1 DEF NetdevInv, HeadInv
<1>5. VisitedInv'
  BY <1>1, <1>2, DoneKept DEF VisitedInv
<1>6. QED  BY <1>2, <1>3, <1>4, <1>5

(* main reads the spec back from the template, or exits.                   *)
LEMMA ParseArgsStep ==
  ASSUME StartInv, ParseArgs
  PROVE  StartInv'
<1>1. ConfigInv' /\ Protected' = Protected /\ a11r' = a11r /\ filters' = filters
  BY ConfigKept DEF ParseArgs, StartInv, configVars
<1>2. CASE startPc' = "exited" /\ UNCHANGED <<args, netdevs>>
  BY <1>1, <1>2, IdleInv DEF StartInv, NetdevInv
<1>3. CASE ~(startPc' = "exited" /\ UNCHANGED <<args, netdevs>>)
  <2>1. /\ template.ifaces # <<>> /\ ~ParseFails(template.tcp) /\ ~ParseFails(template.udp)
        /\ args' = [ifaces |-> Values(template.ifaces), tcp |-> Values(template.tcp),
                    udp |-> Values(template.udp),
                    auth |-> GetAuthNamespacedName(template.labels)]
        /\ netdevs' = FlattenSeq([k \in DOMAIN args'.ifaces |->
                                    <<args'.ifaces[k]>> \o VFsOf[args'.ifaces[k]]])
        /\ startPc' = "reset"
    BY <1>3 DEF ParseArgs
  <2>2. PICK list \in Seq(Interfaces) : list = a11r.ifaces
    BY DEF StartInv, ConfigInv
  <2>3. Comma \notin Interfaces /\ Space \notin Interfaces /\ Comma \notin Ports /\ Space \notin Ports
    BY SeparatorAssumption
  <2>4. Values(template.ifaces) = list /\ list # <<>>
    <3>1. template.ifaces = Join(list, Comma)
      BY <2>2 DEF StartInv, ConfigInv
    <3>2. QED  BY <2>1, <2>3, <3>1, CommaRoundTrip, JoinEmpty
  <2>5. Values(template.tcp) = a11r.tcp /\ Values(template.udp) = a11r.udp
    <3>1. PICK tcp \in Seq(Ports), udp \in Seq(Ports) : tcp = a11r.tcp /\ udp = a11r.udp
      BY DEF StartInv, ConfigInv
    <3>2. template.tcp = Join(tcp, Space) /\ template.udp = Join(udp, Space)
      BY <3>1 DEF StartInv, ConfigInv
    <3>3. Values(Join(tcp, Space)) = tcp
      BY <2>1, <2>3, <3>2, SpaceRoundTrip
    <3>4. Values(Join(udp, Space)) = udp
      BY <2>1, <2>3, <3>2, SpaceRoundTrip
    <3>5. QED  BY <3>1, <3>2, <3>3, <3>4
  <2>6. ArgsRoundTrip'
    BY <1>1, <2>1, <2>2, <2>4, <2>5, LabelsRoundTrip DEF ArgsRoundTrip, StartInv, ConfigInv
  <2>7. PICK seqs : seqs = [k \in DOMAIN list |-> <<list[k]>> \o VFsOf[list[k]]]
    OBVIOUS
  <2>8. netdevs' = FlattenSeq(seqs)
    BY <2>1, <2>4, <2>7
  <2>9. PICK n \in Nat : n = Len(list) /\ n # 0 /\ DOMAIN list = 1 .. n
    BY <2>4, LenProperties, EmptySeq
  <2>10. ASSUME NEW k \in 1 .. n
         PROVE  /\ list[k] \in Interfaces /\ seqs[k] \in Seq(AllNetdevs)
                /\ list[k] \in ToSet(seqs[k]) /\ ToSet(VFsOf[list[k]]) \subseteq ToSet(seqs[k])
    <3>1. PICK i : i = list[k]
      OBVIOUS
    <3>2. i \in Interfaces
      BY <2>9, <2>10, <3>1, ElementOfSeq
    <3>3. PICK s, t : s = <<i>> /\ t = VFsOf[i]
      OBVIOUS
    <3>4. s \in Seq(AllNetdevs) /\ i \in ToSet(s)
      BY <3>2, <3>3 DEF AllNetdevs, ToSet
    <3>5. t \in Seq(AllNetdevs)
      <4>1. t \in Seq(VFNetdevs) /\ VFNetdevs \subseteq AllNetdevs
        BY <3>2, <3>3, VFsAssumption DEF AllNetdevs
      <4>2. QED  BY <4>1
    <3>6. seqs[k] = s \o t
      BY <2>7, <2>9, <2>10, <3>1, <3>3
    <3>7. /\ s \o t \in Seq(AllNetdevs) /\ ToSet(s) \subseteq ToSet(s \o t)
          /\ ToSet(t) \subseteq ToSet(s \o t)
      BY <3>4, <3>5, ConcatElements
    <3>8. QED  BY <3>1, <3>2, <3>3, <3>4, <3>6, <3>7
  <2>11. seqs \in Seq(Seq(AllNetdevs)) /\ Len(seqs) = n /\ seqs # <<>>
    <3>1. seqs \in [1 .. n -> Seq(AllNetdevs)]
      BY Zenon, <2>7, <2>9, <2>10
    <3>2. QED  BY <2>9, <3>1
  <2>12. /\ netdevs' \in Seq(AllNetdevs)
         /\ \A k \in 1 .. n : ToSet(seqs[k]) \subseteq ToSet(netdevs')
    BY Zenon, <2>8, <2>11, FlattenElements
  <2>13. netdevs' # <<>>
    <3>1. list[1] \in ToSet(netdevs')
      BY <2>9, <2>10, <2>12
    <3>2. QED  BY <3>1 DEF ToSet
  <2>14. NetdevInv' /\ HeadInv'
    BY Zenon, <1>1, <2>1, <2>12, <2>13 DEF StartInv, NetdevInv, HeadInv
  <2>15. Protected \subseteq ToSet(netdevs')
    <3>1. SUFFICES ASSUME NEW d \in Protected PROVE d \in ToSet(netdevs')
      OBVIOUS
    <3>2. PICK i \in ToSet(list) : d = i \/ d \in ToSet(VFsOf[i])
      BY <2>2 DEF Protected
    <3>3. PICK k \in 1 .. n : i = list[k]
      BY <2>9 DEF ToSet
    <3>4. QED  BY Zenon, <2>10, <2>12, <3>2, <3>3
  <2>16. VisitedInv'
    BY <1>1, <2>15 DEF VisitedInv
  <2>17. QED  BY <1>1, <2>6, <2>14, <2>16 DEF StartInv
<1>4. QED  BY <1>2, <1>3

(* A step on the filters of the first netdev leaves the others alone.      *)
OthersKept(h) == DOMAIN filters' = AllNetdevs
                 /\ \A d \in AllNetdevs : d # h => filters'[d] = filters[d]

LEMMA ProtectedNetdevs ==
  ASSUME ConfigInv
  PROVE  Protected \subseteq AllNetdevs
<1>1. SUFFICES ASSUME NEW d \in Protected PROVE d \in AllNetdevs
  OBVIOUS
<1>2. PICK list \in Seq(Interfaces) : list = a11r.ifaces
  BY DEF ConfigInv
<1>3. PICK i \in ToSet(list) : d = i \/ d \in ToSet(VFsOf[i])
  BY <1>2 DEF Protected
<1>4. i \in Interfaces
  BY LenProperties, ElementOfSeq DEF ToSet
<1>5. \A x \in ToSet(VFsOf[i]) : x \in VFNetdevs
  BY <1>4 DEF VFNetdevs, ToSet
<1>6. QED  BY <1>3, <1>4, <1>5 DEF AllNetdevs

(* The monitor stays at the first netdev.                                  *)
LEMMA StayInv ==
  ASSUME StartInv, startPc \in {"reset", "drop", "eapol", "ports"},
         UNCHANGED <<configVars, args, netdevs, refused>>, OthersKept(netdevs[1]), HeadInv',
         startPc' \in {"drop", "eapol", "ports"}
  PROVE  StartInv'
<1>1. ConfigInv' /\ Protected' = Protected /\ a11r' = a11r
  BY ConfigKept DEF StartInv, configVars
<1>2. netdevs \in Seq(AllNetdevs) /\ netdevs # <<>>
  BY DEF StartInv, NetdevInv
<1>3. NetdevInv'
  BY <1>2 DEF NetdevInv, OthersKept
<1>4. ArgsRoundTrip'
  BY <1>1 DEF StartInv, ArgsRoundTrip
<1>5. netdevs[1] \in ToSet(netdevs)
  BY <1>2, LenProperties, EmptySeq DEF ToSet
<1>6. ASSUME NEW d \in Protected PROVE d \in ToSet(netdevs') \/ Done(d)'
  <2>1. d \in ToSet(netdevs) \/ Done(d)
    BY <1>6 DEF StartInv, VisitedInv
  <2>2. CASE d \in ToSet(netdevs)
    BY <2>2
  <2>3. CASE d \notin ToSet(netdevs)
    <3>1. d # netdevs[1] /\ Done(d) /\ d \in AllNetdevs
      BY <1>5, <1>6, <2>1, <2>3, ProtectedNetdevs DEF StartInv
    <3>2. filters'[d] = filters[d]
      BY <3>1 DEF OthersKept
    <3>3. QED  BY <3>1, <3>2, DoneKept
  <2>4. QED  BY <2>2, <2>3
<1>7. VisitedInv'
  BY <1>1, <1>6 DEF VisitedInv
<1>8. QED  BY <1>1, <1>3, <1>4, <1>7 DEF StartInv

(* The monitor is done with the first netdev.                              *)
LEMMA NextNetdevInv ==
  ASSUME StartInv, startPc \in {"drop", "ports"}, NextNetdev,
         UNCHANGED <<configVars, args>>, refused \subseteq refused',
         NEW h, h = netdevs[1], OthersKept(h), Done(h)'
  PROVE  StartInv'
<1>1. ConfigInv' /\ Protected' = Protected /\ a11r' = a11r
  BY ConfigKept DEF StartInv, configVars
<1>2. netdevs \in Seq(AllNetdevs) /\ netdevs # <<>>
  BY DEF StartInv, NetdevInv
<1>3. PICK n \in Nat : n = Len(netdevs) /\ n # 0 /\ DOMAIN netdevs = 1 .. n
  BY <1>2, LenProperties, EmptySeq
<1>4. /\ netdevs' \in Seq(AllNetdevs) /\ Len(netdevs') = n - 1
      /\ \A i \in 1 .. n - 1 : netdevs'[i] = netdevs[i + 1]
  BY <1>2, <1>3, HeadTailProperties DEF NextNetdev
<1>5. /\ startPc' \in {"reset", "monitoring"} /\ (startPc' = "reset" => n > 1)
      /\ (startPc' = "monitoring" => n = 1)
  BY <1>3 DEF NextNetdev
<1>6. NetdevInv'
  <2>1. startPc' = "reset" => netdevs' # <<>>
    BY <1>3, <1>4, <1>5
  <2>2. startPc' = "monitoring" => netdevs' = <<>>
    <3>1. PICK t : t = netdevs'
      OBVIOUS
    <3>2. t \in Seq(AllNetdevs) /\ Len(t) = n - 1
      BY <1>4, <3>1
    <3>3. n = 1 => t = <<>>
      BY <3>2, EmptySeq
    <3>4. QED  BY <1>5, <3>1, <3>3
  <2>3. QED  BY <1>4, <1>5, <2>1, <2>2 DEF NetdevInv, OthersKept
<1>7. HeadInv'
  BY <1>5 DEF HeadInv
<1>8. ArgsRoundTrip'
  BY <1>1 DEF StartInv, ArgsRoundTrip
<1>9. \A x \in ToSet(netdevs) : x = h \/ x \in ToSet(netdevs')
  <2>1. SUFFICES ASSUME NEW i \in 1 .. n, i # 1 PROVE netdevs[i] \in ToSet(netdevs')
    BY <1>3 DEF ToSet
  <2>2. i - 1 \in 1 .. n - 1 /\ (i - 1) + 1 = i
    BY <1>3, <2>1
  <2>3. netdevs'[i - 1] = netdevs[i] /\ i - 1 \in DOMAIN netdevs'
    BY <1>3, <1>4, <2>2, LenProperties
  <2>4. QED  BY <2>3 DEF ToSet
<1>10. ASSUME NEW d \in Protected PROVE d \in ToSet(netdevs') \/ Done(d)'
  <2>1. d \in ToSet(netdevs) \/ Done(d)
    BY <1>10 DEF StartInv, VisitedInv
  <2>2. CASE d = h
    BY <2>2
  <2>3. CASE d # h /\ d \in ToSet(netdevs)
    BY <1>9, <2>3
  <2>4. CASE d # h /\ Done(d)
    <3>1. d \in AllNetdevs
      BY <1>10, ProtectedNetdevs DEF StartInv
    <3>2. filters'[d] = filters[d]
      BY <2>4, <3>1 DEF OthersKept
    <3>3. QED  BY <2>4, <3>2, DoneKept
  <2>5. QED  BY <2>1, <2>2, <2>3, <2>4
<1>11. VisitedInv'
  BY <1>1, <1>10 DEF VisitedInv
<1>12. QED  BY <1>1, <1>6, <1>7, <1>8, <1>11 DEF StartInv

LEMMA FirstFilters ==
  ASSUME StartInv, netdevs # <<>>, NEW T,
         filters' = [filters EXCEPT ![netdevs[1]] = T]
  PROVE  OthersKept(netdevs[1]) /\ filters'[netdevs[1]] = T /\ netdevs[1] \in AllNetdevs
<1>1. netdevs[1] \in AllNetdevs
  BY ElementOfSeq, LenProperties, EmptySeq DEF StartInv, NetdevInv
<1>2. DOMAIN filters = AllNetdevs
  BY DEF StartInv, NetdevInv
<1>3. QED  BY <1>1, <1>2 DEF OthersKept

LEMMA ResetStep ==
  ASSUME StartInv, ResetInterface
  PROVE  StartInv'
<1>1. netdevs # <<>> /\ netdevs' = netdevs /\ startPc' = "drop"
  BY DEF StartInv, NetdevInv, ResetInterface
<1>2. OthersKept(netdevs[1]) /\ filters'[netdevs[1]] = {}
  BY Zenon, <1>1, FirstFilters DEF ResetInterface
<1>3. HeadInv'
  BY <1>1, <1>2 DEF HeadInv
<1>4. UNCHANGED <<configVars, args, netdevs, refused>>
  BY DEF ResetInterface
<1>5. startPc \in {"reset", "drop", "eapol", "ports"} /\ startPc' \in {"drop", "eapol", "ports"}
  BY DEF ResetInterface
<1>6. QED  BY Zenon, <1>2, <1>3, <1>4, <1>5, StayInv

LEMMA DropStep ==
  ASSUME StartInv, DropAll
  PROVE  StartInv'
<1>1. netdevs # <<>> /\ startPc = "drop" /\ filters[netdevs[1]] = {}
  <2>1. startPc = "drop"
    BY DEF DropAll
  <2>2. NetdevInv /\ HeadInv
    BY DEF StartInv
  <2>3. QED  BY <2>1, <2>2 DEF NetdevInv, HeadInv
<1>2. filters' = [filters EXCEPT ![netdevs[1]] = {} \cup {DropFilter}]
  <2>1. AddFilters({DropFilter})
    BY DEF DropAll, DropFilter
  <2>2. filters' = [filters EXCEPT ![netdevs[1]] = filters[netdevs[1]] \cup {DropFilter}]
    BY <2>1 DEF AddFilters
  <2>3. QED  BY <1>1, <2>2
<1>3. OthersKept(netdevs[1]) /\ filters'[netdevs[1]] = {DropFilter}
  BY Zenon, <1>1, <1>2, FirstFilters
<1>4. PICK h : h = netdevs[1]
  OBVIOUS
<1>5. CASE h \in PFs
  <2>1. startPc' = "eapol" /\ netdevs' = netdevs
    BY <1>4, <1>5 DEF DropAll
  <2>2. HeadInv'
    BY <1>3, <1>4, <1>5, <2>1 DEF HeadInv
  <2>3. UNCHANGED <<configVars, args, netdevs, refused>>
    BY <2>1 DEF DropAll
  <2>4. startPc \in {"reset", "drop", "eapol", "ports"} /\ startPc' \in {"drop", "eapol", "ports"}
    BY <1>1, <2>1
  <2>5. QED  BY Zenon, <1>3, <2>2, <2>3, <2>4, StayInv
<1>6. CASE h \notin PFs
  <2>1. NextNetdev
    BY <1>4, <1>6 DEF DropAll
  <2>2. Done(h)'
    BY <1>3, <1>4, <1>6 DEF Done
  <2>3. startPc \in {"drop", "ports"} /\ UNCHANGED <<configVars, args, refused>> /\ OthersKept(h)
    BY <1>1, <1>3, <1>4 DEF DropAll
  <2>4. QED  BY <1>4, <2>1, <2>2, <2>3, NextNetdevInv
<1>7. QED  BY <1>5, <1>6

LEMMA EapolStep ==
  ASSUME StartInv, AcceptEapol
  PROVE  StartInv'
<1>1. /\ netdevs # <<>> /\ netdevs' = netdevs /\ startPc' = "ports" /\ netdevs[1] \in PFs
      /\ filters[netdevs[1]] = {DropFilter}
  BY DEF StartInv, NetdevInv, HeadInv, AcceptEapol
<1>2. filters' = [filters EXCEPT ![netdevs[1]] = {DropFilter} \cup {EapolFilter}]
  <2>1. AddFilters({EapolFilter})
    BY DEF AcceptEapol, EapolFilter
  <2>2. filters' = [filters EXCEPT ![netdevs[1]] = filters[netdevs[1]] \cup {EapolFilter}]
    BY <2>1 DEF AddFilters
  <2>3. QED  BY <1>1, <2>2
<1>3. OthersKept(netdevs[1]) /\ filters'[netdevs[1]] = {DropFilter, EapolFilter}
  BY Zenon, <1>1, <1>2, FirstFilters
<1>4. HeadInv'
  BY <1>1, <1>3 DEF HeadInv
<1>5. UNCHANGED <<configVars, args, netdevs, refused>>
  BY DEF AcceptEapol
<1>6. startPc \in {"reset", "drop", "eapol", "ports"} /\ startPc' \in {"drop", "eapol", "ports"}
  BY DEF AcceptEapol
<1>7. QED  BY Zenon, <1>3, <1>4, <1>5, <1>6, StayInv

LEMMA PortsStep ==
  ASSUME StartInv, UnprotectPorts
  PROVE  StartInv'
<1>1. /\ netdevs # <<>> /\ netdevs[1] \in PFs
      /\ filters[netdevs[1]] = {DropFilter, EapolFilter}
  BY DEF StartInv, NetdevInv, HeadInv, UnprotectPorts
<1>2. PICK S \in SUBSET PortFilters :
        /\ AddFilters(S)
        /\ refused' = IF S = PortFilters THEN refused ELSE refused \cup {netdevs[1]}
  BY DEF UnprotectPorts
<1>3. filters' = [filters EXCEPT ![netdevs[1]] = {DropFilter, EapolFilter} \cup S]
  BY <1>1, <1>2 DEF AddFilters
<1>4. OthersKept(netdevs[1]) /\ filters'[netdevs[1]] = {DropFilter, EapolFilter} \cup S
  BY Zenon, <1>1, <1>3, FirstFilters
<1>5. PICK h : h = netdevs[1]
  OBVIOUS
<1>6. PortFilters' = PortFilters
  BY ArgsKept DEF UnprotectPorts
<1>7. Done(h)'
  BY <1>1, <1>2, <1>4, <1>5, <1>6 DEF Done
<1>8. /\ startPc \in {"drop", "ports"} /\ NextNetdev /\ UNCHANGED <<configVars, args>>
      /\ OthersKept(h) /\ refused \subseteq refused'
  BY <1>2, <1>4, <1>5 DEF UnprotectPorts
<1>9. QED  BY <1>5, <1>7, <1>8, NextNetdevInv

LEMMA MonitorStep ==
  ASSUME StartInv, Monitor
  PROVE  StartInv'
<1>1. CASE ParseArgs
  BY <1>1, ParseArgsStep
<1>2. CASE ResetInterface
  BY <1>2, ResetStep
<1>3. CASE DropAll
  BY <1>3, DropStep
<1>4. CASE AcceptEapol
  BY <1>4, EapolStep
<1>5. CASE UnprotectPorts
  BY <1>5, PortsStep
<1>6. CASE ClientFails \/ TcFails \/ ContainerRestarts
  <2>1. UNCHANGED configVars /\ startPc' \in {"main", "unscheduled", "exited"}
    BY <1>6 DEF ClientFails, TcFails, ContainerRestarts
  <2>2. ConfigInv'
    BY <2>1, ConfigKept DEF StartInv
  <2>3. DOMAIN filters' = AllNetdevs /\ netdevs' \in Seq(AllNetdevs)
    <3>1. filters' = filters /\ (netdevs' = netdevs \/ netdevs' = <<>>)
      BY <1>6 DEF ClientFails, TcFails, ContainerRestarts
    <3>2. <<>> \in Seq(AllNetdevs)
      OBVIOUS
    <3>3. QED  BY Zenon, <3>1, <3>2 DEF StartInv, NetdevInv
  <2>4. QED  BY <2>1, <2>2, <2>3, IdleInv
<1>7. QED  BY <1>1, <1>2, <1>3, <1>4, <1>5, <1>6 DEF Monitor

-----------------------------------------------------------------------------
(* The theorems                                                            *)

LEMMA StartInvHolds == StartSpec => []StartInv
<1>1. ASSUME StartInv, [StartNext]_startVars PROVE StartInv'
  BY <1>1, OperatorStep, MonitorStep, HostapdStep DEF StartNext
<1>2. QED  BY <1>1, StartInvInit, PTL DEF StartSpec

(* Whatever the lists of the spec, the arguments main has when it starts   *)
(* on the interfaces are those of the Authenticator's spec, and the labels *)
(* give its key: ports joined with blanks are read back or make it exit.   *)
THEOREM ArgsSafety == StartSpec => []ArgsRoundTrip
<1>1. StartInv => ArgsRoundTrip
  BY DEF StartInv
<1>2. QED  BY <1>1, StartInvHolds, PTL

(* When initInterfaces returns, every netdev to protect has its filters,   *)
(* and these are for the ports of the spec.                                *)
LEMMA AllDone ==
  ASSUME StartInv, startPc = "monitoring"
  PROVE  /\ \A d \in Protected : Done(d)
         /\ args.tcp = a11r.tcp /\ args.udp = a11r.udp
<1>1. ASSUME NEW d \in Protected PROVE Done(d)
  <2>1. d \notin ToSet(netdevs)
    BY DEF StartInv, NetdevInv, ToSet
  <2>2. QED  BY <1>1, <2>1 DEF StartInv, VisitedInv
<1>2. args.tcp = a11r.tcp /\ args.udp = a11r.udp
  BY DEF StartInv, ArgsRoundTrip
<1>3. QED  BY <1>1, <1>2

LEMMA FrameVersions == \A f \in Frames \ {Eapol} : f.ip = 4 \/ f.ip = 6
BY DEF Frames

(* However often tc fails, the container restarts or the ports change:     *)
(* when initInterfaces returns, no interface of the spec and no VF of one  *)
(* lets in more than EAPOL and the ports the spec lists for the protocol,  *)
(* those of the other protocol's list over IPv6 apart.                     *)
THEOREM ChainSafety == StartSpec => []OnlyUnprotectedPass
<1>1. StartInv => OnlyUnprotectedPass
  <2>1. SUFFICES ASSUME StartInv, startPc = "monitoring", NEW d \in Protected,
                        NEW f \in Frames \ {Eapol}, Accepts(d, f)
                 PROVE  Listed(f) \/ OpenOverIPv6(f)
    BY DEF OnlyUnprotectedPass
  <2>2. Unprotects(f)
    BY <2>1, AllDone, DoneProtects
  <2>3. QED  BY <2>1, <2>2, AllDone DEF Unprotects, Listed, OpenOverIPv6
<1>2. QED  BY <1>1, StartInvHolds, PTL

(* And every PF of the spec lets EAPOL in, and all the ports the spec      *)
(* lists, over both versions of IP, unless tc refused it one of them.      *)
THEOREM OpenPortsSafety == StartSpec => []UnprotectedPass
<1>1. StartInv => UnprotectedPass
  <2>1. SUFFICES ASSUME StartInv, startPc = "monitoring", NEW d \in Protected, d \in PFs
                 PROVE  /\ Accepts(d, Eapol)
                        /\ d \notin refused =>
                              \A f \in Frames \ {Eapol} : Listed(f) => Accepts(d, f)
    BY DEF UnprotectedPass
  <2>2. \A f \in Frames \ {Eapol} : Listed(f) => Unprotects(f)
    BY <2>1, AllDone, FrameVersions DEF Unprotects, Listed
  <2>3. QED  BY <2>1, <2>2, AllDone, DoneProtects
<1>2. QED  BY <1>1, StartInvHolds, PTL

(* Once the DaemonSet and the mounted ConfigMap are those of the spec, a   *)
(* starting hostapd finds every file hostapd.conf names in the volume:     *)
(* configgen generates the two apart, from the same secrets.               *)
THEOREM FilesSafety == StartSpec => HostapdFindsFiles
<1>1. ASSUME StartInv, [StartNext]_startVars,
             hostapd = "starting", hostapd' = "failed", RolledOut, mounted = conf
      PROVE  FALSE
  <2>1. DOMAIN template.files = DOMAIN a11r.secrets
    BY Zenon, <1>1, DaemonsetFields DEF RolledOut, Projected
  <2>2. mounted \subseteq DOMAIN template.files
    BY <1>1, <2>1 DEF StartInv, ConfigInv, HostapdConf
  <2>3. ~HostapdStarts
    BY <1>1, <2>2 DEF HostapdStarts
  <2>4. hostapd' # "failed"
    <3>1. CASE Operator
      BY <1>1, <3>1 DEF Operator, UpdateDaemonSet, EditPorts, UpdateConfigMap, Rollout
    <3>2. CASE ParseArgs \/ ClientFails \/ TcFails \/ ContainerRestarts
      BY <1>1, <3>2 DEF ParseArgs, ClientFails, TcFails, ContainerRestarts
    <3>3. CASE ResetInterface \/ DropAll \/ AcceptEapol \/ UnprotectPorts
      BY <1>1, <3>3 DEF ResetInterface, DropAll, AcceptEapol, UnprotectPorts
    <3>4. CASE KubeletSyncs \/ HostapdRestarts \/ UNCHANGED startVars
      BY <1>1, <3>4 DEF KubeletSyncs, HostapdRestarts, startVars
    <3>5. QED  BY Zenon, <1>1, <2>3, <3>1, <3>2, <3>3, <3>4 DEF StartNext, Monitor
  <2>5. QED  BY <1>1, <2>4
<1>2. ASSUME StartInv, [StartNext]_startVars
      PROVE  [hostapd = "starting" /\ hostapd' = "failed" => ~RolledOut \/ mounted # conf]_startVars
  BY <1>1, <1>2
<1>3. QED  BY <1>2, StartInvHolds, PTL DEF StartSpec, HostapdFindsFiles
=============================================================================
