------------------------- MODULE InvoiceFormProofs -------------------------
(* The invoice form, for any texts and digits the user types and any number *)
(* of lines and discounts: its types, its rows, what its document carries,  *)
(* the check of a VAT id, and the sums of the preview and of the document.  *)
EXTENDS InvoiceForm, SequenceTheorems, FiniteSetTheorems, TLAPS

Products == 1 .. 10
Digits == 0 .. 9

-----------------------------------------------------------------------------
(* The step of the check digit, as ISO 7064 needs it: for a fixed product   *)
(* different digits, and for a fixed digit different products, give         *)
(* different products.                                                      *)

LEMMA TwiceMod11 ==
    ASSUME NEW m \in 1 .. 10
    PROVE  (2 * m) % 11 = IF m <= 5 THEN 2 * m ELSE 2 * m - 11
  BY SMT

LEMMA SumMod10 ==
    ASSUME NEW p \in Products, NEW d \in Digits
    PROVE  (d + p) % 10 = IF d + p < 10 THEN d + p ELSE d + p - 10
  BY SMT DEF Products, Digits

LEMMA StepIs ==
    ASSUME NEW p \in Products, NEW d \in Digits
    PROVE  LET m == IF d + p <= 10 THEN d + p ELSE d + p - 10
           IN VatStep(p, d) = IF m <= 5 THEN 2 * m ELSE 2 * m - 11
  <1> DEFINE m == IF d + p <= 10 THEN d + p ELSE d + p - 10
  <1>1. m \in 1 .. 10
    BY DEF Products, Digits
  <1>2. VatStep(p, d) = (2 * m) % 11
    BY SumMod10 DEF VatStep, Products, Digits
  <1>3. QED
    BY <1>1, <1>2, TwiceMod11

LEMMA StepRange ==
    ASSUME NEW p \in Products, NEW d \in Digits
    PROVE  VatStep(p, d) \in Products
  BY StepIs DEF Products, Digits

LEMMA StepDigits ==
    ASSUME NEW p \in Products, NEW d \in Digits, NEW e \in Digits, d # e
    PROVE  VatStep(p, d) # VatStep(p, e)
  BY StepIs DEF Products, Digits

LEMMA StepProducts ==
    ASSUME NEW p \in Products, NEW q \in Products, NEW d \in Digits, p # q
    PROVE  VatStep(p, d) # VatStep(q, d)
  BY StepIs DEF Products, Digits
\* Two ids that differ in place i only have equal products before it, and
\* different ones from there on.
LEMMA ProductsDiffer ==
    ASSUME NEW d \in [1 .. 9 -> Digits], NEW f \in [1 .. 9 -> Digits], NEW i \in 1 .. 9,
           \A k \in 1 .. 9 : k = i <=> d[k] # f[k]
    PROVE  /\ VatProduct(d) \in Products /\ VatProduct(f) \in Products
           /\ i = 9 => VatProduct(d) = VatProduct(f)
           /\ i < 9 => VatProduct(d) # VatProduct(f)
  <1> DEFINE Kept(p, q, k) == /\ p \in Products /\ q \in Products
                              /\ i >= k => p = q
                              /\ i < k => p # q
  <1>0. Kept(10, 10, 1)
    BY DEF Products
  <1>s. ASSUME NEW p, NEW q, NEW k \in 1 .. 8, Kept(p, q, k)
        PROVE  Kept(VatStep(p, d[k]), VatStep(q, f[k]), k + 1)
    <2>1. d[k] \in Digits /\ f[k] \in Digits
      OBVIOUS
    <2>2. (i = k => d[k] # f[k]) /\ (i # k => d[k] = f[k])
      OBVIOUS
    <2>3. i \in Nat /\ k \in Nat
      OBVIOUS
    <2>4. /\ p \in Products /\ q \in Products
          /\ i >= k => p = q
          /\ i < k => p # q
      BY <1>s
    <2>5. /\ VatStep(p, d[k]) \in Products /\ VatStep(q, f[k]) \in Products
          /\ i >= k + 1 => VatStep(p, d[k]) = VatStep(q, f[k])
          /\ i < k + 1 => VatStep(p, d[k]) # VatStep(q, f[k])
      <3>1. VatStep(p, d[k]) \in Products /\ VatStep(q, f[k]) \in Products
        BY <2>1, <2>4, StepRange
      <3>2. CASE i > k
        BY <3>1, <3>2, <2>2, <2>3, <2>4
      <3>3. CASE i = k
        BY <3>1, <3>3, <2>1, <2>2, <2>3, <2>4, StepDigits
      <3>4. CASE i < k
        BY <3>1, <3>4, <2>1, <2>2, <2>3, <2>4, StepProducts
      <3>5. QED
        BY <3>2, <3>3, <3>4, <2>3
    <2>6. QED
      BY <2>5
  <1> DEFINE p1 == VatStep(10, d[1])  q1 == VatStep(10, f[1])
             p2 == VatStep(p1, d[2])  q2 == VatStep(q1, f[2])
             p3 == VatStep(p2, d[3])  q3 == VatStep(q2, f[3])
             p4 == VatStep(p3, d[4])  q4 == VatStep(q3, f[4])
             p5 == VatStep(p4, d[5])  q5 == VatStep(q4, f[5])
             p6 == VatStep(p5, d[6])  q6 == VatStep(q5, f[6])
             p7 == VatStep(p6, d[7])  q7 == VatStep(q6, f[7])
             p8 == VatStep(p7, d[8])  q8 == VatStep(q7, f[8])
  <1> HIDE DEF Kept
  <1>1. Kept(p1, q1, 2)  BY <1>0, <1>s
  <1>2. Kept(p2, q2, 3)  BY <1>1, <1>s
  <1>3. Kept(p3, q3, 4)  BY <1>2, <1>s
  <1>4. Kept(p4, q4, 5)  BY <1>3, <1>s
  <1>5. Kept(p5, q5, 6)  BY <1>4, <1>s
  <1>6. Kept(p6, q6, 7)  BY <1>5, <1>s
  <1>7. Kept(p7, q7, 8)  BY <1>6, <1>s
  <1>8. Kept(p8, q8, 9)  BY <1>7, <1>s
  <1>9. VatProduct(d) = p8 /\ VatProduct(f) = q8
    BY DEF VatProduct
  <1> HIDE DEF p8, q8
  <1>10. QED
    BY <1>8, <1>9 DEF Kept

\* The check digit tells the products apart.
LEMMA CheckDigitOfProduct ==
    ASSUME NEW d, NEW f, VatProduct(d) \in Products, VatProduct(f) \in Products
    PROVE  VatCheckDigit(d) = VatCheckDigit(f) <=> VatProduct(d) = VatProduct(f)
  BY DEF VatCheckDigit, Products

\* For any VAT id of nine digits that passes the check, none other in one place does.
LEMMA OneErrorIsCaught ==
    ASSUME NEW v \in Seq(Digits), Len(v) = 9, HintUStIdNr(v) = "none",
           NEW i \in 1 .. 9, NEW e \in Digits, e # v[i]
    PROVE  HintUStIdNr([v EXCEPT ![i] = e]) = "check"
  <1> DEFINE w == [v EXCEPT ![i] = e]
  <1>1. v \in [1 .. 9 -> Digits] /\ w \in [1 .. 9 -> Digits] /\ Len(w) = 9
    <2>1. v \in [1 .. 9 -> Digits]
      BY LenProperties
    <2>2. w \in [1 .. 9 -> Digits]
      BY <2>1
    <2> HIDE DEF w
    <2>3. Len(w) = 9
      BY <2>2
    <2>4. QED
      BY <2>1, <2>2, <2>3
  <1>2. \A k \in 1 .. 9 : k = i <=> v[k] # w[k]
    BY <1>1
  <1>3. v # <<>> /\ w # <<>>
    BY <1>1
  <1>4. v[9] = VatCheckDigit(v)
    BY <1>3 DEF HintUStIdNr
  <1> HIDE DEF w
  <1>5. /\ VatProduct(v) \in Products /\ VatProduct(w) \in Products
        /\ i = 9 => VatProduct(v) = VatProduct(w)
        /\ i < 9 => VatProduct(v) # VatProduct(w)
    BY <1>1, <1>2, ProductsDiffer
  <1>6. VatCheckDigit(v) = VatCheckDigit(w) <=> VatProduct(v) = VatProduct(w)
    BY <1>5, CheckDigitOfProduct
  <1>7. w[9] # VatCheckDigit(w)
    <2>1. CASE i = 9
      BY <2>1, <1>2, <1>4, <1>5, <1>6
    <2>2. CASE i < 9
      BY <2>2, <1>2, <1>4, <1>5, <1>6
    <2>3. QED
      BY <2>1, <2>2
  <1>8. HintUStIdNr(w) = "check"
    BY <1>1, <1>3, <1>7 DEF HintUStIdNr
  <1>9. QED
    BY <1>8 DEF w

-----------------------------------------------------------------------------
(* Induction. The library's principle is about an operator, which the       *)
(* provers cannot instantiate; this one is about a set, and rests on the     *)
(* pigeonhole principle: of the numbers up to n that are not in the set, each *)
(* has its predecessor among them, so that there are none.                   *)

LEMMA AllNumbers ==
    ASSUME NEW S, 0 \in S, \A k \in Nat : k \in S => k + 1 \in S
    PROVE  Nat \subseteq S
  <1>1. SUFFICES ASSUME NEW n \in Nat, n \notin S
                 PROVE  FALSE
    OBVIOUS
  <1> DEFINE A == {k \in 0 .. n : k \notin S}
             B == A \ {n}
             f == [k \in A |-> k - 1]
  <1>2. IsFiniteSet(A)
    <2>1. IsFiniteSet(0 .. n)
      BY FS_Interval
    <2>2. QED
      BY <2>1, FS_Subset
  <1>3. IsFiniteSet(B) /\ Cardinality(B) = Cardinality(A) - 1 /\ Cardinality(A) \in Nat
    <2>1. n \in A
      BY <1>1
    <2> HIDE DEF A
    <2>2. QED
      BY <1>2, <2>1, FS_RemoveElement, FS_CardinalityType
  <1>4. ASSUME NEW k \in A
        PROVE  k - 1 \in B
    <2>1. k \in 1 .. n
      OBVIOUS
    <2>2. k - 1 \in Nat /\ k - 1 + 1 = k
      BY <2>1
    <2>3. k - 1 \notin S
      BY <2>2
    <2>4. QED
      BY <2>1, <2>3
  <1>5. f \in [A -> B]
    BY <1>4
  <1>6. Cardinality(B) < Cardinality(A)
    BY <1>3
  <1>7. \A k \in A : f[k] = k - 1 /\ k \in Nat
    OBVIOUS
  <1> HIDE DEF A, B, f
  <1>8. \E k, l \in A : k # l /\ f[k] = f[l]
    BY <1>2, <1>3, <1>5, <1>6, FS_PigeonHole
  <1>9. QED
    BY <1>7, <1>8

-----------------------------------------------------------------------------
(* Lists of rows with an id none later than the clock's, and one of their    *)
(* own where no two were added in one millisecond: what adding, changing and *)
(* removing a row do to one.                                                 *)

Numbered(list, Rows, clock, own) ==
    /\ list \in Seq(Rows)
    /\ \A i \in DOMAIN list : list[i].id <= clock
    /\ own => OwnIds(list)

\* Of some of the numbers 1 .. n the k-th is there, for every k up to how many
\* there are, and no two are the same.
LEMMA NthIsThere ==
    ASSUME NEW n \in Nat, NEW left \in SUBSET (1 .. n)
    PROVE  /\ IsFiniteSet(left) /\ Cardinality(left) \in Nat
           /\ \A k \in 1 .. Cardinality(left) : Nth(left, k) \in left
           /\ \A k, l \in 1 .. Cardinality(left) : k # l => Nth(left, k) # Nth(left, l)
           /\ \A i \in left : \E k \in 1 .. Cardinality(left) : Nth(left, k) = i
  <1> DEFINE Below(i) == {j \in left : j < i}
             Before(i) == Cardinality(Below(i))
             Found(i) == \A k \in 1 .. Before(i) : \E j \in left : j < i /\ Before(j) = k - 1
             S == {i \in Nat : Found(i)}
             c == Cardinality(left)
  <1>0. \A j \in left : j \in Nat /\ 0 < j /\ j < n + 1
    OBVIOUS
  <1>1. IsFiniteSet(left) /\ c \in Nat
    <2>1. IsFiniteSet(1 .. n)
      BY FS_Interval
    <2>2. QED
      BY <2>1, FS_Subset, FS_CardinalityType
  <1>2. \A i : IsFiniteSet(Below(i)) /\ Before(i) \in Nat
    BY <1>1, FS_Subset, FS_CardinalityType
  <1>3. Found(0)
    <2>1. Below(0) = {}
      <3>1. \A j \in left : ~(j < 0)
        BY <1>0
      <3>2. QED
        BY <3>1
    <2>2. Before(0) = 0
      BY <2>1, FS_EmptySet
    <2> HIDE DEF Before
    <2>3. QED
      BY <2>2
  <1>4. ASSUME NEW i \in Nat, Found(i)
        PROVE  Found(i + 1)
    <2>1. \A j \in left : j < i + 1 <=> j < i \/ j = i
      BY <1>0
    <2>2. ~(i < i)
      OBVIOUS
    <2>3. CASE i \in left
      <3>1. Below(i + 1) = Below(i) \cup {i} /\ i \notin Below(i)
        BY <2>1, <2>2, <2>3, Zenon
      <3> HIDE DEF Below
      <3>2. Before(i + 1) = Before(i) + 1
        BY <3>1, <1>2, FS_AddElement
      <3>3. Before(i) \in Nat
        BY <1>2
      <3>4. \A k \in 1 .. Before(i) : \E j \in left : j < i /\ Before(j) = k - 1
        BY <1>4
      <3> HIDE DEF Before
      <3>5. ASSUME NEW k \in 1 .. Before(i + 1)
            PROVE  \E j \in left : j < i + 1 /\ Before(j) = k - 1
        <4>1. CASE k = Before(i) + 1
          BY <4>1, <2>1, <2>3, <3>3
        <4>2. CASE k # Before(i) + 1
          <5>1. k \in 1 .. Before(i)
            BY <3>2, <3>3, <4>2
          <5>2. PICK j \in left : j < i /\ Before(j) = k - 1
            BY <5>1, <3>4
          <5>3. QED
            BY <5>2, <2>1
        <4>3. QED
          BY <4>1, <4>2
      <3>6. QED
        BY <3>5
    <2>4. CASE i \notin left
      <3>1. Below(i + 1) = Below(i)
        BY <2>1, <2>4, Zenon
      <3>2. Before(i + 1) = Before(i)
        BY <3>1
      <3>3. \A k \in 1 .. Before(i) : \E j \in left : j < i /\ Before(j) = k - 1
        BY <1>4
      <3> HIDE DEF Below, Before
      <3>4. ASSUME NEW k \in 1 .. Before(i + 1)
            PROVE  \E j \in left : j < i + 1 /\ Before(j) = k - 1
        <4>1. PICK j \in left : j < i /\ Before(j) = k - 1
          BY <3>2, <3>3
        <4>2. QED
          BY <4>1, <2>1
      <3>5. QED
        BY <3>4
    <2>5. QED
      BY <2>3, <2>4
  <1>5. Found(n + 1)
    <2> HIDE DEF Found
    <2>1. 0 \in S /\ \A i \in Nat : i \in S => i + 1 \in S
      BY <1>3, <1>4
    <2>2. n + 1 \in Nat
      OBVIOUS
    <2>3. n + 1 \in S
      <3> HIDE DEF S
      <3>1. QED
        BY <2>1, <2>2, AllNumbers
    <2>4. QED
      BY <2>3
  <1>6. Before(n + 1) = c
    <2>1. Below(n + 1) = left
      BY <1>0, Zenon
    <2>2. QED
      BY <2>1
  <1>7. \A k \in 1 .. c : \E j \in left : Before(j) = k - 1
    <2> HIDE DEF Before, c
    <2>1. QED
      BY <1>5, <1>6
  <1>8. \A k : Nth(left, k) = CHOOSE i \in left : Before(i) = k - 1
    BY DEF Nth
  <1> HIDE DEF S, Found, Before, Below, c
  <1>9. \A k \in 1 .. c : Nth(left, k) \in left /\ Before(Nth(left, k)) = k - 1
    BY <1>7, <1>8
  <1>10. \A k, l \in 1 .. c : k # l => Nth(left, k) # Nth(left, l)
    <2>1. SUFFICES ASSUME NEW k \in 1 .. c, NEW l \in 1 .. c, Nth(left, k) = Nth(left, l)
                   PROVE  k = l
      OBVIOUS
    <2>2. k - 1 = l - 1
      BY <1>9, <2>1
    <2>3. QED
      BY <1>1, <2>2
  <1>11. \A i \in left : \E k \in 1 .. c : Nth(left, k) = i
    <2> DEFINE f == [k \in 1 .. c |-> Nth(left, k)]
    <2>1. f \in Injection(1 .. c, left)
      <3>1. f \in [1 .. c -> left]
        BY <1>9
      <3>2. IsInjective(f)
        BY <1>10 DEF IsInjective
      <3>3. QED
        BY <3>1, <3>2 DEF Injection
    <2>2. Cardinality(1 .. c) = c
      BY <1>1, FS_Interval
    <2> HIDE DEF f
    <2>3. f \in Surjection(1 .. c, left)
      BY <1>1, <2>1, <2>2, FS_Injection DEF c
    <2>4. \A i \in left : \E k \in 1 .. c : f[k] = i
      BY <2>3 DEF Surjection
    <2>5. \A k \in 1 .. c : f[k] = Nth(left, k)
      BY DEF f
    <2>6. QED
      BY <2>4, <2>5
  <1>12. QED
    BY <1>1, <1>9, <1>10, <1>11 DEF c

\* A filter by id: the rows left are those of another id, each once.
LEMMA WithoutIs ==
    ASSUME NEW Rows, NEW list \in Seq(Rows), NEW id, NEW rest, rest = Without(list, id)
    PROVE  /\ rest \in Seq(Rows) /\ Len(rest) <= Len(list)
           /\ \E at \in [1 .. Len(rest) -> 1 .. Len(list)] :
                 /\ \A k, l \in 1 .. Len(rest) : k # l => at[k] # at[l]
                 /\ \A k \in 1 .. Len(rest) : rest[k] = list[at[k]] /\ list[at[k]].id # id
                 /\ \A i \in 1 .. Len(list) :
                       list[i].id # id => \E k \in 1 .. Len(rest) : rest[k] = list[i]
  <1> DEFINE n == Len(list)
             left == {i \in DOMAIN list : list[i].id # id}
             c == Cardinality(left)
             at == [k \in 1 .. c |-> Nth(left, k)]
  <1>1. n \in Nat /\ DOMAIN list = 1 .. n
    BY LenProperties
  <1>2. left \in SUBSET (1 .. n)
    BY <1>1
  <1>3. rest = [k \in 1 .. c |-> list[Nth(left, k)]]
    BY DEF Without
  <1>4. \A i \in 1 .. n : list[i] \in Rows /\ (i \in left <=> list[i].id # id)
    BY <1>1
  <1> HIDE DEF n, left
  <1>5. /\ IsFiniteSet(left) /\ c \in Nat
        /\ \A k \in 1 .. c : Nth(left, k) \in left
        /\ \A k, l \in 1 .. c : k # l => Nth(left, k) # Nth(left, l)
        /\ \A i \in left : \E k \in 1 .. c : Nth(left, k) = i
    BY <1>1, <1>2, NthIsThere
  <1>6. c <= n
    <2>1. IsFiniteSet(1 .. n) /\ Cardinality(1 .. n) = n
      BY <1>1, FS_Interval
    <2>2. QED
      BY <1>2, <2>1, FS_Subset
  <1> HIDE DEF c
  <1>7. rest \in [1 .. c -> Rows]
    BY <1>2, <1>3, <1>4, <1>5
  <1>8. rest \in Seq(Rows) /\ Len(rest) = c
    BY <1>5, <1>7, SeqDef, LenProperties
  <1>9. \A k \in 1 .. c : rest[k] = list[Nth(left, k)] /\ at[k] = Nth(left, k)
    BY <1>3
  <1>10. at \in [1 .. c -> 1 .. n]
    BY <1>2, <1>5
  <1> HIDE DEF at
  <1>11. /\ \A k, l \in 1 .. c : k # l => at[k] # at[l]
         /\ \A k \in 1 .. c : rest[k] = list[at[k]] /\ list[at[k]].id # id
         /\ \A i \in 1 .. n : list[i].id # id => \E k \in 1 .. c : rest[k] = list[i]
    <2>1. \A k, l \in 1 .. c : k # l => at[k] # at[l]
      BY <1>5, <1>9
    <2>2. \A k \in 1 .. c : at[k] \in left /\ at[k] \in 1 .. n /\ rest[k] = list[at[k]]
      BY <1>2, <1>5, <1>9
    <2>3. \A k \in 1 .. c : list[at[k]].id # id
      BY <1>4, <2>2
    <2>4. ASSUME NEW i \in 1 .. n, list[i].id # id
          PROVE  \E k \in 1 .. c : rest[k] = list[i]
      <3>1. i \in left
        BY <1>4, <2>4
      <3>2. PICK k \in 1 .. c : Nth(left, k) = i
        BY <1>5, <3>1
      <3>3. QED
        BY <1>9, <3>2
    <2>5. QED
      BY <2>1, <2>2, <2>3, <2>4
  <1>12. QED
    BY <1>6, <1>8, <1>10, <1>11 DEF n

\* removeLine, and the discounts' filter: the rows of one id go, the others stay.
LEMMA WithoutIsNumbered ==
    ASSUME NEW Rows, NEW clock, NEW own \in BOOLEAN, NEW list,
           Numbered(list, Rows, clock, own), NEW m \in DOMAIN list
    PROVE  /\ Numbered(Without(list, list[m].id), Rows, clock, own)
           /\ own => Len(Without(list, list[m].id)) = Len(list) - 1
  <1> DEFINE n == Len(list)
             left == {i \in DOMAIN list : list[i].id # list[m].id}
             rest == Without(list, list[m].id)
             c == Cardinality(left)
  <1>1. n \in Nat /\ DOMAIN list = 1 .. n /\ m \in 1 .. n
    BY LenProperties DEF Numbered
  <1>2. left \in SUBSET (1 .. n) /\ (own => left = (1 .. n) \ {m})
    BY <1>1 DEF Numbered, OwnIds
  <1>3. rest = [k \in 1 .. c |-> list[Nth(left, k)]]
    BY DEF Without
  <1> HIDE DEF n, left
  <1>4. own => c = n - 1
    <2>1. IsFiniteSet(1 .. n) /\ Cardinality(1 .. n) = n
      BY <1>1, FS_Interval
    <2>2. Cardinality((1 .. n) \ {m}) = Cardinality(1 .. n) - 1
      BY <1>1, <2>1, FS_RemoveElement
    <2>3. QED
      BY <1>2, <2>1, <2>2
  <1> HIDE DEF rest
  <1>5. /\ c \in Nat
        /\ \A k \in 1 .. c : Nth(left, k) \in 1 .. n
        /\ \A k, l \in 1 .. c : k # l => Nth(left, k) # Nth(left, l)
    BY <1>1, <1>2, NthIsThere
  <1> HIDE DEF c
  <1>6. \A i \in 1 .. n : list[i] \in Rows /\ list[i].id <= clock
    BY <1>1 DEF Numbered
  <1>7. rest \in [1 .. c -> Rows]
    BY <1>3, <1>5, <1>6
  <1>8. rest \in Seq(Rows) /\ Len(rest) = c /\ DOMAIN rest = 1 .. c
    BY <1>5, <1>7, SeqDef, LenProperties
  <1>9. \A k \in 1 .. c : rest[k] = list[Nth(left, k)]
    BY <1>3, <1>5
  <1>10. \A k \in DOMAIN rest : rest[k].id <= clock
    BY <1>5, <1>6, <1>8, <1>9
  <1>11. own => \A k, l \in DOMAIN rest : k # l => rest[k].id # rest[l].id
    BY <1>1, <1>5, <1>8, <1>9 DEF Numbered, OwnIds
  <1>12. QED
    BY <1>4, <1>8, <1>10, <1>11 DEF Numbered, OwnIds, rest, n

\* updateLine, and the discounts' map: a row is replaced by one of its id.
LEMMA WithIdIsNumbered ==
    ASSUME NEW Rows, NEW clock, NEW own, NEW list, Numbered(list, Rows, clock, own),
           NEW id, NEW row \in Rows, row.id = id
    PROVE  /\ Numbered(WithId(list, id, row), Rows, clock, own)
           /\ Len(WithId(list, id, row)) = Len(list)
  <1>1. Len(list) \in Nat /\ DOMAIN list = 1 .. Len(list)
    BY LenProperties DEF Numbered
  <1>2. WithId(list, id, row) \in [1 .. Len(list) -> Rows]
    BY <1>1 DEF Numbered, WithId
  <1>3. WithId(list, id, row) \in Seq(Rows) /\ Len(WithId(list, id, row)) = Len(list)
    BY <1>1, <1>2, SeqDef, LenProperties
  <1>4. DOMAIN WithId(list, id, row) = DOMAIN list
        /\ \A i \in DOMAIN list : WithId(list, id, row)[i].id = list[i].id
    BY DEF WithId
  <1>5. QED
    BY <1>3, <1>4 DEF Numbered, OwnIds

\* addLine, and the discounts' own: the new row has the id of the click, which is
\* that of another row only if it falls in the same millisecond.
LEMMA AppendIsNumbered ==
    ASSUME NEW Rows, NEW clock \in Nat, NEW own \in BOOLEAN, NEW list,
           Numbered(list, Rows, clock, own), \A r \in Rows : r.id \in Nat,
           NEW now \in {clock, clock + 1}, NEW row \in Rows, row.id = now,
           NEW still \in BOOLEAN, still => own /\ now # clock
    PROVE  /\ Numbered(Append(list, row), Rows, now, still)
           /\ Append(list, row) # <<>>
  <1>1. list \in Seq(Rows) /\ Len(list) \in Nat /\ DOMAIN list = 1 .. Len(list)
    BY LenProperties DEF Numbered
  <1> DEFINE longer == Append(list, row)
  <1>2. /\ longer \in Seq(Rows) /\ Len(longer) = Len(list) + 1
        /\ DOMAIN longer = 1 .. Len(list) + 1
        /\ longer[Len(list) + 1] = row
        /\ \A i \in 1 .. Len(list) : longer[i] = list[i]
    BY <1>1, AppendProperties
  <1> HIDE DEF longer
  <1>3. \A i \in 1 .. Len(list) : longer[i].id \in Nat /\ longer[i].id <= clock
    BY <1>1, <1>2 DEF Numbered
  <1>4. \A i \in DOMAIN longer : i \in 1 .. Len(list) \/ i = Len(list) + 1
    BY <1>1, <1>2
  <1>5. \A i \in DOMAIN longer : longer[i].id <= now
    BY <1>2, <1>3, <1>4
  <1>6. ASSUME still
        PROVE  \A i, j \in DOMAIN longer : i # j => longer[i].id # longer[j].id
    BY <1>1, <1>2, <1>3, <1>4, <1>6 DEF Numbered, OwnIds
  <1>7. longer # <<>>
    BY <1>1, <1>2
  <1>8. QED
    BY <1>2, <1>5, <1>6, <1>7 DEF Numbered, OwnIds, longer

-----------------------------------------------------------------------------
(* Sums.                                                                    *)

\* The sums of the first 0 .. n values, each from the one before.
Sums(f, n, s) == s = [k \in 0 .. n |-> IF k = 0 THEN 0 ELSE s[k - 1] + f[k]]

\* There are such sums, so that Total is what its recursion says.
LEMMA SumsExist ==
    ASSUME NEW f, NEW n \in Nat
    PROVE  \E s : Sums(f, n, s)
  <1> DEFINE S == {k \in Nat : \E s : Sums(f, k, s)}
  <1>1. 0 \in S
    <2> DEFINE s == [k \in 0 .. 0 |-> 0]
    <2>1. Sums(f, 0, s)
      BY DEF Sums
    <2>2. QED
      BY <2>1
  <1>2. ASSUME NEW k \in Nat, k \in S
        PROVE  k + 1 \in S
    <2>1. PICK s : Sums(f, k, s)
      BY <1>2
    <2> DEFINE t == [j \in 0 .. k + 1 |-> IF j = k + 1 THEN s[k] + f[k + 1] ELSE s[j]]
    <2>2. \A j \in 0 .. k : s[j] = IF j = 0 THEN 0 ELSE s[j - 1] + f[j]
      BY <2>1 DEF Sums
    <2>3. ASSUME NEW j \in 0 .. k + 1
          PROVE  t[j] = IF j = 0 THEN 0 ELSE t[j - 1] + f[j]
      <3>1. CASE j = k + 1
        BY <3>1
      <3>2. CASE j # k + 1 /\ j # 0
        <4>1. j \in 0 .. k /\ j - 1 \in 0 .. k + 1 /\ j - 1 # k + 1
          BY <3>2
        <4>2. t[j] = s[j] /\ t[j - 1] = s[j - 1]
          BY <4>1, <3>2
        <4>3. QED
          BY <4>1, <4>2, <2>2, <3>2
      <3>3. CASE j = 0
        BY <3>3, <2>2
      <3>4. QED
        BY <3>1, <3>2, <3>3
    <2>4. t = [j \in 0 .. k + 1 |-> t[j]]
      OBVIOUS
    <2> HIDE DEF t
    <2>5. Sums(f, k + 1, t)
      BY <2>3, <2>4 DEF Sums
    <2>6. QED
      BY <2>5
  <1> HIDE DEF S
  <1>3. Nat \subseteq S
    BY <1>1, <1>2, AllNumbers
  <1>4. QED
    BY <1>3 DEF S

LEMMA TotalIs ==
    ASSUME NEW f, NEW n \in Nat
    PROVE  \E s : Sums(f, n, s) /\ Total(f, n) = s[n]
  <1> DEFINE s == CHOOSE s : Sums(f, n, s)
  <1>1. Sums(f, n, s)
    BY SumsExist
  <1>2. Total(f, n) = s[n]
    BY DEF Total, Sums
  <1>3. QED
    BY <1>1, <1>2

LEMMA SumsStep ==
    ASSUME NEW f, NEW n \in Nat, NEW s, Sums(f, n, s)
    PROVE  s[0] = 0 /\ \A k \in 0 .. n - 1 : s[k + 1] = s[k] + f[k + 1]
  <1>1. \A k \in 0 .. n : s[k] = IF k = 0 THEN 0 ELSE s[k - 1] + f[k]
    BY DEF Sums
  <1>2. ASSUME NEW k \in 0 .. n - 1
        PROVE  s[k + 1] = s[k] + f[k + 1]
    <2>1. k + 1 \in 0 .. n /\ k + 1 # 0 /\ k + 1 - 1 = k
      OBVIOUS
    <2>2. QED
      BY <1>1, <2>1
  <1>3. 0 \in 0 .. n
    OBVIOUS
  <1>4. QED
    BY <1>1, <1>2, <1>3

LEMMA TotalIsInt ==
    ASSUME NEW f, NEW n \in Nat, \A i \in 1 .. n : f[i] \in Int
    PROVE  Total(f, n) \in Int
  <1>1. PICK s : Sums(f, n, s) /\ Total(f, n) = s[n]
    BY TotalIs
  <1>2. s[0] = 0 /\ \A k \in 0 .. n - 1 : s[k + 1] = s[k] + f[k + 1]
    BY <1>1, SumsStep
  <1> DEFINE S == {k \in Nat : k <= n => s[k] \in Int}
  <1>3. 0 \in S
    BY <1>2
  <1>4. ASSUME NEW k \in Nat, k \in S
        PROVE  k + 1 \in S
    <2>1. CASE k + 1 <= n
      <3>1. k \in 0 .. n - 1 /\ k + 1 \in 1 .. n
        BY <2>1
      <3>2. s[k] \in Int /\ f[k + 1] \in Int /\ s[k + 1] = s[k] + f[k + 1]
        BY <1>2, <1>4, <3>1
      <3>3. QED
        BY <3>2
    <2>2. CASE ~(k + 1 <= n)
      BY <2>2
    <2>3. QED
      BY <2>1, <2>2
  <1> HIDE DEF S
  <1>5. n \in S
    BY <1>3, <1>4, AllNumbers
  <1>6. QED
    BY <1>1, <1>5 DEF S

\* What every term is multiplied by, a sum is.
LEMMA TotalScales ==
    ASSUME NEW f, NEW g, NEW n \in Nat, NEW c \in {-1, 0, 4, 7, 19},
           \A i \in 1 .. n : f[i] \in Int /\ g[i] = c * f[i]
    PROVE  Total(g, n) = c * Total(f, n)
  <1>1. PICK s : Sums(f, n, s) /\ Total(f, n) = s[n]
    BY TotalIs
  <1>2. PICK t : Sums(g, n, t) /\ Total(g, n) = t[n]
    BY TotalIs
  <1>3. s[0] = 0 /\ \A k \in 0 .. n - 1 : s[k + 1] = s[k] + f[k + 1]
    BY <1>1, SumsStep
  <1>4. t[0] = 0 /\ \A k \in 0 .. n - 1 : t[k + 1] = t[k] + g[k + 1]
    BY <1>2, SumsStep
  <1> DEFINE S == {k \in Nat : k <= n => s[k] \in Int /\ t[k] = c * s[k]}
  <1>5. 0 \in S
    BY <1>3, <1>4
  <1>6. ASSUME NEW k \in Nat, k \in S
        PROVE  k + 1 \in S
    <2>1. CASE k + 1 <= n
      <3>1. k \in 0 .. n - 1 /\ k + 1 \in 1 .. n
        BY <2>1
      <3>2. s[k] \in Int /\ f[k + 1] \in Int /\ s[k + 1] = s[k] + f[k + 1]
        BY <1>3, <1>6, <3>1
      <3>3. t[k + 1] = c * s[k] + c * f[k + 1]
        BY <1>4, <1>6, <3>1
      <3>4. c * s[k] + c * f[k + 1] = c * (s[k] + f[k + 1])
        BY <3>2
      <3>5. QED
        BY <3>2, <3>3, <3>4
    <2>2. CASE ~(k + 1 <= n)
      BY <2>2
    <2>3. QED
      BY <2>1, <2>2
  <1> HIDE DEF S
  <1>7. n \in S
    BY <1>5, <1>6, AllNumbers
  <1>8. QED
    BY <1>1, <1>2, <1>7 DEF S

-----------------------------------------------------------------------------
(* The document and its preview: line by line and discount by discount they *)
(* have the same numbers, but for the sign of a credit note, and so have    *)
(* their sums.                                                              *)

LEMMA NumbersAre == \A t : /\ Number(t) \in Int /\ NumberOrPercent(t) \in Int
                           /\ Money(t) \in Int
  <1>1. \A t : Number(t) \in Int /\ NumberOrPercent(t) \in Int
    BY DEF Number, NumberOrPercent
  <1>2. \A x \in Int : 2 * ((x + 1) \div 2) \in Int
    OBVIOUS
  <1>3. \A t : Money(t) \in Int
    BY <1>1, <1>2 DEF Money
  <1>4. QED
    BY <1>1, <1>3

LEMMA NegativeNumber == \A t : /\ t # "-1" => Number(t) \in Nat
                               /\ Number(t) >= 0 => t # "-1"
  <1>1. Number("-1") = -2
    BY DEF Number
  <1>2. \A t : t # "-1" => Number(t) \in {0, 1, 2, 4, 6, 100}
    BY DEF Number
  <1>3. QED
    BY <1>1, <1>2

Signs == {-1, 1}
VatPercents == {0, 7, 19}

Carries(sign, q, p, v) ==
    /\ q * p \in Int /\ q * p * v \in Int
    /\ q * (sign * p) = sign * (q * p)
    /\ q * (sign * p) * v = sign * (q * p * v)

LEMMA SignCarries ==
    ASSUME NEW sign \in Signs, NEW q \in Int, NEW p \in Int, NEW v \in VatPercents
    PROVE  Carries(sign, q, p, v)
  BY DEF Carries, Signs, VatPercents

LEMMA TotalOfNone ==
    ASSUME NEW f
    PROVE  Total(f, 0) = 0
  BY TotalIs, SumsStep

LEMMA SignedPrice ==
    \A p \in Int, credit \in BOOLEAN, sign \in Signs :
        /\ credit => p \in Nat
        /\ sign = IF credit THEN -1 ELSE 1
        => (IF credit /\ p > 0 THEN -p ELSE p) = sign * p
  BY DEF Signs

SignOf(docType) == IF docType = "credit-note" THEN -1 ELSE 1

LineNet(l) == Number(l.quantity) * Number(l.price)
LineVat(l, reverse) == Number(l.quantity) * Number(l.price) * VatPercent(l.vatRate, reverse)
DocLineNet(l, docType) == LineQuantity(l) * LinePrice(docType, l)
DocLineVat(l, docType, reverse) ==
    LineQuantity(l) * LinePrice(docType, l) * Percent(LineTax(l.vatRate, reverse))

\* A tax and its rate, on a line and, where all lines have one rate, on a discount.
LEMMA TaxOfLine ==
    ASSUME NEW rate, NEW reverse \in BOOLEAN
    PROVE  /\ VatPercent(rate, reverse) \in {0, 7, 19}
           /\ Percent(LineTax(rate, reverse)) = VatPercent(rate, reverse)
  <1>1. CASE reverse
    BY <1>1 DEF VatPercent, Percent, LineTax
  <1>2. CASE ~reverse
    BY <1>2 DEF VatPercent, Percent, LineTax
  <1>3. QED
    BY <1>1, <1>2

LEMMA TaxOfDiscount ==
    ASSUME NEW list, NEW reverse \in BOOLEAN, NEW rate,
           {list[i].vatRate : i \in DOMAIN list} = {rate}
    PROVE  Percent(DiscountTax(list, reverse)) = VatPercent(rate, reverse)
  <1>1. CASE reverse
    BY <1>1 DEF VatPercent, Percent, DiscountTax
  <1>2. CASE ~reverse
    <2> DEFINE rates == {list[i].vatRate : i \in DOMAIN list}
    <2>1. rates = {rate}
      OBVIOUS
    <2>2. DiscountTax(list, reverse) =
              CASE reverse -> "reverse-charge"
                [] ~reverse /\ "19" \in rates -> "general"
                [] ~reverse /\ "19" \notin rates /\ "7" \in rates -> "reduced"
                [] ~reverse /\ rates = {"0"} -> "zero"
                [] OTHER -> "reverse-charge"
      BY DEF DiscountTax
    <2> HIDE DEF rates
    <2>3. CASE rate = "19"
      BY <1>2, <2>1, <2>2, <2>3 DEF VatPercent, Percent
    <2>4. CASE rate = "7"
      BY <1>2, <2>1, <2>2, <2>4 DEF VatPercent, Percent
    <2>5. CASE rate \notin {"19", "7"}
      BY <1>2, <2>1, <2>2, <2>5 DEF VatPercent, Percent
    <2>6. QED
      BY <2>3, <2>4, <2>5
  <1>3. QED
    BY <1>1, <1>2

\* A line has one net and one VAT, with the sign of a credit note.
LEMMA LineAgrees ==
    ASSUME NEW l, NEW docType, NEW reverse \in BOOLEAN, l.quantity # "",
           Money(l.price) = Number(l.price), docType = "credit-note" => l.price # "-1"
    PROVE  /\ LineNet(l) \in Int /\ LineVat(l, reverse) \in Int
           /\ DocLineNet(l, docType) = SignOf(docType) * LineNet(l)
           /\ DocLineVat(l, docType, reverse) = SignOf(docType) * LineVat(l, reverse)
  <1>1. PICK q \in Int, p \in Int, v \in VatPercents, s \in Signs :
            /\ q = Number(l.quantity) /\ p = Number(l.price)
            /\ v = VatPercent(l.vatRate, reverse) /\ s = SignOf(docType)
    BY NumbersAre, TaxOfLine DEF SignOf, Signs, VatPercents
  <1>2. LineQuantity(l) = q /\ Percent(LineTax(l.vatRate, reverse)) = v
    BY <1>1, TaxOfLine DEF LineQuantity, SentQuantity
  <1>3. LinePrice(docType, l) = s * p
    <2>1. PICK credit \in BOOLEAN : credit <=> docType = "credit-note"
      OBVIOUS
    <2>2. s = IF credit THEN -1 ELSE 1
      BY <1>1, <2>1 DEF SignOf
    <2> DEFINE signed == IF credit /\ p > 0 THEN -p ELSE p
    <2>3. credit => p \in Nat
      BY <1>1, <2>1, NegativeNumber, Zenon
    <2>4. signed = s * p
      BY <2>2, <2>3, SignedPrice, Zenon
    <2>5. LinePrice(docType, l) = signed
      BY <1>1, <2>1 DEF LinePrice
    <2> HIDE DEF signed
    <2>6. QED
      BY <2>4, <2>5, Zenon
  <1>4. /\ LineNet(l) = q * p /\ LineVat(l, reverse) = q * p * v
        /\ DocLineNet(l, docType) = q * (s * p)
        /\ DocLineVat(l, docType, reverse) = q * (s * p) * v
    BY <1>1, <1>2, <1>3 DEF LineNet, LineVat, DocLineNet, DocLineVat
  <1>5. /\ q * p \in Int /\ q * p * v \in Int
        /\ q * (s * p) = s * (q * p)
        /\ q * (s * p) * v = s * (q * p * v)
    <2>1. q \in Int /\ p \in Int /\ v \in VatPercents /\ s \in Signs
      OBVIOUS
    <2>2. Carries(s, q, p, v)
      BY <2>1, SignCarries, Zenon
    <2>3. QED
      BY <2>2, Zenon DEF Carries
  <1>6. LineNet(l) \in Int /\ LineVat(l, reverse) \in Int
    BY <1>4, <1>5
  <1>7. /\ DocLineNet(l, docType) = s * LineNet(l)
        /\ DocLineVat(l, docType, reverse) = s * LineVat(l, reverse)
    BY <1>4, <1>5, Zenon
  <1>8. QED
    BY <1>1, <1>6, <1>7, Zenon

-----------------------------------------------------------------------------
(* What every edit keeps: the form's fields and their types, and, but for    *)
(* rows added in one millisecond, a line at least and ids of their own.      *)

Fields == {"docType", "method", "klein", "reverse", "filled", "vatId", "lines", "discounts"}

FormInv ==
    /\ DOMAIN invoice = Fields
    /\ invoice.docType \in DocTypes
    /\ invoice.method \in {"credit-transfer", "direct-debit"}
    /\ invoice.klein \in BOOLEAN /\ invoice.reverse \in BOOLEAN
    /\ invoice.filled \subseteq TextFields
    /\ invoice.vatId \in Seq(Digits)
    /\ formClock \in [RowKinds -> Nat] /\ formTwins \subseteq RowKinds
    /\ Numbered(invoice.lines, Lines, formClock["lines"], "lines" \notin formTwins)
    /\ "lines" \notin formTwins => invoice.lines # <<>>
    /\ Numbered(invoice.discounts, Discounts, formClock["discounts"], "discounts" \notin formTwins)

LEMMA NewRows ==
    /\ \A id \in Nat : NewLine(id) \in Lines /\ NewLine(id).id = id
    /\ \A id \in Nat : NewDiscount(id) \in Discounts /\ NewDiscount(id).id = id
  <1>1. \A id \in Nat : NewLine(id) \in Lines /\ NewLine(id).id = id
    BY DEF NewLine, Lines, Typed
  <1>2. \A id \in Nat : NewDiscount(id) \in Discounts /\ NewDiscount(id).id = id
    BY DEF NewDiscount, Discounts, Typed
  <1>3. QED
    BY <1>1, <1>2

\* A click is of its own kind, and at a time.
LEMMA ClickIsLater ==
    ASSUME NEW kind \in RowKinds, NEW now, FormInv, ClickAt(kind, now)
    PROVE  /\ now \in Nat /\ now \in {formClock[kind], formClock[kind] + 1}
           /\ formClock' \in [RowKinds -> Nat] /\ formTwins' \subseteq RowKinds
           /\ formClock'[kind] = now
           /\ (kind \notin formTwins') <=> (kind \notin formTwins /\ now # formClock[kind])
           /\ \A other \in RowKinds \ {kind} :
                 /\ formClock'[other] = formClock[other]
                 /\ other \in formTwins' <=> other \in formTwins
  <1>1. formClock[kind] \in Nat
    BY DEF FormInv
  <1>2. now \in Nat
    BY <1>1 DEF ClickAt
  <1>3. QED
    BY <1>2 DEF ClickAt, FormInv

\* An edited row has the id it had.
LEMMA EditedLine ==
    ASSUME NEW l \in Lines, NEW row,
           \/ \E x \in Typed : row = [l EXCEPT !.quantity = x]
           \/ \E x \in Typed : row = [l EXCEPT !.price = x]
           \/ \E x \in {"19", "7", "0", "reverse-charge"} : row = [l EXCEPT !.vatRate = x]
    PROVE  row \in Lines /\ row.id = l.id
  BY DEF Lines

LEMMA EditedDiscount ==
    ASSUME NEW d \in Discounts, NEW row,
           \/ \E x \in BOOLEAN : row = [d EXCEPT !.reason = x]
           \/ \E x \in {"percent", "amount"} : row = [d EXCEPT !.mode = x]
           \/ \E x \in Typed : row = [d EXCEPT !.value = x]
    PROVE  row \in Discounts /\ row.id = d.id
  BY DEF Discounts

LEMMA FormInvInit == FormInit => FormInv
  <1>1. <<>> \in Seq(Digits)
    BY EmptySeq
  <1>2. \A own : Numbered(<<>>, Discounts, 1, own)
    BY EmptySeq DEF Numbered, OwnIds
  <1>3. <<NewLine(1)>> \in Seq(Lines) /\ Len(<<NewLine(1)>>) = 1
    BY NewRows
  <1>4. \A own : Numbered(<<NewLine(1)>>, Lines, 1, own)
    BY <1>3, NewRows DEF Numbered, OwnIds
  <1>5. SUFFICES ASSUME FormInit
                 PROVE  FormInv
    OBVIOUS
  <1>6. /\ invoice.lines = <<NewLine(1)>> /\ invoice.discounts = <<>>
        /\ formClock = [kind \in RowKinds |-> 1] /\ formTwins = {}
    BY <1>5 DEF FormInit
  <1>7. /\ formClock \in [RowKinds -> Nat] /\ formTwins \subseteq RowKinds
        /\ formClock["lines"] = 1 /\ formClock["discounts"] = 1
    BY <1>6 DEF RowKinds
  <1>8. /\ Numbered(invoice.lines, Lines, formClock["lines"], "lines" \notin formTwins)
        /\ Numbered(invoice.discounts, Discounts, formClock["discounts"],
                    "discounts" \notin formTwins)
        /\ invoice.lines # <<>>
    BY <1>2, <1>3, <1>4, <1>6, <1>7
  <1>9. QED
    BY <1>1, <1>5, <1>7, <1>8 DEF FormInit, FormInv, Fields, DocTypes, TextFields

LEMMA ShownIsText ==
    ASSUME FormInv
    PROVE  Shown(invoice) \subseteq TextFields
  BY DEF Shown, PartyShown, PaymentShown, ReferencesShown, PeriodShown, PrecedingShown, TextFields

LEMMA FormInvStep == FormInv /\ [FormNext]_formVars => FormInv'
  <1> SUFFICES ASSUME FormInv, [FormNext]_formVars
               PROVE  FormInv'
    OBVIOUS
  <1> USE DEF Edit
  <1>1. CASE PickDocType
    <2>1. PICK t \in DocTypes :
              invoice' = [invoice EXCEPT !.docType = t,
                                         !.filled = IF NeedsPreceding(t) THEN @
                                                    ELSE @ \ {"preceding"}]
      BY <1>1 DEF PickDocType
    <2>2. /\ DOMAIN invoice' = Fields
          /\ invoice'.docType = t
          /\ invoice'.filled \subseteq invoice.filled
          /\ \A f \in Fields \ {"docType", "filled"} : invoice'[f] = invoice[f]
          /\ formClock' = formClock /\ formTwins' = formTwins
      BY <1>1, <2>1 DEF PickDocType, FormInv, Fields
    <2>3. QED
      BY <2>2 DEF FormInv, Fields
  <1>2. CASE PickMethod
    BY <1>2 DEF PickMethod, FormInv, Fields
  <1>3. CASE ToggleKleinunternehmer
    BY <1>3 DEF ToggleKleinunternehmer, FormInv, Fields
  <1>4. CASE TypeText
    <2>1. PICK f \in Shown(invoice) :
              \/ Edit([invoice EXCEPT !.filled = @ \cup {f}])
              \/ Edit([invoice EXCEPT !.filled = @ \ {f}])
      BY <1>4 DEF TypeText
    <2>2. f \in TextFields
      BY ShownIsText
    <2>3. QED
      BY <2>1, <2>2 DEF FormInv, Fields
  <1>5. CASE TypeVatDigit
    <2>1. PICK d \in VatDigits : Edit([invoice EXCEPT !.vatId = Append(@, d)])
      BY <1>5 DEF TypeVatDigit
    <2>2. d \in Digits
      BY FormAssumption DEF Digits
    <2>3. Append(invoice.vatId, d) \in Seq(Digits)
      BY <2>2 DEF FormInv
    <2>4. QED
      BY <2>1, <2>3 DEF FormInv, Fields
  <1>6. CASE EraseVatDigit
    <2>1. Front(invoice.vatId) \in Seq(Digits)
      BY <1>6 DEF EraseVatDigit, FormInv, Front
    <2>2. QED
      BY <1>6, <2>1 DEF EraseVatDigit, FormInv, Fields
  <1>7. CASE EditAmounts
    <2>1. CASE ToggleReverseCharge
      BY <2>1 DEF ToggleReverseCharge, FormInv, Fields
    <2>2. ASSUME NEW lines, invoice' = [invoice EXCEPT !.lines = lines],
                 formClock' \in [RowKinds -> Nat], formTwins' \subseteq RowKinds,
                 Numbered(lines, Lines, formClock'["lines"], "lines" \notin formTwins'),
                 "lines" \notin formTwins' => lines # <<>>,
                 formClock'["discounts"] = formClock["discounts"],
                 "discounts" \in formTwins' <=> "discounts" \in formTwins
          PROVE  FormInv'
      <3>1. ("discounts" \notin formTwins') = ("discounts" \notin formTwins)
        BY <2>2
      <3>2. Numbered(invoice.discounts, Discounts, formClock'["discounts"],
                     "discounts" \notin formTwins')
        BY <2>2, <3>1 DEF FormInv
      <3>3. QED
        BY <2>2, <3>2 DEF FormInv, Fields
    <2>3. ASSUME NEW discounts, invoice' = [invoice EXCEPT !.discounts = discounts],
                 formClock' \in [RowKinds -> Nat], formTwins' \subseteq RowKinds,
                 Numbered(discounts, Discounts, formClock'["discounts"],
                          "discounts" \notin formTwins'),
                 formClock'["lines"] = formClock["lines"],
                 "lines" \in formTwins' <=> "lines" \in formTwins
          PROVE  FormInv'
      <3>1. ("lines" \notin formTwins') = ("lines" \notin formTwins)
        BY <2>3
      <3>2. /\ Numbered(invoice.lines, Lines, formClock'["lines"], "lines" \notin formTwins')
            /\ "lines" \notin formTwins' => invoice.lines # <<>>
        BY <2>3, <3>1 DEF FormInv
      <3>3. QED
        BY <2>3, <3>2 DEF FormInv, Fields
    <2> DEFINE ls == invoice.lines  ds == invoice.discounts
               lineClock == formClock["lines"]  discountClock == formClock["discounts"]
               ownLines == "lines" \notin formTwins
               ownDiscounts == "discounts" \notin formTwins
    <2>k. "lines" \in RowKinds /\ "discounts" \in RowKinds
          /\ lineClock \in Nat /\ discountClock \in Nat
          /\ ownLines \in BOOLEAN /\ ownDiscounts \in BOOLEAN
      BY DEF FormInv, RowKinds
    <2>4. CASE AddLine
      <3>1. PICK now : /\ invoice' = [invoice EXCEPT !.lines = Append(ls, NewLine(now))]
                       /\ ClickAt("lines", now)
        BY <2>4 DEF AddLine
      <3>2. /\ now \in Nat /\ now \in {lineClock, lineClock + 1}
            /\ formClock' \in [RowKinds -> Nat] /\ formTwins' \subseteq RowKinds
            /\ formClock'["lines"] = now
            /\ ("lines" \notin formTwins') <=> (ownLines /\ now # lineClock)
            /\ formClock'["discounts"] = formClock["discounts"]
            /\ "discounts" \in formTwins' <=> "discounts" \in formTwins
        BY <2>k, <3>1, ClickIsLater
      <3>3. NewLine(now) \in Lines /\ NewLine(now).id = now
        BY <3>2, NewRows
      <3>4. PICK still \in BOOLEAN : still = ("lines" \notin formTwins')
        OBVIOUS
      <3>5. still => ownLines /\ now # lineClock
        BY <3>2, <3>4
      <3>6. /\ Numbered(Append(ls, NewLine(now)), Lines, formClock'["lines"],
                        "lines" \notin formTwins')
            /\ Append(ls, NewLine(now)) # <<>>
        <4>1. Numbered(ls, Lines, lineClock, ownLines) /\ \A l \in Lines : l.id \in Nat
          BY DEF FormInv, Lines
        <4> HIDE DEF ls, lineClock, ownLines
        <4>2. \A row \in Lines : row.id = now =>
                  Numbered(Append(ls, row), Lines, now, still) /\ Append(ls, row) # <<>>
          <5>1. TAKE row \in Lines
          <5>2. SUFFICES ASSUME row.id = now
                         PROVE  /\ Numbered(Append(ls, row), Lines, now, still)
                                /\ Append(ls, row) # <<>>
            OBVIOUS
          <5>3. /\ lineClock \in Nat /\ ownLines \in BOOLEAN
                /\ now \in {lineClock, lineClock + 1}
            BY <2>k, <3>2
          <5>4. QED
            BY <3>5, <4>1, <5>2, <5>3, AppendIsNumbered, Zenon
        <4>3. QED
          BY <3>2, <3>3, <3>4, <4>2
      <3>7. QED
        BY <2>2, <3>1, <3>2, <3>6
    <2>5. CASE AddDiscount
      <3>1. PICK now : /\ invoice' = [invoice EXCEPT !.discounts = Append(ds, NewDiscount(now))]
                       /\ ClickAt("discounts", now)
        BY <2>5 DEF AddDiscount
      <3>2. /\ now \in Nat /\ now \in {discountClock, discountClock + 1}
            /\ formClock' \in [RowKinds -> Nat] /\ formTwins' \subseteq RowKinds
            /\ formClock'["discounts"] = now
            /\ ("discounts" \notin formTwins') <=> (ownDiscounts /\ now # discountClock)
            /\ formClock'["lines"] = formClock["lines"]
            /\ "lines" \in formTwins' <=> "lines" \in formTwins
        BY <2>k, <3>1, ClickIsLater
      <3>3. NewDiscount(now) \in Discounts /\ NewDiscount(now).id = now
        BY <3>2, NewRows
      <3>4. PICK still \in BOOLEAN : still = ("discounts" \notin formTwins')
        OBVIOUS
      <3>5. still => ownDiscounts /\ now # discountClock
        BY <3>2, <3>4
      <3>6. /\ Numbered(Append(ds, NewDiscount(now)), Discounts, formClock'["discounts"],
                        "discounts" \notin formTwins')
            /\ Append(ds, NewDiscount(now)) # <<>>
        <4>1. Numbered(ds, Discounts, discountClock, ownDiscounts) /\ \A d \in Discounts : d.id \in Nat
          BY DEF FormInv, Discounts
        <4> HIDE DEF ds, discountClock, ownDiscounts
        <4>2. \A row \in Discounts : row.id = now =>
                  Numbered(Append(ds, row), Discounts, now, still) /\ Append(ds, row) # <<>>
          <5>1. TAKE row \in Discounts
          <5>2. SUFFICES ASSUME row.id = now
                         PROVE  /\ Numbered(Append(ds, row), Discounts, now, still)
                                /\ Append(ds, row) # <<>>
            OBVIOUS
          <5>3. /\ discountClock \in Nat /\ ownDiscounts \in BOOLEAN
                /\ now \in {discountClock, discountClock + 1}
            BY <2>k, <3>2
          <5>4. QED
            BY <3>5, <4>1, <5>2, <5>3, AppendIsNumbered, Zenon
        <4>3. QED
          BY <3>2, <3>3, <3>4, <4>2
      <3>7. QED
        BY <2>3, <3>1, <3>2, <3>6
    <2>6. CASE UpdateLine
      <3> DEFINE Edited(i) == {[ls[i] EXCEPT !.quantity = x] : x \in Quantities}
                  \cup {[ls[i] EXCEPT !.price = x] : x \in Prices}
                  \cup (IF invoice.reverse THEN {}
                        ELSE {[ls[i] EXCEPT !.vatRate = x] : x \in Rates})
      <3>1. PICK i \in DOMAIN ls : \E row \in Edited(i) :
                Edit([invoice EXCEPT !.lines = WithId(ls, ls[i].id, row)])
        BY <2>6 DEF UpdateLine
      <3>2. ls[i] \in Lines
        BY DEF FormInv, Numbered
      <3>3. \A row \in Edited(i) : row \in Lines /\ row.id = ls[i].id
        <4>1. TAKE row \in Edited(i)
        <4>2. \/ \E x \in Typed : row = [ls[i] EXCEPT !.quantity = x]
              \/ \E x \in Typed : row = [ls[i] EXCEPT !.price = x]
              \/ \E x \in {"19", "7", "0", "reverse-charge"} : row = [ls[i] EXCEPT !.vatRate = x]
          BY FormAssumption
        <4>3. QED
          BY <3>2, <4>2, EditedLine
      <3> HIDE DEF Edited
      <3>4. PICK row \in Lines : row.id = ls[i].id
                /\ Edit([invoice EXCEPT !.lines = WithId(ls, ls[i].id, row)])
        BY <3>1, <3>3
      <3>5. Numbered(WithId(ls, ls[i].id, row), Lines, lineClock, ownLines)
            /\ Len(WithId(ls, ls[i].id, row)) = Len(ls)
        BY <3>4, WithIdIsNumbered DEF FormInv
      <3>6. ownLines => WithId(ls, ls[i].id, row) # <<>>
        BY <3>5 DEF FormInv, Numbered
      <3>7. QED
        BY <2>2, <3>4, <3>5, <3>6 DEF FormInv
    <2>7. CASE RemoveLine
      <3>1. PICK i \in DOMAIN ls :
                Len(ls) > 1 /\ Edit([invoice EXCEPT !.lines = Without(ls, ls[i].id)])
        BY <2>7 DEF RemoveLine
      <3>2. /\ Numbered(Without(ls, ls[i].id), Lines, lineClock, ownLines)
            /\ ownLines => Len(Without(ls, ls[i].id)) = Len(ls) - 1
        <4>1. Numbered(ls, Lines, lineClock, ownLines)
          BY DEF FormInv
        <4> HIDE DEF ls, lineClock, ownLines
        <4>2. QED
          BY <2>k, <4>1, WithoutIsNumbered, Zenon
      <3>3. ownLines => Without(ls, ls[i].id) # <<>>
        <4>1. ls \in Seq(Lines) /\ Len(ls) > 1
          BY <3>1 DEF FormInv, Numbered
        <4>2. Len(ls) \in Nat
          BY <4>1, LenProperties
        <4>3. ASSUME ownLines
              PROVE  Len(Without(ls, ls[i].id)) # 0
          <5> HIDE DEF ls, ownLines
          <5>1. Len(Without(ls, ls[i].id)) = Len(ls) - 1
            BY <3>2, <4>3, Zenon
          <5>2. QED
            BY <4>1, <4>2, <5>1
        <4>4. Len(<<>>) = 0
          OBVIOUS
        <4>5. QED
          BY <4>3, <4>4
      <3>4. QED
        BY <2>2, <3>1, <3>2, <3>3 DEF FormInv
    <2>8. CASE UpdateDiscount
      <3> DEFINE Edited(i) == {[ds[i] EXCEPT !.reason = x] : x \in BOOLEAN}
                  \cup {[ds[i] EXCEPT !.mode = x] : x \in {"percent", "amount"}}
                  \cup {[ds[i] EXCEPT !.value = x] : x \in Values}
      <3>1. PICK i \in DOMAIN ds : \E row \in Edited(i) :
                Edit([invoice EXCEPT !.discounts = WithId(ds, ds[i].id, row)])
        BY <2>8 DEF UpdateDiscount
      <3>2. ds[i] \in Discounts
        BY DEF FormInv, Numbered
      <3>3. \A row \in Edited(i) : row \in Discounts /\ row.id = ds[i].id
        <4>1. TAKE row \in Edited(i)
        <4>2. \/ \E x \in BOOLEAN : row = [ds[i] EXCEPT !.reason = x]
              \/ \E x \in {"percent", "amount"} : row = [ds[i] EXCEPT !.mode = x]
              \/ \E x \in Typed : row = [ds[i] EXCEPT !.value = x]
          BY FormAssumption
        <4>3. QED
          BY <3>2, <4>2, EditedDiscount
      <3> HIDE DEF Edited
      <3>4. PICK row \in Discounts : row.id = ds[i].id
                /\ Edit([invoice EXCEPT !.discounts = WithId(ds, ds[i].id, row)])
        BY <3>1, <3>3
      <3>5. Numbered(WithId(ds, ds[i].id, row), Discounts, discountClock, ownDiscounts)
        BY <3>4, WithIdIsNumbered DEF FormInv
      <3>6. QED
        BY <2>3, <3>4, <3>5 DEF FormInv
    <2>9. CASE RemoveDiscount
      <3>1. PICK i \in DOMAIN ds : Edit([invoice EXCEPT !.discounts = Without(ds, ds[i].id)])
        BY <2>9 DEF RemoveDiscount
      <3>2. Numbered(Without(ds, ds[i].id), Discounts, discountClock, ownDiscounts)
        <4>1. Numbered(ds, Discounts, discountClock, ownDiscounts)
          BY DEF FormInv
        <4> HIDE DEF ds, discountClock, ownDiscounts
        <4>2. QED
          BY <2>k, <4>1, WithoutIsNumbered, Zenon
      <3>3. QED
        BY <2>3, <3>1, <3>2 DEF FormInv
    <2>10. QED
      BY <1>1, <1>7, <2>1, <2>4, <2>5, <2>6, <2>7, <2>8, <2>9 DEF EditAmounts
  <1>8. CASE UNCHANGED formVars
    BY <1>8 DEF formVars, FormInv
  <1>9. QED
    BY <1>1, <1>2, <1>3, <1>4, <1>5, <1>6, <1>7, <1>8
    DEF FormNext, EditFields, EditVatId

-----------------------------------------------------------------------------
LEMMA LinesAgree ==
    ASSUME FormInv, Previewable(invoice)
    PROVE  LET sign == SignOf(invoice.docType)
           IN /\ PreviewLinesNet(invoice) \in Int /\ PreviewLinesVat(invoice) \in Int
              /\ SumOver(invoice.lines, LAMBDA l : LineQuantity(l) * LinePrice(invoice.docType, l))
                     = sign * PreviewLinesNet(invoice)
              /\ SumOver(invoice.lines, LAMBDA l : LineQuantity(l) * LinePrice(invoice.docType, l)
                                             * Percent(LineTax(l.vatRate, invoice.reverse)))
                     = sign * PreviewLinesVat(invoice)
  <1> DEFINE ls == invoice.lines
             n == Len(ls)
             net == [i \in DOMAIN ls |-> LineNet(ls[i])]
             vat == [i \in DOMAIN ls |-> LineVat(ls[i], invoice.reverse)]
             docNet == [i \in DOMAIN ls |-> DocLineNet(ls[i], invoice.docType)]
             docVat == [i \in DOMAIN ls |-> DocLineVat(ls[i], invoice.docType, invoice.reverse)]
             sign == SignOf(invoice.docType)
  <1>1. n \in Nat /\ DOMAIN ls = 1 .. n
    BY LenProperties DEF FormInv, Numbered
  <1>2. /\ PreviewLinesNet(invoice) = Total(net, n)
        /\ PreviewLinesVat(invoice) = Total(vat, n)
        /\ SumOver(ls, LAMBDA l : LineQuantity(l) * LinePrice(invoice.docType, l))
               = Total(docNet, n)
        /\ SumOver(ls, LAMBDA l : LineQuantity(l) * LinePrice(invoice.docType, l)
                                  * Percent(LineTax(l.vatRate, invoice.reverse)))
               = Total(docVat, n)
    BY DEF PreviewLinesNet, PreviewLinesVat, SumOver, LineNet, LineVat, DocLineNet, DocLineVat
  <1>3. ASSUME NEW i \in 1 .. n
        PROVE  /\ net[i] \in Int /\ vat[i] \in Int
               /\ docNet[i] = sign * net[i] /\ docVat[i] = sign * vat[i]
    <2>1. /\ ls[i].quantity # "" /\ invoice.reverse \in BOOLEAN
          /\ Money(ls[i].price) = Number(ls[i].price)
          /\ invoice.docType = "credit-note" => ls[i].price # "-1"
      BY <1>1, NegativeNumber DEF Previewable, FormInv
    <2>2. QED
      BY <1>1, <2>1, LineAgrees
  <1>4. DOMAIN net = 1 .. n /\ DOMAIN vat = 1 .. n
        /\ DOMAIN docNet = 1 .. n /\ DOMAIN docVat = 1 .. n
        /\ net = [i \in 1 .. n |-> net[i]] /\ vat = [i \in 1 .. n |-> vat[i]]
        /\ docNet = [i \in 1 .. n |-> docNet[i]] /\ docVat = [i \in 1 .. n |-> docVat[i]]
    BY <1>1
  <1> HIDE DEF net, vat, docNet, docVat, n
  <1>5. Total(net, n) \in Int /\ Total(vat, n) \in Int
    BY <1>1, <1>3, TotalIsInt
  <1>6. Total(docNet, n) = sign * Total(net, n) /\ Total(docVat, n) = sign * Total(vat, n)
    <2>1. CASE invoice.docType = "credit-note"
      <3>1. sign = -1
        BY <2>1 DEF SignOf
      <3> HIDE DEF sign
      <3>2. QED
        BY <1>1, <1>3, <3>1, TotalScales
    <2>2. CASE invoice.docType # "credit-note"
      <3>1. sign = 1
        BY <2>2 DEF SignOf
      <3> HIDE DEF sign
      <3>2. docNet = net /\ docVat = vat
        BY <1>3, <1>4, <3>1
      <3>3. QED
        BY <1>5, <3>1, <3>2
    <2>3. QED
      BY <2>1, <2>2
  <1>7. QED
    BY <1>2, <1>5, <1>6

\* Lines of whole cents have a sum of whole cents.
LEMMA LinesInCents ==
    ASSUME FormInv, Previewable(invoice)
    PROVE  PreviewLinesNet(invoice) \in Int /\ PreviewLinesNet(invoice) % 4 = 0
  <1> DEFINE ls == invoice.lines
             n == Len(ls)
             net == [i \in DOMAIN ls |-> Number(ls[i].quantity) * Number(ls[i].price)]
             cents == [i \in DOMAIN ls |-> net[i] \div 4]
  <1>1. n \in Nat /\ DOMAIN ls = 1 .. n
    BY LenProperties DEF FormInv, Numbered
  <1>2. PreviewLinesNet(invoice) = Total(net, n)
    BY DEF PreviewLinesNet, SumOver
  <1>3. ASSUME NEW i \in 1 .. n
        PROVE  cents[i] \in Int /\ net[i] = 4 * cents[i]
    <2>1. net[i] = Number(ls[i].quantity) * Number(ls[i].price)
          /\ net[i] % 4 = 0
      BY <1>1 DEF Previewable
    <2>2. Number(ls[i].quantity) \in Int /\ Number(ls[i].price) \in Int
      BY NumbersAre
    <2>3. \A x, y \in Int : x * y \in Int
      OBVIOUS
    <2>4. net[i] \in Int
      BY <2>1, <2>2, <2>3
    <2>5. cents[i] = net[i] \div 4
      BY <1>1
    <2> HIDE DEF net, cents
    <2>6. QED
      BY <2>1, <2>4, <2>5
  <1> HIDE DEF net, cents, n
  <1>4. Total(net, n) = 4 * Total(cents, n) /\ Total(cents, n) \in Int
    BY <1>1, <1>3, TotalScales, TotalIsInt
  <1>5. QED
    BY <1>2, <1>4

\* On a credit note there is none.
LEMMA DiscountsAgree ==
    ASSUME FormInv, Previewable(invoice)
    PROVE  /\ PreviewDiscount800(invoice) \in Int
           /\ invoice.docType = "credit-note" => PreviewDiscount800(invoice) = 0
           /\ SumOver(invoice.discounts, LAMBDA d : SentDiscount800(d, invoice.lines))
                  = PreviewDiscount800(invoice)
  <1> DEFINE ds == invoice.discounts
             n == Len(ds)
             net == PreviewLinesNet(invoice)
             Shows(d) == IF ~d.reason THEN 0
                         ELSE IF d.mode = "percent" THEN net * NumberOrPercent(d.value)
                         ELSE 400 * NumberOrPercent(d.value)
             shown == [i \in DOMAIN ds |-> Shows(ds[i])]
             sent == [i \in DOMAIN ds |-> SentDiscount800(ds[i], invoice.lines)]
  <1>1. n \in Nat /\ DOMAIN ds = 1 .. n /\ ds \in Seq(Discounts)
    BY LenProperties DEF FormInv, Numbered
  <1>2. /\ PreviewDiscount800(invoice) = Total(shown, n)
        /\ SumOver(ds, LAMBDA d : SentDiscount800(d, invoice.lines)) = Total(sent, n)
    BY DEF PreviewDiscount800, SumOver
  <1>3. net \in Int
    BY LinesAgree
  <1>4. n > 0 => LinesNetSum(invoice.lines) = net /\ invoice.docType # "credit-note"
    <2>1. ds # <<>> => invoice.docType # "credit-note" /\ net >= 0
      BY DEF Previewable
    <2>2. LinesNetSum(invoice.lines) = 4 * (((IF net < 0 THEN -net ELSE net) + 2) \div 4)
      BY DEF LinesNetSum, PreviewLinesNet
    <2>3. net % 4 = 0
      BY LinesInCents
    <2> HIDE DEF net
    <2>4. net >= 0 => 4 * ((net + 2) \div 4) = net
      BY <1>3, <2>3
    <2>5. QED
      BY <1>1, <1>3, <2>1, <2>2, <2>4
  <1>5. \A i \in 1 .. n : /\ Shows(ds[i]) \in Int
                          /\ SentDiscount800(ds[i], invoice.lines) = Shows(ds[i])
    <2>1. TAKE i \in 1 .. n
    <2>2. n > 0
      BY <1>1
    <2>3. ds[i] \in Discounts
      BY <1>1
    <2>4. PICK d \in Discounts, base \in Int, x \in Int, y \in Int :
              /\ d = ds[i] /\ base = net
              /\ x = NumberOrPercent(d.value) /\ y = Money(d.value)
      BY <1>3, <2>3, NumbersAre
    <2>5. /\ d.value # "5%" /\ y = Number(d.value) => x = y
          /\ d.value = "" => x = 0
      BY <2>4 DEF NumberOrPercent, Number
    <2>6. SentDiscount800(d, invoice.lines) =
              IF ~d.reason \/ d.value = "" THEN 0
              ELSE IF d.mode = "percent" THEN base * x
              ELSE 400 * y
      BY <1>4, <2>2, <2>4 DEF SentDiscount800
    <2>7. Shows(d) = IF ~d.reason THEN 0 ELSE IF d.mode = "percent" THEN base * x ELSE 400 * x
      BY <2>4
    <2>8. base * x \in Int /\ 400 * x \in Int
          /\ (x = 0 => base * x = 0 /\ 400 * x = 0)
      OBVIOUS
    <2>9. d.mode # "percent" => d.value # "5%" /\ y = Number(d.value)
      BY <1>1, <2>4 DEF Discounts, Previewable
    <2> HIDE DEF Shows
    <2>10. Shows(d) \in Int /\ SentDiscount800(d, invoice.lines) = Shows(d)
      <3>1. CASE ~d.reason
        BY <3>1, <2>6, <2>7
      <3>2. CASE d.reason /\ d.value = ""
        <4>1. x = 0 /\ base * x = 0 /\ 400 * x = 0
          BY <3>2, <2>5, <2>8, Zenon
        <4>2. Shows(d) = 0 /\ SentDiscount800(d, invoice.lines) = 0
          BY <3>2, <4>1, <2>6, <2>7, Zenon
        <4>3. QED
          BY <4>2
      <3>3. CASE d.reason /\ d.value # "" /\ d.mode = "percent"
        BY <3>3, <2>6, <2>7, <2>8
      <3>4. CASE d.reason /\ d.value # "" /\ d.mode # "percent"
        BY <3>4, <2>5, <2>6, <2>7, <2>8, <2>9
      <3>5. QED
        BY <3>1, <3>2, <3>3, <3>4
    <2>11. QED
      BY <2>4, <2>10
  <1>6. \A i \in 1 .. n : shown[i] = Shows(ds[i]) /\ sent[i] = SentDiscount800(ds[i], invoice.lines)
    BY <1>1
  <1>7. shown = sent
    BY <1>1, <1>5
  <1> HIDE DEF shown, sent, Shows, n
  <1>8. Total(shown, n) \in Int
    BY <1>1, <1>5, <1>6, TotalIsInt
  <1>9. invoice.docType = "credit-note" => Total(shown, n) = 0
    <2>1. invoice.docType = "credit-note" => n = 0
      BY <1>1, <1>4
    <2>2. QED
      BY <2>1, TotalOfNone
  <1>10. QED
    BY <1>2, <1>7, <1>8, <1>9

\* The VAT of lines of one rate is that rate of their net.
LEMMA VatOfOneRate ==
    ASSUME FormInv, Cardinality({invoice.lines[i].vatRate : i \in DOMAIN invoice.lines}) = 1
    PROVE  \E p \in {0, 7, 19} :
               /\ Percent(DiscountTax(invoice.lines, invoice.reverse)) = p
               /\ PreviewLinesVat(invoice) = p * PreviewLinesNet(invoice)
  <1> DEFINE ls == invoice.lines
             n == Len(ls)
             rates == {ls[i].vatRate : i \in DOMAIN ls}
             net == [i \in DOMAIN ls |-> LineNet(ls[i])]
             vat == [i \in DOMAIN ls |-> LineVat(ls[i], invoice.reverse)]
  <1>1. n \in Nat /\ DOMAIN ls = 1 .. n /\ invoice.reverse \in BOOLEAN
    BY LenProperties DEF FormInv, Numbered
  <1>2. PICK rate : rates = {rate}
    <2>1. rates \subseteq {"19", "7"} \cup {"0", "reverse-charge"}
      <3>1. \A i \in DOMAIN ls : ls[i] \in Lines
        BY <1>1 DEF FormInv, Numbered
      <3>2. \A l \in Lines : l.vatRate \in {"19", "7"} \cup {"0", "reverse-charge"}
        BY DEF Lines
      <3>3. QED
        BY <3>1, <3>2
    <2>2. IsFiniteSet({"19", "7"} \cup {"0", "reverse-charge"})
      <3>1. IsFiniteSet({"19"} \cup {"7"}) /\ IsFiniteSet({"0"} \cup {"reverse-charge"})
        BY FS_Singleton, FS_Union
      <3>2. /\ {"19"} \cup {"7"} = {"19", "7"}
            /\ {"0"} \cup {"reverse-charge"} = {"0", "reverse-charge"}
        OBVIOUS
      <3>3. QED
        BY <3>1, <3>2, FS_Union
    <2>3. Cardinality(rates) = 1
      OBVIOUS
    <2> HIDE DEF rates
    <2>4. QED
      BY <2>1, <2>2, <2>3, FS_Subset, FS_Singleton
  <1> DEFINE p == VatPercent(rate, invoice.reverse)
  <1>3. p \in {0, 7, 19}
    BY <1>1, TaxOfLine
  <1>4. Percent(DiscountTax(ls, invoice.reverse)) = p
    BY <1>1, <1>2, TaxOfDiscount
  <1>5. ASSUME NEW i \in 1 .. n
        PROVE  net[i] \in Int /\ vat[i] = p * net[i]
    <2>1. ls[i].vatRate = rate
      BY <1>1, <1>2
    <2>2. Number(ls[i].quantity) \in Int /\ Number(ls[i].price) \in Int
      BY NumbersAre
    <2>3. net[i] = Number(ls[i].quantity) * Number(ls[i].price)
      BY <1>1 DEF LineNet
    <2>4. vat[i] = Number(ls[i].quantity) * Number(ls[i].price) * p
      BY <1>1, <2>1 DEF LineVat
    <2> HIDE DEF p, net, vat
    <2>5. \A x, y \in Int : x * y \in Int /\ x * y * p = p * (x * y)
      BY <1>3
    <2>6. QED
      BY <2>2, <2>3, <2>4, <2>5
  <1>6. PreviewLinesNet(invoice) = Total(net, n) /\ PreviewLinesVat(invoice) = Total(vat, n)
    BY DEF PreviewLinesNet, PreviewLinesVat, SumOver, LineNet, LineVat
  <1> HIDE DEF net, vat, n, p
  <1>p. p \in {-1, 0, 4, 7, 19}
    BY <1>3
  <1>7. Total(vat, n) = p * Total(net, n)
    BY <1>1, <1>p, <1>5, TotalScales
  <1>8. QED
    BY <1>3, <1>4, <1>6, <1>7

LEMMA FormPreviewAgrees ==
    ASSUME FormInv
    PROVE  PreviewAgrees
  <1> DEFINE sign == SignOf(invoice.docType)
             net == PreviewLinesNet(invoice)
             vat == PreviewLinesVat(invoice)
             discount == PreviewDiscount800(invoice)
             rate == Percent(DiscountTax(invoice.lines, invoice.reverse))
             oneRate == Cardinality({invoice.lines[i].vatRate : i \in DOMAIN invoice.lines}) = 1
  <1>1. SUFFICES ASSUME Previewable(invoice)
                 PROVE  /\ DocumentNet800(invoice) = sign * PreviewNet800(invoice)
                        /\ oneRate \/ discount = 0 =>
                              DocumentVat800(invoice) * net = sign * vat * PreviewNet800(invoice)
    BY DEF PreviewAgrees, SignOf
  <1>2. net \in Int /\ vat \in Int /\ discount \in Int
    BY <1>1, LinesAgree, DiscountsAgree
  <1>3. DocumentNet800(invoice) = 200 * (sign * net) - discount
    BY <1>1, LinesAgree, DiscountsAgree DEF DocumentNet800
  <1>4. DocumentVat800(invoice) = 200 * (sign * vat) - discount * rate
    BY <1>1, LinesAgree, DiscountsAgree DEF DocumentVat800
  <1>5. PreviewNet800(invoice) = 200 * net - discount
    BY DEF PreviewNet800
  <1>6. sign \in {-1, 1} /\ (sign = -1 => discount = 0)
    BY <1>1, DiscountsAgree DEF SignOf
  <1>7. rate \in {0, 7, 19}
    BY DEF Percent
  <1>8. oneRate => vat = rate * net
    BY VatOfOneRate
  <1> HIDE DEF sign, net, vat, discount, rate, oneRate
  <1>9. DocumentNet800(invoice) = sign * PreviewNet800(invoice)
    BY <1>2, <1>3, <1>5, <1>6
  <1>10. ASSUME discount = 0
         PROVE  DocumentVat800(invoice) * net = sign * vat * PreviewNet800(invoice)
    <2>1. DocumentVat800(invoice) = 200 * (sign * vat) /\ PreviewNet800(invoice) = 200 * net
      BY <1>2, <1>4, <1>5, <1>6, <1>7, <1>10
    <2>2. 200 * (sign * vat) * net = sign * vat * (200 * net)
      BY <1>2, <1>6
    <2>3. QED
      BY <2>1, <2>2
  <1>11. ASSUME oneRate, sign = 1
         PROVE  DocumentVat800(invoice) * net = sign * vat * PreviewNet800(invoice)
    <2>1. vat = rate * net
      BY <1>8, <1>11
    <2>2. DocumentVat800(invoice) = rate * (200 * net - discount)
      BY <1>2, <1>4, <1>7, <1>11, <2>1
    <2>3. \A x \in Int : rate * x * net = 1 * (rate * net) * x
      BY <1>2, <1>7
    <2>4. QED
      BY <1>2, <1>5, <1>11, <2>1, <2>2, <2>3
  <1>12. QED
    BY <1>6, <1>9, <1>10, <1>11

-----------------------------------------------------------------------------
\* Whatever is typed and clicked, and whenever, the form keeps its fields and
\* their types, and no row has an id later than the click that added it.
THEOREM FormKeepsItsFields == FormSpec => []FormInv
  BY FormInvInit, FormInvStep, PTL DEF FormSpec

\* gobl.ts, hintUStIdNr: of every VAT id that can be typed and passes the check,
\* every change of one digit is reported.
THEOREM OneWrongDigitIsReported == FormSpec => []VatIdErrorsCaught
  <1>1. FormInv => VatIdErrorsCaught
    BY OneErrorIsCaught DEF FormInv, VatIdErrorsCaught, Digits
  <1>2. QED
    BY <1>1, FormKeepsItsFields, PTL

\* gobl.ts, toGobl: whatever boxes, menus and fields were used in whatever order,
\* nothing the page hides is in the document, a default only in the place of an
\* empty field, and nothing the page shows is missing.
THEOREM HiddenFieldsAreNotSent == FormSpec => []DocumentIsWhatIsShown
  <1>1. FormInv => DocumentIsWhatIsShown
    BY DEF FormInv, DocumentIsWhatIsShown, Sent, PartySent, PaymentSent, OrderingSent,
           PrecedingSent, Defaults, Shown, PartyShown, PaymentShown, ReferencesShown, PeriodShown,
           PrecedingShown, TextFields, DocTypes
  <1>2. QED
    BY <1>1, FormKeepsItsFields, PTL

\* NewInvoicePage.tsx, addLine, updateLine, removeLine and the discounts' own: in
\* whatever order rows are added, changed and removed, and however many, a line is
\* always left and each row keeps an id of its own, unless two were added in one
\* millisecond.
THEOREM RowsHaveTheirIds == FormSpec => []LinesWellFormed
  <1>1. FormInv => LinesWellFormed
    BY DEF FormInv, Numbered, LinesWellFormed
  <1>2. QED
    BY <1>1, FormKeepsItsFields, PTL

\* The form's types, whatever is typed.
THEOREM FormTypes == FormSpec => []FormTypeOK
  <1>1. FormInv => FormTypeOK
    BY DEF FormInv, Numbered, FormTypeOK, Digits
  <1>2. QED
    BY <1>1, FormKeepsItsFields, PTL
\* gobl.ts, previewTotals against toGobl: for any lines and discounts the preview
\* shows the net and the VAT that the document has, where it can know them and no
\* fraction of a cent is rounded.
THEOREM PreviewIsTheDocument == FormSpec => []PreviewAgrees
  <1>1. FormInv => PreviewAgrees
    BY FormPreviewAgrees
  <1>2. QED
    BY <1>1, FormKeepsItsFields, PTL
=============================================================================
