-------------------------- MODULE ProviderStackProofs --------------------------
(***************************************************************************)
(* The stack of providers is right for every image, every block size and   *)
(* every request.  The proof goes from the bottom of the stack to its top: *)
(* Right and Ready say what a layer promises, each kind of layer is shown  *)
(* to keep the promise of the one below it, and the stacks are put         *)
(* together from these lemmas as createProvider puts them together.        *)
(***************************************************************************)
EXTENDS ProviderStack, Sha256Provider, FiniteSetTheorems, TLAPS

\* Rounding down to a multiple of a block size.
LEMMA DownFacts ==
  ASSUME NEW n \in Nat, NEW a \in Nat \ {0}
  PROVE  /\ AlignDown(n, a) \in Nat /\ AlignDown(n, a) % a = 0
         /\ AlignDown(n, a) <= n /\ n < AlignDown(n, a) + a
  BY DEF AlignDown

\* Rounding up is rounding down from one less than a block further.
LEMMA UpIsDown ==
  ASSUME NEW n \in Nat, NEW a \in Nat \ {0}
  PROVE  AlignUp(n, a) = AlignDown(n + a - 1, a)
  BY DEF AlignDown, AlignUp

\* Rounding up to a multiple of a block size.
LEMMA UpFacts ==
  ASSUME NEW n \in Nat, NEW a \in Nat \ {0}
  PROVE  /\ AlignUp(n, a) \in Nat /\ AlignUp(n, a) % a = 0
         /\ n <= AlignUp(n, a) /\ AlignUp(n, a) < n + a
  <1>1. n + a - 1 \in Nat
    OBVIOUS
  <1>2. QED
    BY <1>1, UpIsDown, DownFacts

\* A multiple of a is n * a for some n, and the other way round.
LEMMA Quotient ==
  ASSUME NEW a \in Nat \ {0}, NEW m \in Nat, m % a = 0
  PROVE  \E k \in Nat : m = k * a
  <1>1. m = (m \div a) * a /\ m \div a \in Nat
    OBVIOUS
  <1>2. QED
    BY <1>1

\* A product is a multiple of its factor.
LEMMA ProductIsMultiple ==
  ASSUME NEW a \in Nat \ {0}, NEW k \in Nat
  PROVE  (k * a) % a = 0
  <1>1. PICK q \in Int, r \in 0 .. a - 1 : r = (k * a) % a /\ k * a = q * a + r
    <2> DEFINE m == k * a
    <2>1. m \in Nat
      OBVIOUS
    <2> HIDE DEF m
    <2>2. m % a \in 0 .. a - 1
      BY <2>1
    <2>3. m \div a \in Int
      BY <2>1
    <2>4. m = (m \div a) * a + (m % a)
      BY <2>1
    <2>5. QED
      BY <2>2, <2>3, <2>4 DEF m
  <1>2. r = (k - q) * a
    BY <1>1
  <1>3. k - q >= 1 => (k - q) * a >= a
    BY <1>1
  <1>4. k - q <= -1 => (k - q) * a <= -a
    BY <1>1
  <1>5. k = q
    BY <1>1, <1>2, <1>3, <1>4
  <1>6. QED
    BY <1>1, <1>2, <1>5

\* Between two multiples lies a whole block.
LEMMA MultipleGap ==
  ASSUME NEW a \in Nat \ {0}, NEW m \in Nat, NEW n \in Nat, m % a = 0, n % a = 0, m < n
  PROVE  m + a <= n
  <1>1. PICK k \in Nat : m = k * a
    BY Quotient
  <1>2. PICK l \in Nat : n = l * a
    BY Quotient
  <1>3. k + 1 <= l
    BY <1>1, <1>2
  <1>4. (k + 1) * a <= l * a
    BY <1>3
  <1>5. QED
    BY <1>1, <1>2, <1>4

\* The sum of two multiples is one.
LEMMA MultipleSum ==
  ASSUME NEW a \in Nat \ {0}, NEW m \in Nat, NEW n \in Nat, m % a = 0, n % a = 0
  PROVE  (m + n) % a = 0
  <1>1. PICK k \in Nat : m = k * a
    BY Quotient
  <1>2. PICK l \in Nat : n = l * a
    BY Quotient
  <1>3. m + n = (k + l) * a /\ k + l \in Nat
    BY <1>1, <1>2
  <1>4. QED
    BY <1>3, ProductIsMultiple

\* So is their difference.
LEMMA MultipleDifference ==
  ASSUME NEW a \in Nat \ {0}, NEW m \in Nat, NEW n \in Nat, m % a = 0, n % a = 0, m <= n
  PROVE  n - m \in Nat /\ (n - m) % a = 0
  <1>1. PICK k \in Nat : m = k * a
    BY Quotient
  <1>2. PICK l \in Nat : n = l * a
    BY Quotient
  <1>3. k > l => k * a > l * a
    <2>1. k - l > 0 => (k - l) * a > 0
      OBVIOUS
    <2>2. QED
      BY <2>1
  <1>4. n - m = (l - k) * a /\ l - k \in Nat
    BY <1>1, <1>2, <1>3
  <1>5. QED
    BY <1>4, ProductIsMultiple

\* A multiple of a multiple.
LEMMA MultipleOfMultiple ==
  ASSUME NEW a \in Nat \ {0}, NEW b \in Nat \ {0}, NEW n \in Nat, b % a = 0, n % b = 0
  PROVE  n % a = 0
  <1>1. PICK k \in Nat : b = k * a
    BY Quotient
  <1>2. PICK l \in Nat : n = l * b
    BY Quotient
  <1>3. n = (l * k) * a /\ l * k \in Nat
    BY <1>1, <1>2
  <1>4. QED
    BY <1>3, ProductIsMultiple

\* Rounding down keeps the order.
LEMMA DownMonotone ==
  ASSUME NEW a \in Nat \ {0}, NEW m \in Nat, NEW n \in Nat, m <= n
  PROVE  AlignDown(m, a) <= AlignDown(n, a)
  BY DownFacts, MultipleGap

\* All positions of a block are rounded down to where it begins.
LEMMA DownOfMultiple ==
  ASSUME NEW a \in Nat \ {0}, NEW b \in Nat, NEW n \in Nat, b % a = 0, b <= n, n < b + a
  PROVE  AlignDown(n, a) = b
  <1>1. AlignDown(n, a) >= b
    <2>1. SUFFICES ASSUME AlignDown(n, a) < b PROVE FALSE
      BY DownFacts
    <2>2. AlignDown(n, a) + a <= b
      BY <2>1, DownFacts, MultipleGap
    <2>3. QED
      BY <2>2, DownFacts
  <1>2. AlignDown(n, a) <= b
    <2>1. SUFFICES ASSUME b < AlignDown(n, a) PROVE FALSE
      BY DownFacts
    <2>2. b + a <= AlignDown(n, a)
      BY <2>1, DownFacts, MultipleGap
    <2>3. QED
      BY <2>2, DownFacts
  <1>3. QED
    BY <1>1, <1>2, DownFacts

-----------------------------------------------------------------------------
\* The bytes are the d bytes of truth from offset on.
Part(bytes, truth, offset, d) == bytes = [i \in 0 .. d - 1 |-> truth[offset + i]]

\* How much a part is, from what it holds.
LEMMA PartFacts ==
  ASSUME NEW bytes, NEW truth, NEW offset, NEW d \in Nat, Part(bytes, truth, offset, d)
  PROVE  /\ DOMAIN bytes = 0 .. d - 1
         /\ Delivered(bytes) = d
         /\ bytes = Fails <=> d = 0
  <1>1. DOMAIN bytes = 0 .. d - 1
    BY DEF Part
  <1>2. Delivered(bytes) = d
    BY <1>1, FS_Interval DEF Delivered
  <1>3. d = 0 => bytes = Fails
    BY DEF Part, Fails
  <1>4. d # 0 => bytes # Fails
    BY <1>1 DEF Fails
  <1>5. QED
    BY <1>1, <1>2, <1>3, <1>4

\* A read delivers what belongs at the positions it was asked for, and is only short of
\* it where the layer ends, or fails.
Answers(read, total, truth, size, offset) ==
  \E d \in 0 .. size :
    /\ Part(read[size][offset], truth, offset, d)
    /\ d = 0 \/ d = size \/ offset + d >= total

\* The truth is what belongs at each position of a layer, the end of which is total.
Right(read, total, truth) ==
  \A size, offset \in Nat : Answers(read, total, truth, size, offset)

\* All that was asked for, zeros behind the end included, or nothing.
AllOrNothing(read) ==
  \A size, offset \in Nat :
    read[size][offset] = Fails \/ Delivered(read[size][offset]) = size

\* Nothing from behind the end.
NeverPast(read, total) ==
  \A size, offset \in Nat :
    read[size][offset] = Fails \/ offset + Delivered(read[size][offset]) <= total

\* A layer that is not filled up with zeros.
Exact(read, total, truth) == Right(read, total, truth) /\ NeverPast(read, total)

\* Requests, each a size and an offset.
Everything == {r \in Nat \X Nat : r[1] > 0}
Inside(total) == {r \in Everything : r[2] + r[1] <= total}
Multiples(a) == {r \in Everything : r[1] % a = 0 /\ r[2] % a = 0}
OneBlock(block) == {r \in Everything : r[1] = block /\ r[2] % block = 0}

\* A layer refuses none of the requests of `asked` that begin before the end
\* and want only positions of `good`.
Ready(read, total, asked, good) ==
  \A size, offset \in Nat :
    /\ <<size, offset>> \in asked /\ offset < total
    /\ \A p \in offset .. offset + size - 1 : p < total => p \in good
    => read[size][offset] # Fails

\* The positions whose whole block is good, as far as it goes.
Around(good, total, block) ==
  {p \in Nat : \A q \in Nat :
     q < total /\ AlignDown(q, block) = AlignDown(p, block) => q \in good}

\* A refusal is never wrong.
LEMMA RefusedIsRight ==
  ASSUME NEW read, NEW total, NEW truth, NEW size \in Nat, NEW offset \in Nat,
         read[size][offset] = Fails
  PROVE  Answers(read, total, truth, size, offset)
  <1>1. Part(Fails, truth, offset, 0)
    BY DEF Part, Fails
  <1>2. QED
    BY <1>1 DEF Answers

\* Only the bytes before the end are told.
LEMMA SameTruth ==
  ASSUME NEW read, NEW total \in Nat, NEW truth, Right(read, total, truth), NeverPast(read, total),
         NEW other, \A p \in Nat : p < total => truth[p] = other[p]
  PROVE  Right(read, total, other)
  <1> SUFFICES ASSUME NEW size \in Nat, NEW offset \in Nat
               PROVE  Answers(read, total, other, size, offset)
    BY DEF Right
  <1>1. PICK d \in 0 .. size : /\ Part(read[size][offset], truth, offset, d)
                               /\ d = 0 \/ d = size \/ offset + d >= total
    BY DEF Right, Answers
  <1>2. d = 0 \/ offset + d <= total
    BY <1>1, PartFacts DEF NeverPast
  <1>3. ASSUME NEW i \in 0 .. d - 1 PROVE truth[offset + i] = other[offset + i]
    <2>1. offset + i \in Nat /\ offset + i < total
      BY <1>2
    <2>2. QED
      BY <2>1
  <1>4. Part(read[size][offset], other, offset, d)
    BY <1>1, <1>3 DEF Part
  <1>5. QED
    BY <1>1, <1>4 DEF Answers

\* The smaller of two numbers.
LEMMA LeastFacts ==
  ASSUME NEW a \in Int, NEW b \in Int
  PROVE  /\ Least(a, b) \in {a, b} /\ Least(a, b) <= a /\ Least(a, b) <= b
  BY DEF Least

\* CacheProvider is right over a layer that is, and fills up what it delivers.
LEMMA CacheRight ==
  ASSUME NEW total \in Nat, NEW truth, \A p \in Nat : p >= total => truth[p] = Zero,
         NEW blockSize \in Nat \ {0}, NEW inner, Right(inner, total, truth)
  PROVE  /\ Right(CacheRead(inner, total, blockSize), total, truth)
         /\ AllOrNothing(CacheRead(inner, total, blockSize))
  <1> SUFFICES ASSUME NEW size \in Nat, NEW offset \in Nat
               PROVE  /\ Answers(CacheRead(inner, total, blockSize), total, truth, size, offset)
                      /\ \/ CacheRead(inner, total, blockSize)[size][offset] = Fails
                         \/ Delivered(CacheRead(inner, total, blockSize)[size][offset]) = size
    BY DEF Right, AllOrNothing
  <1> DEFINE block == Least(blockSize, MaxCache)
             readSize == Least(size, total - offset)
             touched == {b \in AlignDown(offset, block) .. offset + readSize - 1 : b % block = 0}
             got == [b \in touched |-> inner[block][b]]
             Served(b) == IF b >= offset /\ b + block <= offset + readSize
                            THEN Delivered(got[b]) = block
                            ELSE got[b] # Fails
             Byte(p) == LET b == AlignDown(p, block)
                        IN IF p < offset + readSize /\ p - b \in DOMAIN got[b]
                           THEN got[b][p - b] ELSE Zero
             refused == size = 0 \/ offset >= total \/ \E b \in touched : ~ Served(b)
  <1>1. CacheRead(inner, total, blockSize)[size][offset] =
          IF refused THEN Fails ELSE [i \in 0 .. size - 1 |-> Byte(offset + i)]
    BY DEF CacheRead
  <1>2. CASE refused
    BY <1>1, <1>2, RefusedIsRight
  <1>3. CASE ~ refused
    <2>1. block \in Nat \ {0} /\ readSize \in Nat /\ readSize <= total - offset
      BY <1>3, StackAssumption, LeastFacts
    <2>2. ASSUME NEW i \in 0 .. size - 1 PROVE Byte(offset + i) = truth[offset + i]
      <3> DEFINE p == offset + i
                 b == AlignDown(p, block)
      <3> HIDE DEF block, readSize, touched, got, Served
      <3>1. p \in Nat /\ b \in Nat /\ b % block = 0 /\ b <= p /\ p < b + block
        BY <2>1, DownFacts
      <3>2. CASE p >= offset + readSize
        <4>1. readSize = total - offset
          BY <3>2, <2>1, LeastFacts DEF readSize
        <4>2. p >= total /\ ~ (p < offset + readSize)
          BY <4>1, <3>2, <3>1, <2>1
        <4>3. Byte(p) = Zero
          BY <4>2
        <4>4. QED
          BY <4>2, <4>3, <3>1
      <3>3. CASE p < offset + readSize
        <4>1. AlignDown(offset, block) <= b /\ AlignDown(offset, block) \in Nat
          BY <2>1, DownMonotone, DownFacts
        <4>2. b \in touched
          BY <3>1, <3>3, <4>1, <2>1 DEF touched
        <4>3. got[b] = inner[block][b]
          BY <4>2 DEF got
        <4>4. PICK d \in 0 .. block : /\ Part(inner[block][b], truth, b, d)
                                      /\ d = 0 \/ d = block \/ b + d >= total
          BY <2>1, <3>1 DEF Right, Answers
        <4>5. d # 0
          <5>1. Served(b)
            BY <1>3, <4>2
          <5>2. got[b] # Fails
            BY <5>1, <4>3, <4>4, <2>1, PartFacts DEF Served
          <5>3. QED
            BY <5>2, <4>3, <4>4, PartFacts
        <4>6. p - b \in 0 .. d - 1
          BY <4>4, <4>5, <3>1, <3>3, <2>1
        <4>7. got[b][p - b] = truth[b + (p - b)] /\ p - b \in DOMAIN got[b]
          BY <4>3, <4>4, <4>6 DEF Part
        <4>8. QED
          BY <4>7, <3>1, <3>3
      <3>4. QED
        BY <3>1, <3>2, <3>3, <2>1
    <2>3. Part(CacheRead(inner, total, blockSize)[size][offset], truth, offset, size)
      BY <1>1, <1>3, <2>2 DEF Part
    <2>4. QED
      BY <2>3, PartFacts DEF Answers
  <1>4. QED
    BY <1>2, <1>3

\* CacheProvider serves what lies in blocks that the layer below serves.
LEMMA CacheReady ==
  ASSUME NEW total \in Nat, NEW truth, NEW blockSize \in Nat \ {0}, NEW block,
         block = Least(blockSize, MaxCache), NEW inner, Right(inner, total, truth),
         NEW good, Ready(inner, total, OneBlock(block), good)
  PROVE  Ready(CacheRead(inner, total, blockSize), total, Everything, Around(good, total, block))
  <1> SUFFICES ASSUME NEW size \in Nat, NEW offset \in Nat, size > 0, offset < total,
                      \A p \in offset .. offset + size - 1 :
                        p < total => p \in Around(good, total, block)
               PROVE  CacheRead(inner, total, blockSize)[size][offset] # Fails
    BY DEF Ready, Everything
  <1> DEFINE readSize == Least(size, total - offset)
             touched == {b \in AlignDown(offset, block) .. offset + readSize - 1 : b % block = 0}
             got == [b \in touched |-> inner[block][b]]
             Served(b) == IF b >= offset /\ b + block <= offset + readSize
                            THEN Delivered(got[b]) = block
                            ELSE got[b] # Fails
             Byte(p) == LET b == AlignDown(p, block)
                        IN IF p < offset + readSize /\ p - b \in DOMAIN got[b]
                           THEN got[b][p - b] ELSE Zero
             refused == size = 0 \/ offset >= total \/ \E b \in touched : ~ Served(b)
  <1>1. CacheRead(inner, total, blockSize)[size][offset] =
          IF refused THEN Fails ELSE [i \in 0 .. size - 1 |-> Byte(offset + i)]
    BY DEF CacheRead
  <1>2. /\ block \in Nat \ {0} /\ readSize \in Nat \ {0}
        /\ readSize <= total - offset /\ readSize <= size
    BY StackAssumption, LeastFacts
  <1> HIDE DEF readSize
  <1>3. ASSUME NEW b \in touched PROVE Served(b)
    <2>1. /\ b \in Nat /\ b % block = 0
          /\ AlignDown(offset, block) <= b /\ b < offset + readSize
          /\ offset < b + block
      <3>1. AlignDown(offset, block) \in Nat /\ offset < AlignDown(offset, block) + block
        BY <1>2, DownFacts
      <3>2. QED
        BY <1>2, <3>1
    <2>2. PICK p \in offset .. offset + readSize - 1 : AlignDown(p, block) = b
      <3>1. CASE b >= offset
        <4>1. AlignDown(b, block) = b
          BY <1>2, <2>1, DownOfMultiple
        <4>2. QED
          BY <1>2, <2>1, <3>1, <4>1
      <3>2. CASE b < offset
        <4>1. AlignDown(offset, block) = b
          BY <1>2, <2>1, <3>2, DownOfMultiple
        <4>2. QED
          BY <1>2, <4>1
      <3>3. QED
        BY <2>1, <3>1, <3>2
    <2>3. p \in Around(good, total, block)
      BY <1>2
    <2>4. ASSUME NEW q \in b .. b + block - 1, q < total PROVE q \in good
      <3>1. q \in Nat /\ AlignDown(q, block) = b
        BY <1>2, <2>1, DownOfMultiple
      <3>2. QED
        BY <2>2, <2>3, <2>4, <3>1 DEF Around
    <2>5. inner[block][b] # Fails
      <3>1. <<block, b>> \in OneBlock(block)
        BY <1>2, <2>1 DEF OneBlock, Everything
      <3>2. b < total
        BY <1>2, <2>1
      <3>3. QED
        BY <1>2, <2>1, <2>4, <3>1, <3>2 DEF Ready
    <2>6. PICK d \in 0 .. block : /\ Part(inner[block][b], truth, b, d)
                                  /\ d = 0 \/ d = block \/ b + d >= total
      BY <1>2, <2>1 DEF Right, Answers
    <2>7. d # 0 /\ Delivered(inner[block][b]) = d
      BY <1>2, <2>5, <2>6, PartFacts
    <2>8. b + block <= offset + readSize => d = block
      <3>1. offset + readSize <= total
        BY <1>2
      <3>2. d \in Nat /\ d <= block /\ (d = block \/ b + d >= total)
        BY <1>2, <2>6, <2>7
      <3> HIDE DEF touched, got
      <3>3. b \in Nat /\ block \in Nat /\ readSize \in Nat
        BY <1>2, <2>1
      <3>4. QED
        BY <3>1, <3>2, <3>3
    <2>9. got[b] = inner[block][b]
      OBVIOUS
    <2>10. QED
      BY <2>5, <2>7, <2>8, <2>9
  <1>4. ~ refused
    <2> HIDE DEF touched, Served
    <2>1. QED
      BY <1>3
  <1>5. DOMAIN [i \in 0 .. size - 1 |-> Byte(offset + i)] # {}
    <2> HIDE DEF Byte
    <2>1. 0 \in DOMAIN [i \in 0 .. size - 1 |-> Byte(offset + i)]
      OBVIOUS
    <2>2. QED
      BY <2>1
  <1>6. QED
    BY <1>1, <1>4, <1>5 DEF Fails

\* OffsetProvider shows its part of the provider below, and refuses nothing that lies
\* in it.
LEMMA OffsetRight ==
  ASSUME NEW innerTotal \in Nat, NEW start \in Nat, NEW length \in Nat, NEW total,
         total = OffsetSize(innerTotal, start, length),
         NEW inner, NEW truth, Right(inner, innerTotal, truth),
         NEW here, \A p \in Nat : p < total => here[p] = truth[start + p]
  PROVE  /\ total \in Nat
         /\ Exact(OffsetRead(inner, total, start), total, here)
         /\ Ready(inner, innerTotal, Inside(innerTotal), Nat) =>
              Ready(OffsetRead(inner, total, start), total, Everything, Nat)
  <1>1. /\ total \in Nat /\ total <= length
        /\ total = 0 \/ start + total <= innerTotal
    BY DEF OffsetSize, Least
  <1>2. ASSUME NEW size \in Nat, NEW offset \in Nat
        PROVE  /\ Answers(OffsetRead(inner, total, start), total, here, size, offset)
               /\ \/ OffsetRead(inner, total, start)[size][offset] = Fails
                  \/ offset + Delivered(OffsetRead(inner, total, start)[size][offset]) <= total
    <2> DEFINE n == Clamp(size, offset, total)
    <2>1. OffsetRead(inner, total, start)[size][offset] =
            IF n = 0 THEN Fails ELSE inner[n][start + offset]
      BY DEF OffsetRead
    <2>2. CASE n = 0
      BY <2>1, <2>2, RefusedIsRight
    <2>3. CASE n # 0
      <3>1. /\ n \in Nat /\ offset < total /\ n <= total - offset /\ n <= size
            /\ n = size \/ n = total - offset
        BY <2>3, <1>1 DEF Clamp, Least
      <3> HIDE DEF n
      <3>2. PICK d \in 0 .. n : /\ Part(inner[n][start + offset], truth, start + offset, d)
                                /\ d = 0 \/ d = n \/ start + offset + d >= innerTotal
        <4>1. start + offset \in Nat
          OBVIOUS
        <4>2. Answers(inner, innerTotal, truth, n, start + offset)
          BY <3>1, <4>1 DEF Right
        <4>3. QED
          BY <4>2 DEF Answers
      <3>3. d = 0 \/ d = n
        BY <3>1, <3>2, <1>1
      <3>4. [i \in 0 .. d - 1 |-> truth[start + offset + i]] =
              [i \in 0 .. d - 1 |-> here[offset + i]]
        <4>1. ASSUME NEW i \in 0 .. d - 1 PROVE truth[start + offset + i] = here[offset + i]
          <5>1. /\ offset + i \in Nat /\ offset + i < total
                /\ start + (offset + i) = start + offset + i
            BY <1>1, <3>1, <3>2, <3>3
          <5>2. QED
            BY <5>1
        <4>2. QED
          BY <4>1
      <3>5. Part(OffsetRead(inner, total, start)[size][offset], here, offset, d)
        BY <2>1, <2>3, <3>2, <3>4 DEF Part
      <3>6. d \in 0 .. size /\ (d = 0 \/ d = size \/ offset + d >= total)
        BY <1>1, <3>1, <3>2, <3>3
      <3>7. d = 0 \/ offset + d <= total
        BY <1>1, <3>1, <3>3
      <3>8. QED
        BY <3>5, <3>6, <3>7, PartFacts DEF Answers
    <2>4. QED
      BY <2>2, <2>3
  <1>3. ASSUME Ready(inner, innerTotal, Inside(innerTotal), Nat),
               NEW size \in Nat, NEW offset \in Nat, size > 0, offset < total
        PROVE  OffsetRead(inner, total, start)[size][offset] # Fails
    <2> DEFINE n == Least(size, total - offset)
    <2>1. /\ n \in Nat /\ n > 0 /\ n <= total - offset
          /\ OffsetRead(inner, total, start)[size][offset] = inner[n][start + offset]
      BY <1>1, <1>3 DEF OffsetRead, Clamp, Least
    <2> HIDE DEF n
    <2>2. /\ start + offset \in Nat /\ start + offset < innerTotal
          /\ start + offset + n <= innerTotal
      BY <1>1, <1>3, <2>1
    <2>3. <<n, start + offset>> \in Inside(innerTotal)
      BY <2>1, <2>2 DEF Inside, Everything
    <2>4. \A p \in start + offset .. start + offset + n - 1 : p \in Nat
      BY <2>2
    <2>5. inner[n][start + offset] # Fails
      BY <1>3, <2>1, <2>2, <2>3, <2>4 DEF Ready
    <2>6. QED
      BY <2>1, <2>5
  <1>4. Exact(OffsetRead(inner, total, start), total, here)
    BY <1>2 DEF Exact, Right, NeverPast
  <1>5. ASSUME Ready(inner, innerTotal, Inside(innerTotal), Nat)
        PROVE  Ready(OffsetRead(inner, total, start), total, Everything, Nat)
    BY <1>3, <1>5 DEF Ready, Everything
  <1>6. QED
    BY <1>1, <1>4, <1>5

\* AlignedProvider is right over a layer that is, and delivers all or nothing.
LEMMA AlignedRight ==
  ASSUME NEW total \in Nat, NEW truth, \A p \in Nat : p >= total => truth[p] = Zero,
         NEW align \in Nat \ {0}, NEW inner, Right(inner, total, truth)
  PROVE  /\ Right(AlignedRead(inner, total, align), total, truth)
         /\ AllOrNothing(AlignedRead(inner, total, align))
  <1> SUFFICES ASSUME NEW size \in Nat, NEW offset \in Nat
               PROVE  /\ Answers(AlignedRead(inner, total, align), total, truth, size, offset)
                      /\ \/ AlignedRead(inner, total, align)[size][offset] = Fails
                         \/ Delivered(AlignedRead(inner, total, align)[size][offset]) = size
    BY DEF Right, AllOrNothing
  <1> DEFINE aligned == AlignUp(offset, align)
             headSize == aligned - offset
             head == Least(size, headSize)
             bulk == AlignDown(size - head, align)
             tail == size - head - bulk
             Head == inner[align][aligned - align]
             Bulk == inner[bulk][aligned]
             Tail == inner[align][aligned + bulk]
             Byte(i) == IF i < head THEN Head[align - headSize + i]
                        ELSE IF i < head + bulk THEN Bulk[i - head]
                        ELSE Tail[i - head - bulk]
             refused == \/ size = 0 \/ offset >= total
                        \/ head > 0 /\ Delivered(Head) # align
                        \/ bulk > 0 /\ Delivered(Bulk) # bulk
                        \/ tail > 0 /\ Delivered(Tail) # align
  <1>1. AlignedRead(inner, total, align)[size][offset] =
          IF refused THEN Fails ELSE [i \in 0 .. size - 1 |-> Byte(i)]
    BY DEF AlignedRead
  <1>2. CASE refused
    BY <1>1, <1>2, RefusedIsRight
  <1>3. CASE ~ refused
    <2>1. /\ aligned \in Nat /\ aligned % align = 0 /\ headSize \in 0 .. align - 1
          /\ head \in Nat /\ head <= size /\ head <= headSize
          /\ head < size => head = headSize
      <3>1. /\ aligned \in Nat /\ aligned % align = 0
            /\ offset <= aligned /\ aligned < offset + align
        BY UpFacts
      <3> HIDE DEF aligned
      <3>2. headSize \in 0 .. align - 1
        BY <3>1
      <3> HIDE DEF headSize
      <3>3. /\ head \in {size, headSize} /\ head <= size /\ head <= headSize
        BY <3>2, LeastFacts
      <3>4. QED
        BY <3>1, <3>2, <3>3
    <2>2. /\ bulk \in Nat /\ bulk <= size - head /\ tail \in 0 .. align - 1
      <3> HIDE DEF aligned, headSize, head
      <3>1. size - head \in Nat
        BY <2>1
      <3>2. bulk \in Nat /\ bulk <= size - head /\ size - head < bulk + align
        BY <3>1, DownFacts
      <3> HIDE DEF bulk
      <3>3. QED
        BY <3>1, <3>2
    <2> HIDE DEF aligned, headSize, head, bulk, tail
    <2>3. ASSUME NEW n \in Nat, NEW o \in Nat, NEW i \in 0 .. n - 1, Delivered(inner[n][o]) = n
          PROVE  inner[n][o][i] = truth[o + i]
      <3>1. PICK d \in 0 .. n : Part(inner[n][o], truth, o, d)
        BY DEF Right, Answers
      <3>2. d = n
        BY <2>3, <3>1, PartFacts
      <3>3. QED
        BY <3>1, <3>2 DEF Part
    <2>4. ASSUME NEW i \in 0 .. size - 1 PROVE Byte(i) = truth[offset + i]
      <3>1. CASE i < head
        <4>1. aligned >= align
          <5>1. aligned # 0
            BY <3>1, <2>1 DEF head, headSize, Least
          <5>2. 0 % align = 0
            OBVIOUS
          <5>3. QED
            BY <5>1, <5>2, <2>1, MultipleGap
        <4>2. /\ aligned - align \in Nat /\ align - headSize + i \in 0 .. align - 1
              /\ (aligned - align) + (align - headSize + i) = offset + i
          BY <4>1, <3>1, <2>1 DEF headSize
        <4>3. Delivered(Head) = align
          BY <1>3, <3>1, <2>1
        <4>4. Head[align - headSize + i] = truth[(aligned - align) + (align - headSize + i)]
          BY <2>3, <4>2, <4>3
        <4>5. QED
          BY <3>1, <4>2, <4>4
      <3>2. CASE i >= head /\ i < head + bulk
        <4>1. i - head \in 0 .. bulk - 1 /\ aligned + (i - head) = offset + i
          BY <3>2, <2>1, <2>2 DEF headSize
        <4>2. Delivered(Bulk) = bulk
          BY <1>3, <3>2, <2>1, <2>2
        <4>3. Bulk[i - head] = truth[aligned + (i - head)]
          <5>1. bulk \in Nat /\ aligned \in Nat
            BY <2>1, <2>2
          <5>2. QED
            BY <2>3, <4>1, <4>2, <5>1
        <4>4. QED
          BY <3>2, <4>1, <4>3, <2>1, <2>2
      <3>3. CASE i >= head + bulk
        <4>1. /\ i - head - bulk \in 0 .. align - 1 /\ aligned + bulk \in Nat
              /\ aligned + bulk + (i - head - bulk) = offset + i /\ tail > 0
          BY <3>3, <2>1, <2>2 DEF headSize, tail
        <4>2. Delivered(Tail) = align
          BY <1>3, <4>1
        <4>3. Tail[i - head - bulk] = truth[aligned + bulk + (i - head - bulk)]
          BY <2>3, <4>1, <4>2
        <4>4. ~ (i < head) /\ ~ (i < head + bulk)
          BY <3>3, <2>1, <2>2
        <4>5. QED
          BY <4>1, <4>3, <4>4
      <3>4. QED
        BY <3>1, <3>2, <3>3, <2>1, <2>2
    <2>5. Part(AlignedRead(inner, total, align)[size][offset], truth, offset, size)
      BY <1>1, <1>3, <2>4 DEF Part
    <2>6. QED
      BY <2>5, PartFacts DEF Answers
  <1>4. QED
    BY <1>2, <1>3

\* AlignedProvider serves what lies in blocks that the layer below serves, as it only
\* asks for whole blocks around it.
LEMMA AlignedReady ==
  ASSUME NEW total \in Nat, NEW align \in Nat \ {0}, NEW inner, AllOrNothing(inner),
         NEW good, Ready(inner, total, Everything, good)
  PROVE  Ready(AlignedRead(inner, total, align), total, Inside(total), Around(good, total, align))
  <1> SUFFICES ASSUME NEW size \in Nat, NEW offset \in Nat, size > 0, offset + size <= total,
                      \A p \in offset .. offset + size - 1 :
                        p < total => p \in Around(good, total, align)
               PROVE  AlignedRead(inner, total, align)[size][offset] # Fails
    BY DEF Ready, Inside, Everything
  <1> DEFINE aligned == AlignUp(offset, align)
             headSize == aligned - offset
             head == Least(size, headSize)
             bulk == AlignDown(size - head, align)
             tail == size - head - bulk
             Head == inner[align][aligned - align]
             Bulk == inner[bulk][aligned]
             Tail == inner[align][aligned + bulk]
             Byte(i) == IF i < head THEN Head[align - headSize + i]
                        ELSE IF i < head + bulk THEN Bulk[i - head]
                        ELSE Tail[i - head - bulk]
             refused == \/ size = 0 \/ offset >= total
                        \/ head > 0 /\ Delivered(Head) # align
                        \/ bulk > 0 /\ Delivered(Bulk) # bulk
                        \/ tail > 0 /\ Delivered(Tail) # align
  <1>1. AlignedRead(inner, total, align)[size][offset] =
          IF refused THEN Fails ELSE [i \in 0 .. size - 1 |-> Byte(i)]
    BY DEF AlignedRead
  <1>2. /\ aligned \in Nat /\ aligned % align = 0
        /\ offset <= aligned /\ aligned < offset + align
    BY UpFacts
  <1> HIDE DEF aligned
  <1>3. /\ head \in Nat /\ head <= size /\ head <= headSize /\ headSize \in Nat
        /\ head < size => head = headSize
    BY <1>2, LeastFacts
  <1>4. /\ bulk \in Nat /\ bulk % align = 0 /\ bulk <= size - head
        /\ tail \in Nat /\ tail < align
    <2> HIDE DEF head, headSize
    <2>1. size - head \in Nat
      BY <1>3
    <2>2. /\ bulk \in Nat /\ bulk % align = 0 /\ bulk <= size - head
          /\ size - head < bulk + align
      BY <2>1, DownFacts
    <2> HIDE DEF bulk
    <2>3. QED
      BY <2>1, <2>2
  <1> HIDE DEF head, bulk, tail
  \* A read of good positions is answered in full.
  <1>5. ASSUME NEW n \in Nat \ {0}, NEW o \in Nat, o < total,
               \A q \in o .. o + n - 1 : q < total => q \in good
        PROVE  Delivered(inner[n][o]) = n
    <2>1. <<n, o>> \in Everything
      BY DEF Everything
    <2>2. inner[n][o] # Fails
      BY <1>5, <2>1 DEF Ready
    <2>3. QED
      BY <2>2 DEF AllOrNothing
  \* So is one of a whole block that a part is wanted of.
  <1>6. ASSUME NEW b \in Nat, b % align = 0, NEW p \in offset .. offset + size - 1,
               b <= p, p < b + align
        PROVE  Delivered(inner[align][b]) = align
    <2>1. p \in Nat /\ p < total /\ p \in Around(good, total, align)
      BY <1>6
    <2>2. AlignDown(p, align) = b
      BY <1>6, <2>1, DownOfMultiple
    <2>3. ASSUME NEW q \in b .. b + align - 1, q < total PROVE q \in good
      <3>1. q \in Nat /\ AlignDown(q, align) = b
        BY <1>6, DownOfMultiple
      <3>2. QED
        BY <2>1, <2>2, <2>3, <3>1 DEF Around
    <2>4. b < total
      BY <1>6, <2>1
    <2>5. QED
      BY <1>5, <2>3, <2>4
  <1>7. head > 0 => Delivered(Head) = align
    <2>1. SUFFICES ASSUME head > 0 PROVE Delivered(Head) = align
      OBVIOUS
    <2>2. aligned > 0 /\ offset < aligned
      BY <1>2, <1>3, <2>1
    <2>3. aligned - align \in Nat /\ (aligned - align) % align = 0
      <3>1. align <= aligned
        <4>1. 0 % align = 0
          OBVIOUS
        <4>2. QED
          BY <1>2, <2>2, <4>1, MultipleGap
      <3>2. align % align = 0
        OBVIOUS
      <3>3. QED
        BY <1>2, <3>1, <3>2, MultipleDifference
    <2>4. offset \in offset .. offset + size - 1
      OBVIOUS
    <2>5. aligned - align <= offset /\ offset < (aligned - align) + align
      BY <1>2, <2>2
    <2>6. QED
      BY <1>6, <2>3, <2>4, <2>5
  <1>8. bulk > 0 => Delivered(Bulk) = bulk
    <2>1. SUFFICES ASSUME bulk > 0 PROVE Delivered(Bulk) = bulk
      OBVIOUS
    <2>2. /\ aligned < total /\ aligned + bulk <= offset + size
      BY <1>2, <1>3, <1>4, <2>1
    <2>3. ASSUME NEW q \in aligned .. aligned + bulk - 1, q < total PROVE q \in good
      <3>1. q \in offset .. offset + size - 1 /\ q \in Nat
        BY <1>2, <1>4, <2>2
      <3>2. QED
        BY <2>3, <3>1 DEF Around
    <2>4. QED
      BY <1>2, <1>4, <1>5, <2>1, <2>2, <2>3
  <1>9. tail > 0 => Delivered(Tail) = align
    <2>1. SUFFICES ASSUME tail > 0 PROVE Delivered(Tail) = align
      OBVIOUS
    <2>2. aligned + bulk \in Nat /\ aligned + bulk \in offset .. offset + size - 1
      BY <1>2, <1>3, <1>4, <2>1 DEF tail
    <2>3. (aligned + bulk) % align = 0
      BY <1>2, <1>4, MultipleSum
    <2>4. QED
      BY <1>6, <2>2, <2>3
  <1>10. ~ refused
    <2> HIDE DEF Head, Bulk, Tail
    <2>1. QED
      BY <1>7, <1>8, <1>9
  <1>11. DOMAIN [i \in 0 .. size - 1 |-> Byte(i)] # {}
    <2> HIDE DEF Byte
    <2>1. 0 \in DOMAIN [i \in 0 .. size - 1 |-> Byte(i)]
      OBVIOUS
    <2>2. QED
      BY <2>1
  <1>12. QED
    BY <1>1, <1>10, <1>11 DEF Fails

\* Whole blocks go down as they come.
LEMMA AlignedReadyWhole ==
  ASSUME NEW total \in Nat, NEW align \in Nat \ {0}, NEW inner, AllOrNothing(inner),
         NEW good, Ready(inner, total, OneBlock(align), good)
  PROVE  Ready(AlignedRead(inner, total, align), total, OneBlock(align), good)
  <1> SUFFICES ASSUME NEW offset \in Nat, offset % align = 0, offset < total,
                      \A p \in offset .. offset + align - 1 : p < total => p \in good
               PROVE  AlignedRead(inner, total, align)[align][offset] # Fails
    BY DEF Ready, OneBlock, Everything
  <1> DEFINE aligned == AlignUp(offset, align)
             headSize == aligned - offset
             head == Least(align, headSize)
             bulk == AlignDown(align - head, align)
             tail == align - head - bulk
             Head == inner[align][aligned - align]
             Bulk == inner[bulk][aligned]
             Tail == inner[align][aligned + bulk]
             Byte(i) == IF i < head THEN Head[align - headSize + i]
                        ELSE IF i < head + bulk THEN Bulk[i - head]
                        ELSE Tail[i - head - bulk]
             refused == \/ align = 0 \/ offset >= total
                        \/ head > 0 /\ Delivered(Head) # align
                        \/ bulk > 0 /\ Delivered(Bulk) # bulk
                        \/ tail > 0 /\ Delivered(Tail) # align
  <1>1. AlignedRead(inner, total, align)[align][offset] =
          IF refused THEN Fails ELSE [i \in 0 .. align - 1 |-> Byte(i)]
    BY DEF AlignedRead
  <1>2. aligned = offset
    <2>1. AlignDown(offset + align - 1, align) = offset
      BY DownOfMultiple
    <2>2. QED
      BY <2>1, UpIsDown
  <1> HIDE DEF aligned
  <1>3. head = 0
    BY <1>2 DEF Least
  <1> HIDE DEF head
  <1>4. bulk = align
    <2>1. align % align = 0
      OBVIOUS
    <2>2. AlignDown(align, align) = align
      BY <2>1, DownOfMultiple
    <2>3. QED
      BY <1>3, <2>2
  <1> HIDE DEF bulk
  <1>5. tail = 0
    BY <1>3, <1>4
  <1>6. Delivered(Bulk) = bulk
    <2>1. <<align, offset>> \in OneBlock(align)
      BY DEF OneBlock, Everything
    <2>2. inner[align][offset] # Fails
      BY <2>1 DEF Ready
    <2>3. QED
      BY <1>2, <1>4, <2>2 DEF AllOrNothing
  <1>7. ~ refused
    <2> HIDE DEF Head, Tail, Bulk, tail
    <2>1. QED
      BY <1>3, <1>5, <1>6
  <1>8. DOMAIN [i \in 0 .. align - 1 |-> Byte(i)] # {}
    <2> HIDE DEF Byte
    <2>1. 0 \in DOMAIN [i \in 0 .. align - 1 |-> Byte(i)]
      OBVIOUS
    <2>2. QED
      BY <2>1
  <1>9. QED
    BY <1>1, <1>7, <1>8 DEF Fails

\* What is ready for much is ready for less.
LEMMA ReadyLess ==
  ASSUME NEW read, NEW total, NEW asked, NEW good, Ready(read, total, asked, good),
         NEW less, less \subseteq asked, NEW fewer, fewer \subseteq good
  PROVE  Ready(read, total, less, fewer)
  <1> SUFFICES ASSUME NEW size \in Nat, NEW offset \in Nat,
                      <<size, offset>> \in less, offset < total,
                      \A p \in offset .. offset + size - 1 : p < total => p \in fewer
               PROVE  read[size][offset] # Fails
    BY DEF Ready
  <1>1. <<size, offset>> \in asked /\ \A p \in offset .. offset + size - 1 : p < total => p \in good
    OBVIOUS
  <1>2. QED
    BY <1>1 DEF Ready

-----------------------------------------------------------------------------
\* What belongs at each position of the mapped file, the section and the data region,
\* altered bytes included.
MappedTruth == [p \in Nat |-> MappedByte(p)]
SectionTruth ==
  [p \in Nat |->
     IF p >= SectionSize THEN Zero
     ELSE IF image.section + p \in image.corrupt THEN Junk
     ELSE Plain(p)]
DataTruth ==
  [p \in Nat |-> IF p >= DataSize THEN Zero ELSE SectionTruth[image.data + p]]

\* The fields of an image, and how much of it there is.
LEMMA ImageFacts ==
  ASSUME image \in Images
  PROVE  /\ image.fileSize \in Nat /\ image.section \in Nat /\ image.sectionSize \in Nat
         /\ image.corrupt \subseteq Nat /\ image.encrypted \in BOOLEAN
         /\ image.hash \in {"none", "sha256", "ivfc"} /\ image.block \in Nat \ {0}
         /\ image.data \in Nat /\ image.dataSize \in Nat
         /\ image.section % AesBlock = 0
         /\ SectionSize \in Nat
         /\ image.section + SectionSize <= image.fileSize \/ SectionSize = 0
         /\ DataSize \in Nat /\ (image.data + DataSize <= SectionSize \/ DataSize = 0)
  <1>1. image \in AnyImage /\ image.section % AesBlock = 0
    BY StackAssumption
  <1>2. /\ image.fileSize \in Nat /\ image.section \in Nat /\ image.sectionSize \in Nat
        /\ image.corrupt \subseteq Nat /\ image.encrypted \in BOOLEAN
        /\ image.hash \in {"none", "sha256", "ivfc"} /\ image.block \in Nat \ {0}
        /\ image.data \in Nat /\ image.dataSize \in Nat
    BY <1>1 DEF AnyImage
  <1>3. SectionSize \in Nat /\ (image.section + SectionSize <= image.fileSize \/ SectionSize = 0)
    BY <1>2 DEF SectionSize, OffsetSize, Least
  <1>4. DataSize \in Nat /\ (image.data + DataSize <= SectionSize \/ DataSize = 0)
    BY <1>2, <1>3 DEF DataSize, OffsetSize, Least
  <1>5. QED
    BY <1>1, <1>2, <1>3, <1>4

\* The mapped file is right and refuses nothing that begins before its end.
LEMMA MappedRight ==
  ASSUME image \in Images
  PROVE  /\ Right(MappedRead, image.fileSize, MappedTruth)
         /\ Ready(MappedRead, image.fileSize, Everything, Nat)
  <1>1. image.fileSize \in Nat
    BY ImageFacts
  <1>2. ASSUME NEW size \in Nat, NEW offset \in Nat
        PROVE  /\ Answers(MappedRead, image.fileSize, MappedTruth, size, offset)
               /\ size > 0 /\ offset < image.fileSize => MappedRead[size][offset] # Fails
    <2> DEFINE d == Least(size, image.fileSize - offset)
    <2>1. MappedRead[size][offset] =
            IF size = 0 \/ offset >= image.fileSize THEN Fails
            ELSE [i \in 0 .. d - 1 |-> MappedByte(offset + i)]
      BY DEF MappedRead
    <2>2. CASE size = 0 \/ offset >= image.fileSize
      BY <1>1, <2>1, <2>2, RefusedIsRight
    <2>3. CASE ~ (size = 0 \/ offset >= image.fileSize)
      <3>1. d \in 0 .. size /\ d # 0 /\ (d = size \/ offset + d >= image.fileSize)
        BY <1>1, <2>3 DEF Least
      <3> HIDE DEF d
      <3>2. Part(MappedRead[size][offset], MappedTruth, offset, d)
        BY <2>1, <2>3, <3>1 DEF Part, MappedTruth
      <3>3. MappedRead[size][offset] # Fails
        BY <3>1, <3>2, PartFacts
      <3>4. QED
        BY <3>1, <3>2, <3>3 DEF Answers
    <2>4. QED
      BY <2>2, <2>3
  <1>3. QED
    BY <1>2 DEF Right, Ready, Everything

\* So is the section in it.
LEMMA SectionRight ==
  ASSUME image \in Images
  PROVE  /\ Right(SectionRead, SectionSize, [p \in Nat |-> MappedByte(image.section + p)])
         /\ NeverPast(SectionRead, SectionSize)
         /\ Ready(SectionRead, SectionSize, Everything, Nat)
  <1> DEFINE here == [p \in Nat |-> MappedByte(image.section + p)]
  <1>1. \A p \in Nat : p < SectionSize => here[p] = MappedTruth[image.section + p]
    BY ImageFacts DEF MappedTruth
  <1>2. Ready(MappedRead, image.fileSize, Inside(image.fileSize), Nat)
    BY MappedRight, ReadyLess DEF Inside
  <1>3. Right(MappedRead, image.fileSize, MappedTruth)
    BY MappedRight
  <1>4. SectionSize = OffsetSize(image.fileSize, image.section, image.sectionSize)
    BY DEF SectionSize
  <1>5. image.fileSize \in Nat /\ image.section \in Nat /\ image.sectionSize \in Nat
    BY ImageFacts
  <1> HIDE DEF here
  <1> DEFINE part == OffsetRead(MappedRead, SectionSize, image.section)
  <1>6. Exact(part, SectionSize, here)
    BY <1>1, <1>3, <1>4, <1>5, OffsetRight
  <1>7. Ready(part, SectionSize, Everything, Nat)
    BY <1>1, <1>2, <1>3, <1>4, <1>5, OffsetRight
  <1>8. QED
    BY <1>6, <1>7 DEF SectionRead, here, Exact

\* The bytes are told apart by their kind.
LEMMA Kinds ==
  /\ Zero # Junk
  /\ \A p : Plain(p) # Zero /\ Plain(p) # Junk /\ Cipher(p) # Junk /\ Cipher(p) # Zero
  /\ \A p, q : Cipher(p) = Cipher(q) => p = q
  /\ \A p, q : Plain(p) # Cipher(q)
  BY DEF Zero, Junk, Plain, Cipher

\* What is deciphered at its own place is what was enciphered.
LEMMA DecryptedFacts ==
  ASSUME image \in Images, image.encrypted, NEW p \in Nat, p < SectionSize
  PROVE  Decrypted(MappedByte(image.section + p), p) = SectionTruth[p]
  <1>1. AlignDown(image.section, AesBlock) = image.section
    <2>1. AesBlock \in Nat \ {0}
      BY StackAssumption
    <2>2. image.section \in Nat /\ image.section % AesBlock = 0
      BY ImageFacts
    <2>3. image.section < image.section + AesBlock
      BY <2>1, <2>2
    <2>4. QED
      BY <2>1, <2>2, <2>3, DownOfMultiple
  <1>2. CASE image.section + p \in image.corrupt
    BY <1>1, <1>2, ImageFacts, Kinds DEF MappedByte, Decrypted, SectionTruth
  <1>3. CASE image.section + p \notin image.corrupt
    BY <1>1, <1>3, ImageFacts DEF MappedByte, Decrypted, SectionTruth
  <1>4. QED
    BY <1>2, <1>3

\* AesCtrProvider is right, and serves every request of whole AES blocks.
LEMMA AesCtrRight ==
  ASSUME image \in Images, image.encrypted
  PROVE  /\ Right(AesCtrRead, SectionSize, SectionTruth)
         /\ Ready(AesCtrRead, SectionSize, Multiples(AesBlock), Nat)
  <1> DEFINE below == [p \in Nat |-> MappedByte(image.section + p)]
  <1>1. ASSUME NEW size \in Nat, NEW offset \in Nat
        PROVE  /\ Answers(AesCtrRead, SectionSize, SectionTruth, size, offset)
               /\ <<size, offset>> \in Multiples(AesBlock) /\ offset < SectionSize =>
                    AesCtrRead[size][offset] # Fails
    <2> DEFINE got == SectionRead[size][offset]
               refused == \/ offset >= SectionSize \/ size = 0
                          \/ offset % AesBlock # 0 \/ size % AesBlock # 0
                          \/ got = Fails
               bytes == [i \in 0 .. size - 1 |->
                           IF i \in DOMAIN got THEN Decrypted(got[i], offset + i) ELSE Zero]
    <2>1. AesCtrRead[size][offset] = IF refused THEN Fails ELSE bytes
      BY DEF AesCtrRead
    <2>2. CASE refused
      <3>1. Answers(AesCtrRead, SectionSize, SectionTruth, size, offset)
        BY <2>1, <2>2, RefusedIsRight
      <3>2. <<size, offset>> \in Multiples(AesBlock) /\ offset < SectionSize => got # Fails
        <4>1. SUFFICES ASSUME <<size, offset>> \in Multiples(AesBlock), offset < SectionSize
                       PROVE  got # Fails
          OBVIOUS
        <4>2. <<size, offset>> \in Everything
          BY <4>1 DEF Multiples
        <4>3. QED
          BY <4>1, <4>2, SectionRight DEF Ready
      <3>3. <<size, offset>> \in Multiples(AesBlock) =>
              size > 0 /\ size % AesBlock = 0 /\ offset % AesBlock = 0
        BY DEF Multiples, Everything
      <3>4. ~ (<<size, offset>> \in Multiples(AesBlock) /\ offset < SectionSize)
        BY <2>2, <3>2, <3>3, ImageFacts
      <3>5. QED
        BY <3>1, <3>4
    <2>3. CASE ~ refused
      <3>1. PICK d \in 0 .. size : /\ Part(got, below, offset, d)
                                   /\ d = 0 \/ d = size \/ offset + d >= SectionSize
        BY SectionRight DEF Right, Answers
      <3>2. d # 0 /\ DOMAIN got = 0 .. d - 1
        BY <2>3, <3>1, PartFacts
      <3>3. ASSUME NEW i \in 0 .. size - 1 PROVE bytes[i] = SectionTruth[offset + i]
        <4>1. SectionSize \in Nat /\ offset < SectionSize
          BY <2>3, ImageFacts
        <4>2. CASE offset + i >= SectionSize
          <5>1. bytes[i] = Zero
            <6>1. Delivered(got) = d
              BY <3>1, PartFacts
            <6>2. offset + d <= SectionSize
              BY <2>3, <6>1, SectionRight DEF NeverPast
            <6>3. i \notin DOMAIN got
              BY <3>1, <3>2, <4>1, <4>2, <6>2
            <6>4. QED
              BY <6>3
          <5>2. QED
            BY <4>2, <5>1 DEF SectionTruth
        <4>3. CASE offset + i < SectionSize
          <5>1. i \in 0 .. d - 1
            BY <3>1, <3>2, <4>1, <4>3
          <5>2. got[i] = MappedByte(image.section + (offset + i))
            BY <3>1, <5>1 DEF Part
          <5>3. bytes[i] = Decrypted(got[i], offset + i)
            BY <3>2, <5>1
          <5>4. QED
            BY <4>3, <5>2, <5>3, DecryptedFacts
        <4>4. QED
          BY <4>1, <4>2, <4>3
      <3>4. Part(AesCtrRead[size][offset], SectionTruth, offset, size)
        BY <2>1, <2>3, <3>3 DEF Part
      <3>5. size # 0
        BY <2>3
      <3>6. QED
        BY <3>4, <3>5, PartFacts DEF Answers
    <2>4. QED
      BY <2>2, <2>3
  <1>2. QED
    BY <1>1 DEF Right, Ready

\* Rounding up does not pass a multiple.
LEMMA UpMonotone ==
  ASSUME NEW a \in Nat \ {0}, NEW m \in Nat, NEW n \in Nat, m <= n, n % a = 0
  PROVE  AlignUp(m, a) <= n
  <1>1. AlignDown(n + a - 1, a) = n
    BY DownOfMultiple
  <1>2. m + a - 1 \in Nat /\ n + a - 1 \in Nat /\ m + a - 1 <= n + a - 1
    OBVIOUS
  <1>3. QED
    BY <1>1, <1>2, DownMonotone, UpIsDown

\* Where every position is good, every block is.
LEMMA AroundAll ==
  ASSUME NEW total, NEW block
  PROVE  Around(Nat, total, block) = Nat
  BY DEF Around

\* Nothing is asked of an empty layer.
LEMMA EmptyReady ==
  ASSUME NEW read, NEW asked, NEW good
  PROVE  Ready(read, 0, asked, good)
  BY DEF Ready

\* AES-CTR under its cache and its alignment takes any request in the section, the
\* last one included: a cache block may be shortened to the section.
LEMMA CtrStackRight ==
  ASSUME image \in Images, image.encrypted
  PROVE  /\ Right(CtrStackRead, SectionSize, SectionTruth)
         /\ Ready(CtrStackRead, SectionSize, Inside(SectionSize), Nat)
  <1> DEFINE block == AlignUp(Least(SectionSize, CtrCache), AesBlock)
             cached == CacheRead(AesCtrRead, SectionSize, block)
  <1>1. CtrStackRead = AlignedRead(cached, SectionSize, AesBlock)
    BY DEF CtrStackRead
  <1>2. /\ SectionSize \in Nat /\ AesBlock \in Nat \ {0} /\ CtrCache \in Nat \ {0}
        /\ MaxCache \in Nat \ {0} /\ CtrCache % AesBlock = 0 /\ CtrCache <= MaxCache
    BY ImageFacts, StackAssumption
  <1>3. CASE SectionSize = 0
    <2>1. ASSUME NEW size \in Nat, NEW offset \in Nat PROVE CtrStackRead[size][offset] = Fails
      BY <1>1, <1>3 DEF AlignedRead
    <2>2. Right(CtrStackRead, SectionSize, SectionTruth)
      BY <2>1, RefusedIsRight DEF Right
    <2>3. QED
      BY <1>3, <2>2, EmptyReady
  <1>4. CASE SectionSize # 0
    <2> DEFINE wanted == Least(SectionSize, CtrCache)
    <2>1. wanted \in Nat \ {0} /\ wanted <= CtrCache
      BY <1>2, <1>4, LeastFacts
    <2>2. block \in Nat \ {0} /\ block % AesBlock = 0
      <3> HIDE DEF wanted
      <3>1. /\ AlignUp(wanted, AesBlock) \in Nat /\ AlignUp(wanted, AesBlock) % AesBlock = 0
            /\ wanted <= AlignUp(wanted, AesBlock)
        BY <1>2, <2>1, UpFacts
      <3>2. QED
        BY <2>1, <3>1 DEF wanted
    <2>3. block <= CtrCache
      BY <1>2, <2>1, UpMonotone
    <2> HIDE DEF block
    <2>4. Least(block, MaxCache) = block
      BY <1>2, <2>2, <2>3 DEF Least
    <2>5. \A p \in Nat : p >= SectionSize => SectionTruth[p] = Zero
      BY DEF SectionTruth
    <2>6. OneBlock(block) \subseteq Multiples(AesBlock)
      <3>1. ASSUME NEW r \in Everything, r[1] = block, r[2] % block = 0
            PROVE  r[2] % AesBlock = 0
        <4>1. r[2] \in Nat
          BY DEF Everything
        <4>2. QED
          BY <1>2, <2>2, <3>1, <4>1, MultipleOfMultiple
      <3>2. QED
        BY <2>2, <3>1 DEF OneBlock, Multiples
    <2>7. /\ Right(AesCtrRead, SectionSize, SectionTruth)
          /\ Ready(AesCtrRead, SectionSize, OneBlock(block), Nat)
      BY <2>6, AesCtrRight, ReadyLess
    <2>8. /\ Right(cached, SectionSize, SectionTruth) /\ AllOrNothing(cached)
          /\ Ready(cached, SectionSize, Everything, Nat)
      <3>1. Right(cached, SectionSize, SectionTruth) /\ AllOrNothing(cached)
        BY <1>2, <2>2, <2>5, <2>7, CacheRight
      <3>2. Ready(cached, SectionSize, Everything, Around(Nat, SectionSize, block))
        BY <1>2, <2>2, <2>4, <2>7, CacheReady
      <3>3. QED
        BY <3>1, <3>2, AroundAll
    <2> HIDE DEF cached
    <2>9. /\ Right(AlignedRead(cached, SectionSize, AesBlock), SectionSize, SectionTruth)
          /\ Ready(AlignedRead(cached, SectionSize, AesBlock), SectionSize, Inside(SectionSize),
                   Around(Nat, SectionSize, AesBlock))
      BY <1>2, <2>5, <2>8, AlignedRight, AlignedReady
    <2>10. QED
      BY <1>1, <2>9, AroundAll
  <1>5. QED
    BY <1>3, <1>4

\* createDecryptedProvider, with and without encryption.
LEMMA DecryptedRight ==
  ASSUME image \in Images
  PROVE  /\ Right(DecryptedRead, SectionSize, SectionTruth)
         /\ Ready(DecryptedRead, SectionSize, Inside(SectionSize), Nat)
  <1>1. CASE image.encrypted
    BY <1>1, CtrStackRight DEF DecryptedRead
  <1>2. CASE ~ image.encrypted
    <2> DEFINE here == [p \in Nat |-> MappedByte(image.section + p)]
    <2>1. \A p \in Nat : p < SectionSize => here[p] = SectionTruth[p]
      <3>1. \A p \in Nat : image.section + p - image.section = p
        BY ImageFacts
      <3>2. QED
        BY <1>2, <3>1, ImageFacts DEF MappedByte, SectionTruth
    <2> HIDE DEF here
    <2>2. DecryptedRead = SectionRead
      BY <1>2 DEF DecryptedRead
    <2>3. /\ Right(SectionRead, SectionSize, here) /\ NeverPast(SectionRead, SectionSize)
          /\ Ready(SectionRead, SectionSize, Everything, Nat)
      BY SectionRight DEF here
    <2>4. Right(SectionRead, SectionSize, SectionTruth)
      BY <2>1, <2>3, SameTruth, ImageFacts
    <2>5. Inside(SectionSize) \subseteq Everything
      BY DEF Inside
    <2>6. QED
      BY <2>2, <2>3, <2>4, <2>5, ReadyLess
  <1>3. QED
    BY <1>1, <1>2, ImageFacts

\* The data region of a hash layer.
LEMMA DataRight ==
  ASSUME image \in Images
  PROVE  /\ Right(DataRead, DataSize, DataTruth)
         /\ NeverPast(DataRead, DataSize)
         /\ Ready(DataRead, DataSize, Everything, Nat)
  <1>1. \A p \in Nat : p < DataSize => DataTruth[p] = SectionTruth[image.data + p]
    BY ImageFacts DEF DataTruth
  <1>2. DataSize = OffsetSize(SectionSize, image.data, image.dataSize)
    BY DEF DataSize
  <1>3. SectionSize \in Nat /\ image.data \in Nat /\ image.dataSize \in Nat
    BY ImageFacts
  <1> DEFINE part == OffsetRead(DecryptedRead, DataSize, image.data)
  <1>4. /\ Right(DecryptedRead, SectionSize, SectionTruth)
        /\ Ready(DecryptedRead, SectionSize, Inside(SectionSize), Nat)
    BY DecryptedRight
  <1>5. Exact(part, DataSize, DataTruth)
    BY <1>1, <1>2, <1>3, <1>4, OffsetRight
  <1>6. Ready(part, DataSize, Everything, Nat)
    BY <1>1, <1>2, <1>3, <1>4, OffsetRight
  <1>7. QED
    BY <1>5, <1>6 DEF DataRead, Exact

-----------------------------------------------------------------------------
\* What belongs at each position above the hash layer, and where it was not altered.
HashTruth == [p \in Nat |-> IF p < DataSize THEN Plain(image.data + p) ELSE Zero]
HashGood == {p \in Nat : image.section + image.data + p \notin image.corrupt}

\* The data region as it was when its hashes were made.
LEMMA HashFacts ==
  ASSUME image \in Images
  PROVE  /\ DataSize <= image.dataSize
         /\ \A p \in Nat : p < DataSize => Expected(p) = HashTruth[p]
         /\ \A p \in HashGood : p < DataSize => DataTruth[p] = HashTruth[p]
         /\ \A p \in Nat : p >= DataSize => HashTruth[p] = Zero
  <1>1. DataSize <= image.dataSize
    BY ImageFacts DEF DataSize, OffsetSize, Least
  <1>2. \A p \in Nat : p < DataSize => Expected(p) = HashTruth[p]
    BY <1>1, ImageFacts DEF Expected, HashTruth
  <1>3. ASSUME NEW p \in HashGood, p < DataSize PROVE DataTruth[p] = HashTruth[p]
    <2>1. /\ p \in Nat /\ image.data + p \in Nat
          /\ image.section + (image.data + p) = image.section + image.data + p
      BY ImageFacts DEF HashGood
    <2>2. image.data + p < SectionSize
      BY <1>3, <2>1, ImageFacts
    <2>3. SectionTruth[image.data + p] = Plain(image.data + p)
      BY <2>1, <2>2, ImageFacts DEF SectionTruth, HashGood
    <2>4. QED
      BY <1>3, <2>1, <2>3, ImageFacts DEF DataTruth, HashTruth
  <1>4. \A p \in Nat : p >= DataSize => HashTruth[p] = Zero
    BY ImageFacts DEF HashTruth
  <1>5. QED
    BY <1>1, <1>2, <1>3, <1>4

\* Sha256Provider delivers only what its hashes were made of, and whole blocks that
\* were not altered it delivers.
LEMMA Sha256Right ==
  ASSUME image \in Images
  PROVE  /\ Right(Sha256Read, DataSize, HashTruth)
         /\ AllOrNothing(Sha256Read)
         /\ Ready(Sha256Read, DataSize, Multiples(image.block), HashGood)
  <1>1. ASSUME NEW size \in Nat, NEW offset \in Nat
        PROVE  /\ Answers(Sha256Read, DataSize, HashTruth, size, offset)
               /\ Sha256Read[size][offset] = Fails \/ Delivered(Sha256Read[size][offset]) = size
               /\ /\ <<size, offset>> \in Multiples(image.block) /\ offset < DataSize
                  /\ \A p \in offset .. offset + size - 1 : p < DataSize => p \in HashGood
                  => Sha256Read[size][offset] # Fails
    <2> DEFINE readSize == Least(DataSize - offset, size)
               got == DataRead[readSize][offset]
               refused == \/ Rejected(size, offset) \/ Delivered(got) # readSize
                          \/ ~ Matches(got, offset)
    <2>1. Sha256Read[size][offset] = IF refused THEN Fails ELSE Padded(got, size)
      BY DEF Sha256Read
    <2>2. CASE Rejected(size, offset)
      <3>1. Sha256Read[size][offset] = Fails
        BY <2>1, <2>2
      <3>2. ~ (<<size, offset>> \in Multiples(image.block) /\ offset < DataSize)
        BY <2>2, ImageFacts DEF Rejected, Multiples, Everything
      <3>3. QED
        BY <3>1, <3>2, RefusedIsRight
    <2>3. CASE ~ Rejected(size, offset)
      <3>1. /\ size > 0 /\ offset < DataSize /\ DataSize \in Nat
        BY <2>3, ImageFacts DEF Rejected
      <3>2. /\ readSize \in Nat /\ readSize > 0 /\ readSize <= size
            /\ offset + readSize <= DataSize
            /\ readSize = size \/ offset + readSize = DataSize
        BY <3>1, LeastFacts
      <3> HIDE DEF readSize
      <3>3. PICK d \in 0 .. readSize : /\ Part(got, DataTruth, offset, d)
                                       /\ d = 0 \/ d = readSize \/ offset + d >= DataSize
        BY <3>2, DataRight DEF Right, Answers
      <3>4. Delivered(got) = d /\ DOMAIN got = 0 .. d - 1 /\ (got = Fails <=> d = 0)
        BY <3>3, PartFacts
      <3>5. got # Fails
        <4>1. <<readSize, offset>> \in Everything
          BY <3>2 DEF Everything
        <4>2. \A p \in offset .. offset + readSize - 1 : p < DataSize => p \in Nat
          OBVIOUS
        <4>3. QED
          BY <3>1, <3>2, <4>1, <4>2, DataRight DEF Ready
      <3>6. d = readSize
        BY <3>1, <3>2, <3>3, <3>4, <3>5
      <3>7. CASE Matches(got, offset)
        <4>1. ASSUME NEW i \in 0 .. size - 1
              PROVE  (IF i \in DOMAIN got THEN got[i] ELSE Zero) = HashTruth[offset + i]
          <5>1. CASE i \in DOMAIN got
            <6>1. got[i] = Expected(offset + i)
              BY <3>7, <5>1 DEF Matches
            <6>2. offset + i \in Nat /\ offset + i < DataSize
              BY <3>1, <3>2, <3>4, <3>6, <5>1
            <6>3. QED
              BY <5>1, <6>1, <6>2, HashFacts
          <5>2. CASE i \notin DOMAIN got
            <6>1. offset + i \in Nat /\ offset + i >= DataSize
              BY <3>1, <3>2, <3>4, <3>6, <5>2
            <6>2. QED
              BY <5>2, <6>1, HashFacts
          <5>3. QED
            BY <5>1, <5>2
        <4>2. Sha256Read[size][offset] = Padded(got, size)
          BY <2>1, <2>3, <3>4, <3>6, <3>7
        <4>3. Part(Sha256Read[size][offset], HashTruth, offset, size)
          BY <4>1, <4>2 DEF Part, Padded
        <4>4. QED
          BY <3>1, <4>3, PartFacts DEF Answers
      <3>8. CASE ~ Matches(got, offset)
        <4>1. Sha256Read[size][offset] = Fails
          BY <2>1, <3>8
        <4>2. PICK i \in DOMAIN got : got[i] # Expected(offset + i)
          BY <3>8 DEF Matches
        <4>3. i \in 0 .. readSize - 1 /\ offset + i \in Nat /\ offset + i < DataSize
          BY <3>1, <3>2, <3>4, <3>6, <4>2
        <4>4. got[i] = DataTruth[offset + i]
          BY <3>3, <3>6, <4>3 DEF Part
        <4>5. offset + i \notin HashGood
          BY <4>2, <4>3, <4>4, HashFacts
        <4>6. offset + i \in offset .. offset + size - 1
          BY <3>2, <4>3
        <4>7. QED
          BY <4>1, <4>3, <4>5, <4>6, RefusedIsRight
      <3>9. QED
        BY <3>7, <3>8
    <2>4. QED
      BY <2>2, <2>3
  <1>2. QED
    BY <1>1 DEF Right, Ready, AllOrNothing

\* So does IntegrityVerificationProvider, one block at a time, where the data region is
\* all there: its hashes are of blocks that are filled up with zeros.
LEMMA IvfcRight ==
  ASSUME image \in Images
  PROVE  /\ Right(IvfcRead, DataSize, HashTruth)
         /\ AllOrNothing(IvfcRead)
         /\ DataSize = image.dataSize => Ready(IvfcRead, DataSize, OneBlock(image.block), HashGood)
  <1> DEFINE cached == CacheRead(DataRead, DataSize, image.block)
  <1>1. /\ Right(cached, DataSize, DataTruth) /\ AllOrNothing(cached)
        /\ Ready(cached, DataSize, Everything, Nat)
    <2> DEFINE block == Least(image.block, MaxCache)
    <2>1. /\ DataSize \in Nat /\ image.block \in Nat \ {0}
          /\ Right(DataRead, DataSize, DataTruth) /\ Ready(DataRead, DataSize, Everything, Nat)
      BY ImageFacts, DataRight
    <2>2. \A p \in Nat : p >= DataSize => DataTruth[p] = Zero
      BY DEF DataTruth
    <2>3. Right(cached, DataSize, DataTruth) /\ AllOrNothing(cached)
      BY <2>1, <2>2, CacheRight
    <2>4. Ready(DataRead, DataSize, OneBlock(block), Nat)
      <3>1. OneBlock(block) \subseteq Everything
        BY DEF OneBlock
      <3>2. QED
        BY <2>1, <3>1, ReadyLess
    <2>5. Ready(cached, DataSize, Everything, Around(Nat, DataSize, block))
      BY <2>1, <2>4, CacheReady
    <2>6. QED
      BY <2>3, <2>5, AroundAll
  <1>2. ASSUME NEW size \in Nat, NEW offset \in Nat
        PROVE  /\ Answers(IvfcRead, DataSize, HashTruth, size, offset)
               /\ IvfcRead[size][offset] = Fails \/ Delivered(IvfcRead[size][offset]) = size
               /\ /\ DataSize = image.dataSize
                  /\ <<size, offset>> \in OneBlock(image.block) /\ offset < DataSize
                  /\ \A p \in offset .. offset + size - 1 : p < DataSize => p \in HashGood
                  => IvfcRead[size][offset] # Fails
    <2> DEFINE readSize == IF offset + size >= DataSize THEN DataSize - offset ELSE size
               got == cached[readSize][offset]
               refused == \/ Rejected(size, offset) \/ size - readSize > image.block
                          \/ Delivered(got) # readSize \/ ~ Matches(Padded(got, size), offset)
    <2>1. IvfcRead[size][offset] = IF refused THEN Fails ELSE Padded(got, size)
      BY DEF IvfcRead
    <2> HIDE DEF cached
    <2>2. CASE Rejected(size, offset)
      <3>1. IvfcRead[size][offset] = Fails
        BY <2>1, <2>2
      <3>2. image.block % image.block = 0
        BY ImageFacts
      <3>3. ~ (<<size, offset>> \in OneBlock(image.block) /\ offset < DataSize)
        BY <2>2, <3>2, ImageFacts DEF Rejected, OneBlock, Everything
      <3>4. QED
        BY <3>1, <3>3, RefusedIsRight
    <2>3. CASE ~ Rejected(size, offset)
      <3>1. /\ size > 0 /\ offset < DataSize /\ DataSize \in Nat
        BY <2>3, ImageFacts DEF Rejected
      <3>2. /\ readSize \in Nat /\ readSize > 0 /\ readSize <= size
            /\ offset + readSize <= DataSize
            /\ readSize = size \/ offset + readSize = DataSize
        BY <3>1
      <3> HIDE DEF readSize
      <3>3. PICK d \in 0 .. readSize : Part(got, DataTruth, offset, d)
        BY <1>1, <3>2 DEF Right, Answers
      <3>4. Delivered(got) = d /\ DOMAIN got = 0 .. d - 1
        BY <3>3, PartFacts
      <3>5. got # Fails
        <4>1. <<readSize, offset>> \in Everything
          BY <3>2 DEF Everything
        <4>2. \A p \in offset .. offset + readSize - 1 : p < DataSize => p \in Nat
          OBVIOUS
        <4>3. QED
          BY <1>1, <3>1, <3>2, <4>1, <4>2 DEF Ready
      <3>6. d = readSize
        BY <1>1, <3>2, <3>4, <3>5 DEF AllOrNothing
      <3> HIDE DEF got
      <3>7. CASE ~ refused
        <4>1. Matches(Padded(got, size), offset)
          BY <3>7
        <4>2. ASSUME NEW i \in 0 .. size - 1
              PROVE  (IF i \in DOMAIN got THEN got[i] ELSE Zero) = HashTruth[offset + i]
          <5>1. CASE i \in DOMAIN got
            <6>1. got[i] = Expected(offset + i)
              BY <4>1, <5>1 DEF Matches, Padded
            <6>2. offset + i \in Nat /\ offset + i < DataSize
              BY <3>1, <3>2, <3>4, <3>6, <5>1
            <6>3. QED
              BY <5>1, <6>1, <6>2, HashFacts
          <5>2. CASE i \notin DOMAIN got
            <6>1. offset + i \in Nat /\ offset + i >= DataSize
              BY <3>1, <3>2, <3>4, <3>6, <5>2
            <6>2. QED
              BY <5>2, <6>1, HashFacts
          <5>3. QED
            BY <5>1, <5>2
        <4>3. IvfcRead[size][offset] = Padded(got, size)
          BY <2>1, <3>7
        <4>4. Part(IvfcRead[size][offset], HashTruth, offset, size)
          BY <4>2, <4>3 DEF Part, Padded
        <4>5. QED
          BY <3>1, <4>4, PartFacts DEF Answers
      <3>8. CASE refused
        <4>1. IvfcRead[size][offset] = Fails
          BY <2>1, <3>8
        <4>2. ASSUME DataSize = image.dataSize, <<size, offset>> \in OneBlock(image.block),
                     \A p \in offset .. offset + size - 1 : p < DataSize => p \in HashGood
              PROVE  FALSE
          <5>1. size - readSize <= image.block
            BY <3>2, <4>2, ImageFacts DEF OneBlock
          <5>2. ~ Matches(Padded(got, size), offset)
            BY <2>3, <3>4, <3>6, <3>8, <5>1, <3>2, ImageFacts
          <5>3. PICK i \in 0 .. size - 1 : Padded(got, size)[i] # Expected(offset + i)
            BY <5>2 DEF Matches, Padded
          <5>4. CASE i \in DOMAIN got
            <6>1. i \in 0 .. readSize - 1 /\ offset + i \in Nat /\ offset + i < DataSize
              BY <3>1, <3>2, <3>4, <3>6, <5>4
            <6>2. got[i] = DataTruth[offset + i]
              BY <3>3, <3>6, <6>1 DEF Part
            <6>3. offset + i \in HashGood
              BY <4>2, <6>1
            <6>4. got[i] = Expected(offset + i)
              BY <6>1, <6>2, <6>3, HashFacts
            <6>5. QED
              BY <5>3, <5>4, <6>4 DEF Padded
          <5>5. CASE i \notin DOMAIN got
            <6>1. offset + i \in Nat /\ offset + i >= DataSize
              BY <3>1, <3>2, <3>4, <3>6, <5>5
            <6>2. Expected(offset + i) = Zero
              BY <4>2, <6>1, ImageFacts DEF Expected
            <6>3. QED
              BY <5>3, <5>5, <6>2 DEF Padded
          <5>6. QED
            BY <5>4, <5>5
        <4>3. QED
          BY <4>1, <4>2, RefusedIsRight
      <3>9. QED
        BY <3>7, <3>8
    <2>4. QED
      BY <2>2, <2>3
  <1>3. QED
    BY <1>2 DEF Right, Ready, AllOrNothing

-----------------------------------------------------------------------------
\* What belongs at each position of what createProvider makes.
ProviderTruth == IF image.hash = "none" THEN SectionTruth ELSE HashTruth

\* What createProvider makes delivers what the section should hold.
LEMMA ProviderRight ==
  ASSUME image \in Images
  PROVE  ProviderSize \in Nat /\ Right(ProviderRead, ProviderSize, ProviderTruth)
  <1>1. CASE image.hash = "none"
    BY <1>1, ImageFacts, DecryptedRight DEF ProviderRead, ProviderSize, ProviderTruth
  <1> DataSize \in Nat /\ image.block \in Nat \ {0}
    BY ImageFacts
  <1> \A p \in Nat : p >= DataSize => HashTruth[p] = Zero
    BY HashFacts
  <1>2. CASE image.hash = "sha256"
    <2> DEFINE cached == CacheRead(Sha256Read, DataSize, image.block)
    <2>1. Right(cached, DataSize, HashTruth) /\ AllOrNothing(cached)
      BY Sha256Right, CacheRight
    <2> HIDE DEF cached
    <2>2. Right(AlignedRead(cached, DataSize, image.block), DataSize, HashTruth)
      BY <2>1, AlignedRight
    <2>3. QED
      BY <1>2, <2>2 DEF ProviderRead, ProviderSize, ProviderTruth, Sha256StackRead, cached
  <1>3. CASE image.hash = "ivfc"
    <2> DEFINE below == AlignedRead(IvfcRead, DataSize, image.block)
    <2>1. Right(below, DataSize, HashTruth)
      BY IvfcRight, AlignedRight
    <2> HIDE DEF below
    <2>2. Right(CacheRead(below, DataSize, image.block), DataSize, HashTruth)
      BY <2>1, CacheRight
    <2>3. QED
      BY <1>3, <2>2 DEF ProviderRead, ProviderSize, ProviderTruth, IvfcStackRead, below
  <1>4. QED
    BY <1>1, <1>2, <1>3, ImageFacts

\* The positions whose hash blocks were not altered.
HashBlocks == Around(HashGood, DataSize, image.block)

\* And it delivers all of a request in the provider whose hash blocks were not altered.
LEMMA ProviderReady ==
  ASSUME image \in Images, image.section + image.sectionSize <= image.fileSize,
         image.hash # "none" =>
           image.data + image.dataSize <= image.sectionSize /\ image.block <= MaxCache
  PROVE  Ready(ProviderRead, ProviderSize, Inside(ProviderSize),
               IF image.hash = "none" THEN Nat ELSE HashBlocks)
  <1>1. CASE image.hash = "none"
    BY <1>1, DecryptedRight DEF ProviderRead, ProviderSize
  <1>2. CASE image.hash # "none"
    <2>1. /\ DataSize \in Nat /\ image.block \in Nat \ {0} /\ image.dataSize \in Nat
          /\ image.section \in Nat /\ image.sectionSize \in Nat /\ image.fileSize \in Nat
          /\ image.data \in Nat /\ MaxCache \in Nat \ {0}
      BY ImageFacts, StackAssumption
    <2>2. Least(image.block, MaxCache) = image.block
      BY <1>2, <2>1 DEF Least
    <2>3. SectionSize = image.sectionSize
      BY <2>1 DEF SectionSize, OffsetSize, Least
    <2>4. DataSize = image.dataSize
      BY <1>2, <2>1, <2>3 DEF DataSize, OffsetSize, Least
    <2>5. OneBlock(image.block) \subseteq Multiples(image.block)
      <3>1. image.block % image.block = 0
        BY <2>1
      <3>2. QED
        BY <3>1 DEF OneBlock, Multiples
    <2>6. HashBlocks \subseteq Around(HashBlocks, DataSize, image.block)
      BY DEF HashBlocks, Around
    <2>7. Inside(DataSize) \subseteq Everything
      BY DEF Inside
    <2>8. CASE image.hash = "sha256"
      <3> DEFINE cached == CacheRead(Sha256Read, DataSize, image.block)
      <3>1. /\ Right(Sha256Read, DataSize, HashTruth)
            /\ Ready(Sha256Read, DataSize, OneBlock(image.block), HashGood)
        BY <2>5, Sha256Right, ReadyLess
      <3>2. AllOrNothing(cached)
        BY <2>1, <3>1, HashFacts, CacheRight
      <3>3. Ready(cached, DataSize, Everything, HashBlocks)
        BY <2>1, <2>2, <3>1, CacheReady DEF HashBlocks
      <3> HIDE DEF cached
      <3>4. Ready(AlignedRead(cached, DataSize, image.block), DataSize, Inside(DataSize),
                  Around(HashBlocks, DataSize, image.block))
        BY <2>1, <3>2, <3>3, AlignedReady
      <3>5. Ready(AlignedRead(cached, DataSize, image.block), DataSize, Inside(DataSize),
                  HashBlocks)
        BY <2>6, <3>4, ReadyLess
      <3>6. QED
        BY <2>8, <3>5 DEF ProviderRead, ProviderSize, Sha256StackRead, cached
    <2>9. CASE image.hash = "ivfc"
      <3> DEFINE below == AlignedRead(IvfcRead, DataSize, image.block)
      <3>1. /\ Right(IvfcRead, DataSize, HashTruth) /\ AllOrNothing(IvfcRead)
            /\ Ready(IvfcRead, DataSize, OneBlock(image.block), HashGood)
        BY <2>4, IvfcRight
      <3>2. Right(below, DataSize, HashTruth)
        BY <2>1, <3>1, HashFacts, AlignedRight
      <3>3. Ready(below, DataSize, OneBlock(image.block), HashGood)
        BY <2>1, <3>1, AlignedReadyWhole
      <3> HIDE DEF below
      <3>4. Ready(CacheRead(below, DataSize, image.block), DataSize, Everything, HashBlocks)
        BY <2>1, <2>2, <3>2, <3>3, CacheReady DEF HashBlocks
      <3>5. Ready(CacheRead(below, DataSize, image.block), DataSize, Inside(DataSize), HashBlocks)
        BY <2>7, <3>4, ReadyLess
      <3>6. QED
        BY <2>9, <3>5 DEF ProviderRead, ProviderSize, IvfcStackRead, below
    <2>10. QED
      BY <1>2, <2>8, <2>9, ImageFacts
  <1>3. QED
    BY <1>1, <1>2

-----------------------------------------------------------------------------
\* What is delivered is what belongs there.
LEMMA GenuineFacts ==
  ASSUME image \in Images, image.hash # "none" \/ image.corrupt = {}, NEW p \in Nat
  PROVE  ProviderTruth[p] = Genuine(p)
  <1>1. CASE image.hash = "none"
    BY <1>1, ImageFacts DEF ProviderTruth, SectionTruth, Genuine, ProviderSize, ProviderBase
  <1>2. CASE image.hash # "none"
    BY <1>2 DEF ProviderTruth, HashTruth, Genuine, ProviderSize, ProviderBase
  <1>3. QED
    BY <1>1, <1>2

\* The blocks around what is wanted of an intact file.
LEMMA IntactFacts ==
  ASSUME image \in Images, image.hash # "none", NEW r \in Requests, Intact(r),
         NEW size \in Nat \ {0}, size = Clamp(r.size, r.offset, r.length),
         NEW p \in Nat, r.start + r.offset <= p, p < r.start + r.offset + size
  PROVE  p \in HashBlocks
  <1> DEFINE first == r.start + r.offset
             last == first + size - 1
  <1>1. first \in Nat /\ last \in Nat /\ first <= p /\ p <= last
    BY ImageFacts DEF Requests, ProviderSize
  <1>2. image.block \in Nat \ {0} /\ DataSize \in Nat
    BY ImageFacts
  <1> SUFFICES ASSUME NEW q \in Nat, q < DataSize,
                      AlignDown(q, image.block) = AlignDown(p, image.block)
               PROVE  q \in HashGood
    BY DEF HashBlocks, Around
  <1>3. /\ AlignDown(first, image.block) \in Nat /\ AlignDown(last, image.block) \in Nat
        /\ AlignDown(first, image.block) <= AlignDown(p, image.block)
        /\ AlignDown(p, image.block) <= AlignDown(last, image.block)
    BY <1>1, <1>2, DownMonotone, DownFacts
  <1>4. AlignDown(q, image.block) <= q /\ q < AlignDown(q, image.block) + image.block
    BY <1>2, DownFacts
  <1>5. ProviderSize = DataSize /\ ProviderBase = image.data
    BY DEF ProviderSize, ProviderBase
  <1>6. q \in Wanted(r)
    <2> HIDE DEF first, last
    <2>1. /\ AlignDown(first, image.block) <= q
          /\ q < AlignDown(last, image.block) + image.block
      <3>1. AlignDown(p, image.block) \in Nat
        BY <1>2, DownFacts
      <3>2. AlignDown(p, image.block) <= q /\ q < AlignDown(p, image.block) + image.block
        BY <1>4
      <3>3. QED
        BY <1>2, <1>3, <3>1, <3>2
    <2>2. q <= Least(AlignDown(last, image.block) + image.block, DataSize) - 1
      BY <1>2, <1>3, <2>1 DEF Least
    <2>3. Least(AlignDown(last, image.block) + image.block, DataSize) - 1 \in Int
      BY <1>2, <1>3, LeastFacts
    <2>4. Wanted(r) = AlignDown(first, image.block) ..
                        Least(AlignDown(last, image.block) + image.block, DataSize) - 1
      BY <1>5 DEF Wanted, first, last
    <2>5. QED
      BY <1>3, <2>1, <2>2, <2>3, <2>4
  <1>7. image.section + image.data + q \notin image.corrupt
    BY <1>5, <1>6 DEF Intact
  <1>8. QED
    BY <1>7 DEF HashGood

\* File::read: all four promises for one request.
LEMMA FileFacts ==
  ASSUME image \in Images, NEW r \in Requests
  PROVE  /\ Delivered(FileRead(r)) \in Nat
         /\ DOMAIN FileRead(r) = 0 .. Delivered(FileRead(r)) - 1
         /\ Delivered(FileRead(r)) <= Clamp(r.size, r.offset, r.length)
         /\ \A i \in DOMAIN FileRead(r) :
              FileRead(r)[i] = ProviderTruth[r.start + r.offset + i]
         /\ Intact(r) => Delivered(FileRead(r)) = Clamp(r.size, r.offset, r.length)
  <1> DEFINE size == Clamp(r.size, r.offset, r.length)
             first == r.start + r.offset
  <1>1. ProviderSize \in Nat /\ Right(ProviderRead, ProviderSize, ProviderTruth)
    BY ProviderRight
  <1>2. /\ r.start \in Nat /\ r.length \in Nat /\ r.offset \in Nat /\ r.size \in Nat
        /\ first \in Nat
    BY <1>1 DEF Requests
  <1>3. size \in Nat /\ (size # 0 => r.offset + size <= r.length)
    BY <1>2 DEF Clamp, Least
  <1>4. FileRead(r) = IF size = 0 THEN Fails ELSE ProviderRead[size][first]
    BY DEF FileRead
  <1> HIDE DEF size, first
  <1>5. CASE size = 0
    <2>1. Part(FileRead(r), ProviderTruth, first, 0)
      BY <1>4, <1>5 DEF Part, Fails
    <2>2. DOMAIN FileRead(r) = 0 .. 0 - 1 /\ Delivered(FileRead(r)) = 0
      BY <2>1, PartFacts
    <2>3. QED
      BY <1>5, <2>2 DEF size
  <1>6. CASE size # 0
    <2>1. FileRead(r) = ProviderRead[size][first]
      BY <1>4, <1>6
    <2>2. PICK d \in 0 .. size :
            /\ Part(FileRead(r), ProviderTruth, first, d)
            /\ d = 0 \/ d = size \/ first + d >= ProviderSize
      BY <1>1, <1>2, <1>3, <2>1 DEF Right, Answers
    <2>3. /\ DOMAIN FileRead(r) = 0 .. d - 1 /\ Delivered(FileRead(r)) = d
          /\ FileRead(r) = Fails <=> d = 0
      BY <2>2, PartFacts
    <2>4. \A i \in DOMAIN FileRead(r) : FileRead(r)[i] = ProviderTruth[first + i]
      BY <2>2, <2>3 DEF Part
    <2>5. ASSUME Intact(r) PROVE d = size
      <3>1. first + size <= ProviderSize
        BY <1>1, <1>2, <1>3, <1>6, <2>5 DEF Intact, first
      <3>2. <<size, first>> \in Inside(ProviderSize)
        BY <1>2, <1>3, <1>6, <3>1 DEF Inside, Everything
      <3>3. ASSUME NEW p \in first .. first + size - 1
            PROVE  p \in (IF image.hash = "none" THEN Nat ELSE HashBlocks)
        <4>1. p \in Nat /\ first <= p /\ p < first + size
          BY <1>2, <1>3
        <4>2. size \in Nat \ {0}
          BY <1>3, <1>6
        <4>3. image.hash # "none" => p \in HashBlocks
          BY <2>5, <4>1, <4>2, IntactFacts DEF size, first
        <4>4. QED
          BY <4>1, <4>3
      <3>4. FileRead(r) # Fails
        <4>1. Ready(ProviderRead, ProviderSize, Inside(ProviderSize),
                    IF image.hash = "none" THEN Nat ELSE HashBlocks)
          BY <2>5, ProviderReady DEF Intact
        <4>2. first < ProviderSize
          BY <1>1, <1>2, <1>3, <1>6, <3>1
        <4>3. QED
          BY <1>2, <1>3, <2>1, <3>2, <3>3, <4>1, <4>2 DEF Ready
      <3>5. QED
        BY <1>1, <1>2, <1>3, <2>2, <2>3, <3>1, <3>4
    <2>6. QED
      BY <2>2, <2>3, <2>4, <2>5 DEF size, first
  <1>7. QED
    BY <1>5, <1>6

-----------------------------------------------------------------------------
\* The answer is made anew by each read and the image stays: nothing needs to be added
\* to the three for the step to keep them.
StackInv == TypeOK /\ DeliversGenuine /\ DeliversAllItCan

\* A failed read.
LEMMA NothingDelivered ==
  Delivered(Fails) = 0 /\ DOMAIN Fails = 0 .. -1
  BY FS_EmptySet DEF Delivered, Fails

\* Between two reads there is no request and no answer.
LEMMA IdleFacts ==
  ASSUME image \in Images, answer = Fails,
         request = [start |-> 0, length |-> 0, offset |-> 0, size |-> 0]
  PROVE  StackInv
  BY NothingDelivered DEF StackInv, TypeOK, DeliversGenuine, DeliversAllItCan, Clamp

\* The three invariants follow anew from each request: no earlier one matters.
LEMMA StackStep ==
  ASSUME StackInv, [Next]_vars
  PROVE  StackInv'
  <1>1. CASE ReadFile
    <2>1. PICK r \in Requests : request' = r /\ answer' = FileRead(r)
      BY <1>1 DEF ReadFile
    <2>2. image' = image /\ image \in Images
      BY <1>1 DEF ReadFile, StackInv, TypeOK
    <2>3. ProviderSize' = ProviderSize /\ ProviderBase' = ProviderBase
      BY <2>2 DEF ProviderSize, ProviderBase, DataSize, SectionSize
    <2>4. TypeOK'
      BY <2>1, <2>2, FileFacts DEF TypeOK
    <2>5. DeliversGenuine'
      <3> SUFFICES ASSUME image.hash # "none" \/ image.corrupt = {},
                          NEW i \in DOMAIN FileRead(r)
                   PROVE  FileRead(r)[i] = Genuine(r.start + r.offset + i)'
        BY <2>1, <2>2 DEF DeliversGenuine
      <3>1. r.start + r.offset + i \in Nat
        <4>1. i \in Nat
          <5>1. /\ Delivered(FileRead(r)) \in Nat
                /\ i \in 0 .. Delivered(FileRead(r)) - 1
            BY <2>2, FileFacts
          <5>2. QED
            BY <5>1
        <4>2. r.start \in Nat /\ r.offset \in Nat
          BY <2>2, ProviderRight DEF Requests
        <4>3. QED
          BY <4>1, <4>2
      <3>2. FileRead(r)[i] = Genuine(r.start + r.offset + i)
        BY <2>2, <3>1, FileFacts, GenuineFacts
      <3>3. QED
        BY <2>3, <3>2 DEF Genuine
    <2>6. DeliversAllItCan'
      <3>1. Intact(request)' => Intact(r)
        BY <2>1, <2>2, <2>3 DEF Intact, Wanted
      <3>2. QED
        BY <2>1, <2>2, <3>1, FileFacts DEF DeliversAllItCan
    <2>7. QED
      BY <2>4, <2>5, <2>6 DEF StackInv
  <1>2. CASE Done
    <2>1. /\ image' \in Images /\ answer' = Fails
          /\ request' = [start |-> 0, length |-> 0, offset |-> 0, size |-> 0]
      BY <1>2 DEF Done, StackInv, TypeOK
    <2>2. QED
      BY <2>1, NothingDelivered
         DEF StackInv, TypeOK, DeliversGenuine, DeliversAllItCan, Clamp
  <1>3. CASE UNCHANGED vars
    BY <1>3 DEF vars, StackInv, TypeOK, DeliversGenuine, DeliversAllItCan, Genuine, Intact,
                Wanted, ProviderSize, ProviderBase, DataSize, SectionSize
  <1>4. QED
    BY <1>1, <1>2, <1>3 DEF Next

\* The invariants of a stack of providers.
LEMMA StackInvariant == Spec => []StackInv
  <1>1. Init => StackInv
    BY IdleFacts DEF Init
  <1>2. QED
    BY <1>1, StackStep, PTL DEF Spec

\* No read of a file delivers more than was asked for or bytes from behind the end of the
\* file's entry, whatever its stack of providers, its block sizes and its image are.
THEOREM StackTypeOK == Spec => []TypeOK
  BY StackInvariant, PTL DEF StackInv

\* Whatever is rounded, split, cached, padded and clamped on the way, each byte that a
\* read delivers is the one of its position in the file, or zero behind the end of the
\* image: never one of another position, one deciphered with the wrong part of the
\* keystream, or an altered one of an image with hashes.
THEOREM StackDeliversGenuine == Spec => []DeliversGenuine
  BY StackInvariant, PTL DEF StackInv

\* A read of a part of a file whose hash blocks were not altered delivers all of it, at
\* any offset and of any size: no layer rounds a request to one the layer below rejects.
THEOREM StackDeliversAllItCan == Spec => []DeliversAllItCan
  BY StackInvariant, PTL DEF StackInv

-----------------------------------------------------------------------------
(***************************************************************************)
(* The hash layer at the bottom of these stacks, Sha256Provider, for any   *)
(* number of readers and blocks.  The invariant follows a reader through   *)
(* read(): once it has passed Verify its block is good, so what it zeroes  *)
(* is never the hash of a corrupt block, and a hash that is not whole any  *)
(* more vouches for its block.                                             *)
(***************************************************************************)
ReaderInv(t) ==
  /\ pc[t] = "idle" <=> reading[t] = NoBlock
  /\ pc[t] = "done" <=> result[t] # "none"
  /\ pc[t] \in {"zero", "zeroing"} => content[reading[t]] = "good"
  /\ result[t] = "served" => reading[t] \in GenuineBlocks

HashInv ==
  /\ HashTypeOK
  /\ CorruptStaysChecked
  /\ \A t \in Threads : ReaderInv(t)

LEMMA InitHashInv == HashInit => HashInv
  BY BlocksAssumption DEF HashInit, HashInv, HashTypeOK, Phases, CorruptStaysChecked, ReaderInv

LEMMA ReadInv ==
  ASSUME HashInv, NEW t \in Threads, NEW b \in Blocks, Read(t, b)
  PROVE  HashInv'
  BY BlocksAssumption
     DEF Read, Goto, HashInv, HashTypeOK, Phases, CorruptStaysChecked, ReaderInv, GenuineBlocks

LEMMA FetchInv ==
  ASSUME HashInv, NEW t \in Threads, Fetch(t)
  PROVE  HashInv'
  <1>1. pc[t] = "fetch" /\ result[t] = "none" /\ ~ readError[t] /\ reading[t] # NoBlock
    BY DEF Fetch, HashInv, HashTypeOK, ReaderInv
  <1>2. UNCHANGED <<content, mHashRegion, hashed, reading>>
    BY DEF Fetch
  <1>3. CASE Goto(t, "isnull") /\ UNCHANGED <<result, readError>>
    BY <1>1, <1>2, <1>3
       DEF Goto, HashInv, HashTypeOK, Phases, CorruptStaysChecked, ReaderInv, GenuineBlocks
  <1>4. CASE Finish(t, "refused") /\ readError' = [readError EXCEPT ![t] = TRUE]
    <2>1. HashTypeOK'
      BY <1>2, <1>4 DEF Finish, Goto, HashInv, HashTypeOK, Phases
    <2>2. \A u \in Threads : ReaderInv(u)'
      BY <1>1, <1>2, <1>4 DEF Finish, Goto, HashInv, HashTypeOK, ReaderInv, GenuineBlocks
    <2>3. QED
      BY <1>2, <2>1, <2>2 DEF HashInv, CorruptStaysChecked
  <1>5. QED
    BY <1>3, <1>4 DEF Fetch

\* A hash that is no longer whole belongs to a good block, or to one that the
\* image left without a hash.
LEMMA IsNullInv ==
  ASSUME HashInv, NEW t \in Threads, IsNull(t)
  PROVE  HashInv'
  <1>1. reading[t] \in Blocks
    BY DEF IsNull, HashInv, HashTypeOK, ReaderInv
  <1>2. mHashRegion[reading[t]] # "whole" => reading[t] \in GenuineBlocks
    BY <1>1 DEF HashInv, HashTypeOK, CorruptStaysChecked, GenuineBlocks
  <1>3. QED
    BY <1>2
       DEF IsNull, Finish, Goto, HashInv, HashTypeOK, Phases, CorruptStaysChecked, ReaderInv,
           GenuineBlocks

LEMMA VerifyInv ==
  ASSUME HashInv, NEW t \in Threads, Verify(t)
  PROVE  HashInv'
  BY DEF Verify, Finish, Goto, HashInv, HashTypeOK, Phases, CorruptStaysChecked, ReaderInv,
         GenuineBlocks

\* Zeroing a hash, by halves or as a whole, leaves those of corrupt blocks.
LEMMA ZeroBeginInv ==
  ASSUME HashInv, NEW t \in Threads, ZeroBegin(t)
  PROVE  HashInv'
  <1>1. content[reading[t]] = "good"
    BY DEF ZeroBegin, HashInv, ReaderInv
  <1>2. CorruptStaysChecked'
    BY <1>1 DEF ZeroBegin, HashInv, HashTypeOK, CorruptStaysChecked
  <1>3. QED
    BY <1>1, <1>2 DEF ZeroBegin, Goto, HashInv, HashTypeOK, Phases, ReaderInv, GenuineBlocks

LEMMA ZeroEndInv ==
  ASSUME HashInv, NEW t \in Threads, ZeroEnd(t)
  PROVE  HashInv'
  <1>1. content[reading[t]] = "good" /\ reading[t] \in Blocks
    BY DEF ZeroEnd, HashInv, HashTypeOK, ReaderInv
  <1>2. CorruptStaysChecked'
    BY <1>1 DEF ZeroEnd, HashInv, HashTypeOK, CorruptStaysChecked
  <1>3. QED
    BY <1>1, <1>2 DEF ZeroEnd, Finish, Goto, HashInv, HashTypeOK, Phases, ReaderInv, GenuineBlocks

LEMMA ReturnInv ==
  ASSUME HashInv, NEW t \in Threads, Return(t)
  PROVE  HashInv'
  BY DEF Return, Goto, HashInv, HashTypeOK, Phases, CorruptStaysChecked, ReaderInv, GenuineBlocks

LEMMA NextHashInv == HashInv /\ [HashNext]_hashVars => HashInv'
  <1> SUFFICES ASSUME HashInv, [HashNext]_hashVars PROVE HashInv'
    OBVIOUS
  <1>1. CASE UNCHANGED hashVars
    BY <1>1 DEF hashVars, HashInv, HashTypeOK, CorruptStaysChecked, ReaderInv, GenuineBlocks
  <1>2. ASSUME NEW t \in Threads, Step(t) PROVE HashInv'
    BY <1>2, ReadInv, FetchInv, IsNullInv, VerifyInv, ZeroBeginInv, ZeroEndInv, ReturnInv DEF Step
  <1>3. QED
    BY <1>1, <1>2 DEF HashNext

\* The inductive invariant holds throughout.
THEOREM HashInvariant == HashSpec => []HashInv
  BY InitHashInv, NextHashInv, PTL DEF HashSpec

\* Type correctness; a block that could not be fetched is refused.
THEOREM HashTypeCorrect == HashSpec => []HashTypeOK
  <1>1. HashInv => HashTypeOK
    BY DEF HashInv
  <1>2. QED
    BY <1>1, HashInvariant, PTL

\* No interleaving of readers zeroes the hash of a corrupt block.
THEOREM CorruptAlwaysChecked == HashSpec => []CorruptStaysChecked
  <1>1. HashInv => CorruptStaysChecked
    BY DEF HashInv
  <1>2. QED
    BY <1>1, HashInvariant, PTL

-----------------------------------------------------------------------------
\* Every step of the provider is one of the layer's, or none.
LEMMA LayerStep ==
  ASSUME HashInv, [HashNext]_hashVars
  PROVE  [Layer!Next]_(Layer!readVars)
  <1>1. CASE UNCHANGED hashVars
    BY <1>1 DEF hashVars, Layer!readVars, GenuineBlocks
  <1>2. ASSUME NEW t \in Threads, Step(t) PROVE [Layer!Next]_(Layer!readVars)
    <2>1. UNCHANGED GenuineBlocks
      BY <1>2 DEF Step, Read, Fetch, IsNull, Verify, ZeroBegin, ZeroEnd, Return, GenuineBlocks
    <2>2. ASSUME NEW r \in {"served", "refused"}, Finish(t, r), UNCHANGED reading,
                 pc[t] \notin {"idle", "done"}, r = "served" => reading[t] \in GenuineBlocks
          PROVE  Layer!Next
      <3>1. Layer!Answer(t, r)
        BY <2>1, <2>2 DEF Layer!Answer, Finish, HashInv, ReaderInv
      <3>2. QED
        BY <3>1 DEF Layer!Next
    <2>3. CASE \E b \in Blocks : Read(t, b)
      <3>1. PICK b \in Blocks : Read(t, b)
        BY <2>3
      <3>2. Layer!Ask(t, b)
        BY <2>1, <3>1 DEF Read, Layer!Ask, HashInv, ReaderInv
      <3>3. QED
        BY <3>2 DEF Layer!Next
    <2>4. CASE Fetch(t)
      BY <2>1, <2>2, <2>4 DEF Fetch, Layer!readVars
    <2>5. CASE IsNull(t)
      <3>1. reading[t] \in Blocks
        BY <2>5 DEF IsNull, HashInv, HashTypeOK, ReaderInv
      <3>2. mHashRegion[reading[t]] # "whole" => reading[t] \in GenuineBlocks
        BY <3>1 DEF HashInv, HashTypeOK, CorruptStaysChecked, GenuineBlocks
      <3>3. QED
        BY <2>1, <2>2, <2>5, <3>2 DEF IsNull, Layer!readVars
    <2>6. CASE Verify(t)
      BY <2>1, <2>2, <2>6 DEF Verify, Layer!readVars
    <2>7. CASE ZeroBegin(t)
      BY <2>1, <2>7 DEF ZeroBegin, Layer!readVars
    <2>8. CASE ZeroEnd(t)
      <3>1. reading[t] \in GenuineBlocks
        BY <2>8 DEF ZeroEnd, HashInv, HashTypeOK, ReaderInv, GenuineBlocks
      <3>2. QED
        BY <2>2, <2>8, <3>1 DEF ZeroEnd
    <2>9. CASE Return(t)
      <3>1. Layer!Return(t)
        BY <2>1, <2>9 DEF Return, Layer!Return, HashInv, ReaderInv
      <3>2. QED
        BY <3>1 DEF Layer!Next
    <2>10. QED
      BY <1>2, <2>3, <2>4, <2>5, <2>6, <2>7, <2>8, <2>9 DEF Step
  <1>3. QED
    BY <1>1, <1>2 DEF HashNext

\* Sha256Provider::read implements a hash layer: what it serves is genuine.
THEOREM ProviderServesOnlyGenuine == HashSpec => ServesOnlyGenuine
  <1>1. HashInit => Layer!Init
    BY DEF HashInit, Layer!Init, GenuineBlocks
  <1>2. HashInv /\ [HashNext]_hashVars => [Layer!Next]_(Layer!readVars)
    BY LayerStep
  <1>3. QED
    BY <1>1, <1>2, HashInvariant, PTL DEF HashSpec, ServesOnlyGenuine, Layer!Spec
=============================================================================
