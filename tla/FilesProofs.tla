----------------------------- MODULE FilesProofs ----------------------------
(***************************************************************************)
(* The files of builds on this machine: what a collector leaves on the     *)
(* shelf of its build and behind the pointer that all of them share, for   *)
(* every number of builds and every width of a byte, and what a sandbox    *)
(* holds, for every project and every place it is copied to.               *)
(***************************************************************************)
EXTENDS MCLocalBuild, LocalProofs, DataFacts

-----------------------------------------------------------------------------
(* The digits of a byte.                                                    *)

LEMMA WidthIsNat == Width \in Nat /\ Bytes \subseteq Values
  BY BytesAssumption

\* The functions that the three recursions choose are the ones they tell of.
LEMMA HalvedIs ==
  ASSUME NEW byte \in Nat
  PROVE  /\ \A i \in 0..Width : Halved(byte)[i] \in Nat
         /\ Halved(byte)[0] = byte
         /\ \A i \in 1..Width : Halved(byte)[i] = Halved(byte)[i - 1] \div 2
<1> DEFINE next == [p \in Nat \X Nat |-> p[2] \div 2]
           Is(f) == f = [i \in 0..Width |-> IF i = 0 THEN byte ELSE f[i - 1] \div 2]
<1>1. next \in [Nat \X Nat -> Nat]
  OBVIOUS
<1>2. \A i, v \in Nat : next[<<i, v>>] = v \div 2
  OBVIOUS
<1> HIDE DEF next
<1>3. PICK f \in [0..Width -> Nat] : f[0] = byte /\ \A i \in 1..Width : f[i] = next[<<i, f[i - 1]>>]
  BY <1>1, WidthIsNat, Recursion
<1>4. \A i \in 1..Width : f[i] = f[i - 1] \div 2
  <2> SUFFICES ASSUME NEW i \in 1..Width PROVE f[i] = f[i - 1] \div 2
    OBVIOUS
  <2>1. i \in Nat /\ i - 1 \in 0..Width
    BY WidthIsNat
  <2>2. f[i - 1] \in Nat
    BY <2>1
  <2> QED
    BY <1>2, <1>3, <2>1, <2>2
<1>5. Is(f)
  BY <1>3, <1>4, WidthIsNat
<1> DEFINE h == Halved(byte)
<1>6. Is(h)
  <2>1. Is(CHOOSE g : Is(g))
    BY <1>5
  <2>2. h = CHOOSE g : Is(g)
    BY DEF Halved
  <2> HIDE DEF Is, h
  <2> QED
    BY <2>1, <2>2
<1> HIDE DEF h
<1>7. h[0] = byte /\ \A i \in 1..Width : h[i] = h[i - 1] \div 2
  BY <1>6, WidthIsNat
<1>8. \A i \in 0..Width : h[i] \in Nat
  <2>1. \A i \in 1..Width : h[i - 1] \in Nat => h[i] \in Nat
    BY <1>7
  <2>2. h[0] \in Nat
    BY <1>7
  <2> QED
    BY <2>1, <2>2, WidthIsNat, RecursionStays
<1> QED
  BY <1>7, <1>8 DEF h

Digits == [0..(Width - 1) -> {0, 1}]

LEMMA ReadIs ==
  ASSUME NEW bits \in Digits
  PROVE  /\ \A i \in 0..Width : Read(bits)[i] \in Nat
         /\ Read(bits)[0] = 0
         /\ \A i \in 1..Width : Read(bits)[i] = 2 * Read(bits)[i - 1] + bits[i - 1]
<1> DEFINE Is(f) == f = [i \in 0..Width |-> IF i = 0 THEN 0 ELSE 2 * f[i - 1] + bits[i - 1]]
           next == [p \in Nat \X Nat |-> 2 * p[2] + (IF p[1] \in 1..Width THEN bits[p[1] - 1] ELSE 0)]
<1>1. \A i \in 1..Width : bits[i - 1] \in {0, 1}
  BY WidthIsNat DEF Digits
<1>2. next \in [Nat \X Nat -> Nat]
  BY <1>1, WidthIsNat
<1>3. \A i \in 1..Width : \A v \in Nat : next[<<i, v>>] = 2 * v + bits[i - 1]
  BY WidthIsNat
<1> HIDE DEF next
<1> DEFINE zero == 0
<1>4. PICK f \in [0..Width -> Nat] : f[0] = zero /\ \A i \in 1..Width : f[i] = next[<<i, f[i - 1]>>]
  <2>1. zero \in Nat
    OBVIOUS
  <2> HIDE DEF zero
  <2> QED
    BY <1>2, <2>1, WidthIsNat, Recursion
<1>5. \A i \in 1..Width : f[i] = 2 * f[i - 1] + bits[i - 1]
  <2> SUFFICES ASSUME NEW i \in 1..Width PROVE f[i] = 2 * f[i - 1] + bits[i - 1]
    OBVIOUS
  <2>1. i \in Nat /\ i - 1 \in 0..Width
    BY WidthIsNat
  <2>2. f[i - 1] \in Nat
    BY <2>1
  <2> QED
    BY <1>3, <1>4, <2>1, <2>2
<1>6. Is(f)
  BY <1>4, <1>5, WidthIsNat
<1> DEFINE h == Read(bits)
<1>7. Is(h)
  <2>1. Is(CHOOSE g : Is(g))
    BY <1>6
  <2>2. h = CHOOSE g : Is(g)
    BY DEF Read
  <2> HIDE DEF Is, h
  <2> QED
    BY <2>1, <2>2
<1> HIDE DEF h
<1>8. h[0] = 0 /\ \A i \in 1..Width : h[i] = 2 * h[i - 1] + bits[i - 1]
  BY <1>7, WidthIsNat
<1>9. \A i \in 0..Width : h[i] \in Nat
  <2>1. \A i \in 1..Width : h[i - 1] \in Nat => h[i] \in Nat
    BY <1>1, <1>8
  <2>2. h[0] \in Nat
    BY <1>8
  <2> QED
    BY <2>1, <2>2, WidthIsNat, RecursionStays
<1> QED
  BY <1>8, <1>9 DEF h

LEMMA NumbersIs ==
  /\ \A i \in 0..Width : Numbers[i] \in Nat
  /\ Numbers[0] = 1
  /\ \A i \in 1..Width : Numbers[i] = 2 * Numbers[i - 1]
<1> DEFINE next == [p \in Nat \X Nat |-> 2 * p[2]]
           Is(f) == f = [i \in 0..Width |-> IF i = 0 THEN 1 ELSE 2 * f[i - 1]]
<1>1. next \in [Nat \X Nat -> Nat]
  OBVIOUS
<1>2. \A i, v \in Nat : next[<<i, v>>] = 2 * v
  OBVIOUS
<1> HIDE DEF next
<1>3. PICK f \in [0..Width -> Nat] : f[0] = 1 /\ \A i \in 1..Width : f[i] = next[<<i, f[i - 1]>>]
  <2>1. 1 \in Nat
    OBVIOUS
  <2> QED
    BY <1>1, <2>1, WidthIsNat, Recursion
<1>4. \A i \in 1..Width : f[i] = 2 * f[i - 1]
  <2> SUFFICES ASSUME NEW i \in 1..Width PROVE f[i] = 2 * f[i - 1]
    OBVIOUS
  <2>1. i \in Nat /\ i - 1 \in 0..Width
    BY WidthIsNat
  <2>2. f[i - 1] \in Nat
    BY <2>1
  <2> QED
    BY <1>2, <1>3, <2>1, <2>2
<1>5. Is(f)
  BY <1>3, <1>4, WidthIsNat
<1> DEFINE h == Numbers
<1>6. Is(h)
  <2>1. Is(CHOOSE g : Is(g))
    BY <1>5
  <2>2. h = CHOOSE g : Is(g)
    BY DEF Numbers
  <2> HIDE DEF Is, h
  <2> QED
    BY <2>1, <2>2
<1> HIDE DEF h
<1>7. h[0] = 1 /\ \A i \in 1..Width : h[i] = 2 * h[i - 1]
  BY <1>6, WidthIsNat
<1>8. \A i \in 0..Width : h[i] \in Nat
  <2>1. \A i \in 1..Width : h[i - 1] \in Nat => h[i] \in Nat
    BY <1>7
  <2>2. h[0] \in Nat
    BY <1>7
  <2> QED
    BY <2>1, <2>2, WidthIsNat, RecursionStays
<1> QED
  BY <1>7, <1>8 DEF h

\* A byte has no more than Width digits.
LEMMA DigitsRunOut ==
  ASSUME NEW byte \in Values
  PROVE  byte \in Nat /\ Halved(byte)[Width] = 0
<1> DEFINE h == Halved(byte)
           n == Numbers
           Good == {k \in Nat : k <= Width => h[k] < n[Width - k]}
<1>1. /\ \A i \in 0..Width : n[i] \in Nat
      /\ n[0] = 1
      /\ \A i \in 1..Width : n[i] = 2 * n[i - 1]
  BY NumbersIs
<1>2. n[Width] \in Nat /\ byte \in Nat /\ byte < n[Width]
  BY <1>1, WidthIsNat DEF Values
<1>3. /\ \A i \in 0..Width : h[i] \in Nat
      /\ h[0] = byte
      /\ \A i \in 1..Width : h[i] = h[i - 1] \div 2
  BY <1>2, HalvedIs
<1> HIDE DEF h, n
<1>4. 0 \in Good
  BY <1>2, <1>3, WidthIsNat
<1>5. ASSUME NEW k \in Good \cap Nat PROVE k + 1 \in Good
  <2> SUFFICES ASSUME k + 1 <= Width PROVE h[k + 1] < n[Width - (k + 1)]
    OBVIOUS
  <2> DEFINE m == Width - (k + 1)
  <2>1. m \in 0..Width /\ m + 1 \in 1..Width /\ Width - k = m + 1 /\ k \in 0..Width /\ k + 1 \in 1..Width
    BY WidthIsNat
  <2>2. h[k] < n[m + 1] /\ n[m] \in Nat /\ h[k] \in Nat
    BY <1>1, <1>3, <2>1
  <2>3. n[m + 1] = 2 * n[m]
    <3>1. (m + 1) - 1 = m
      BY <2>1
    <3> QED
      BY <1>1, <2>1, <3>1
  <2>4. h[k + 1] = h[k] \div 2
    <3>1. (k + 1) - 1 = k
      BY <2>1
    <3> QED
      BY <1>3, <2>1, <3>1
  <2> QED
    BY <2>2, <2>3, <2>4
<1> HIDE DEF Good
<1>6. Nat \subseteq Good
  BY <1>4, <1>5, SetInduction
<1>7. h[Width] < n[0]
  <2>1. Width \in Good /\ Width - Width = 0
    BY <1>6, WidthIsNat
  <2> QED
    BY <2>1, WidthIsNat DEF Good
<1> QED
  BY <1>1, <1>2, <1>3, <1>7, WidthIsNat DEF h

\* What is read is a byte.
LEMMA ReadIsByte == ASSUME NEW bits \in Digits PROVE Read(bits)[Width] \in Values
<1> DEFINE r == Read(bits)
           n == Numbers
           Good == {k \in Nat : k <= Width => r[k] < n[k]}
<1>1. /\ \A i \in 0..Width : n[i] \in Nat
      /\ n[0] = 1
      /\ \A i \in 1..Width : n[i] = 2 * n[i - 1]
  BY NumbersIs
<1>2. /\ \A i \in 0..Width : r[i] \in Nat
      /\ r[0] = 0
      /\ \A i \in 1..Width : r[i] = 2 * r[i - 1] + bits[i - 1]
  BY ReadIs
<1> HIDE DEF r, n
<1>3. 0 \in Good
  BY <1>1, <1>2
<1>4. ASSUME NEW k \in Good \cap Nat PROVE k + 1 \in Good
  <2> SUFFICES ASSUME k + 1 <= Width PROVE r[k + 1] < n[k + 1]
    OBVIOUS
  <2>1. k \in 0..Width /\ k + 1 \in 1..Width /\ (k + 1) - 1 = k /\ k \in 0..(Width - 1)
    BY WidthIsNat
  <2>2. r[k] < n[k] /\ n[k] \in Nat /\ r[k] \in Nat /\ bits[k] \in {0, 1}
    BY <1>1, <1>2, <2>1 DEF Digits
  <2>3. n[k + 1] = 2 * n[k] /\ r[k + 1] = 2 * r[k] + bits[k]
    BY <1>1, <1>2, <2>1
  <2> QED
    BY <2>2, <2>3
<1> HIDE DEF Good
<1>5. Nat \subseteq Good
  BY <1>3, <1>4, SetInduction
<1>6. r[Width] < n[Width] /\ r[Width] \in Nat /\ n[Width] \in Nat
  BY <1>1, <1>2, <1>5, WidthIsNat DEF Good
<1> QED
  BY <1>6 DEF Values, r, n

\* Halving a number takes back what reading its digits has done.
LEMMA HalvingUnreads ==
  ASSUME NEW bits \in Digits
  PROVE  \A k \in 0..Width : Halved(Read(bits)[Width])[k] = Read(bits)[Width - k]
<1> DEFINE r == Read(bits)
           h == Halved(r[Width])
           Good == {k \in Nat : k <= Width => h[k] = r[Width - k]}
<1>1. /\ \A i \in 0..Width : r[i] \in Nat
      /\ \A i \in 1..Width : r[i] = 2 * r[i - 1] + bits[i - 1]
  BY ReadIs
<1>2. r[Width] \in Nat
  BY <1>1, WidthIsNat
<1>3. h[0] = r[Width] /\ \A i \in 1..Width : h[i] = h[i - 1] \div 2
  BY <1>2, HalvedIs
<1> HIDE DEF h, r
<1>4. 0 \in Good
  BY <1>3, WidthIsNat
<1>5. ASSUME NEW k \in Good \cap Nat PROVE k + 1 \in Good
  <2> SUFFICES ASSUME k + 1 <= Width PROVE h[k + 1] = r[Width - (k + 1)]
    OBVIOUS
  <2> DEFINE m == Width - (k + 1)
  <2>1. /\ m \in 0..(Width - 1) /\ m \in 0..Width /\ m + 1 \in 1..Width /\ (m + 1) - 1 = m
        /\ Width - k = m + 1 /\ k + 1 \in 1..Width /\ (k + 1) - 1 = k
    BY WidthIsNat
  <2>2. h[k] = r[m + 1]
    <3>1. h[k] = r[Width - k]
      BY WidthIsNat
    <3> QED
      BY <2>1, <3>1
  <2>6. h[k + 1] = h[k] \div 2
    <3> HIDE DEF Good, m
    <3> QED
      BY <1>3, <2>1
  <2>3. r[m + 1] = 2 * r[m] + bits[m]
    BY <1>1, <2>1
  <2>4. r[m] \in Nat /\ bits[m] \in {0, 1}
    BY <1>1, <2>1 DEF Digits
  <2>5. (2 * r[m] + bits[m]) \div 2 = r[m]
    BY <2>4
  <2> QED
    BY <2>2, <2>3, <2>5, <2>6
<1> HIDE DEF Good
<1>6. Nat \subseteq Good
  BY <1>4, <1>5, SetInduction
<1>7. \A k \in 0..Width : h[k] = r[Width - k]
  BY <1>6, WidthIsNat DEF Good
<1> QED
  BY <1>7 DEF h, r

LEMMA BitsAreDigits ==
  ASSUME NEW byte \in Nat
  PROVE  [i \in 0..(Width - 1) |-> Bit(byte, i)] \in Digits
<1>1. \A i \in 0..(Width - 1) : Halved(byte)[i] \in Nat
  BY HalvedIs, WidthIsNat
<1>2. \A i \in 0..(Width - 1) : Bit(byte, i) \in {0, 1}
  BY <1>1 DEF Bit
<1> QED
  BY <1>2 DEF Digits

LEMMA HalfAndRest == ASSUME NEW n \in Nat PROVE n % 2 = n - 2 * (n \div 2)
  OBVIOUS

\* The mirror of a byte is a byte, has its digits in reverse, and is mirrored back.
LEMMA MirrorReverses ==
  ASSUME NEW byte \in Values
  PROVE  /\ Mirror(byte) \in Values
         /\ \A i \in 0..(Width - 1) : Bit(Mirror(byte), i) = Bit(byte, Width - 1 - i)
         /\ Mirror(Mirror(byte)) = byte
<1> DEFINE bits == [i \in 0..(Width - 1) |-> Bit(byte, i)]
           m == Mirror(byte)
           back == [i \in 0..(Width - 1) |-> Bit(m, i)]
           h == Halved(byte)
           r == Read(back)
           Good == {k \in Nat : k <= Width => r[k] = h[Width - k]}
<1>1. byte \in Nat /\ h[Width] = 0
  BY DigitsRunOut
<1>2. bits \in Digits
  BY <1>1, BitsAreDigits
<1>3. m = Read(bits)[Width]
  BY DEF Mirror
<1>4. m \in Values
  BY <1>2, <1>3, ReadIsByte
<1>5. m \in Nat
  BY <1>4, DigitsRunOut
<1>6. ASSUME NEW i \in 0..(Width - 1) PROVE Bit(m, i) = Bit(byte, Width - 1 - i)
  <2> HIDE DEF bits, m
  <2> DEFINE j == Width - 1 - i
  <2>1. i \in 0..Width /\ Width - i = j + 1 /\ j + 1 \in 1..Width /\ (j + 1) - 1 = j /\ j \in 0..(Width - 1)
    BY WidthIsNat
  <2>2. Halved(m)[i] = Read(bits)[j + 1]
    BY <1>2, <1>3, <2>1, HalvingUnreads
  <2>3. Read(bits)[j + 1] = 2 * Read(bits)[j] + bits[j] /\ Read(bits)[j] \in Nat
    <3> HIDE DEF j
    <3>1. j \in 0..Width
      BY <2>1, WidthIsNat
    <3>2. Read(bits)[j + 1] = 2 * Read(bits)[(j + 1) - 1] + bits[(j + 1) - 1]
      BY <1>2, <2>1, ReadIs
    <3> QED
      BY <1>2, <2>1, <3>1, <3>2, ReadIs
  <2>4. bits[j] \in {0, 1} /\ bits[j] = Bit(byte, j)
    BY <1>2, <2>1 DEF Digits, bits
  <2>5. (2 * Read(bits)[j] + bits[j]) % 2 = bits[j]
    BY <2>3, <2>4
  <2> QED
    BY <2>2, <2>3, <2>4, <2>5 DEF Bit
<1>7. back \in Digits
  BY <1>5, BitsAreDigits
<1>8. \A i \in 0..(Width - 1) : back[i] = h[Width - 1 - i] % 2
  BY <1>6 DEF Bit
<1>9. Mirror(m) = r[Width]
  BY DEF Mirror
<1>10. /\ \A i \in 0..Width : h[i] \in Nat
       /\ h[0] = byte
       /\ \A i \in 1..Width : h[i] = h[i - 1] \div 2
  BY <1>1, HalvedIs
<1>11. r[0] = 0 /\ \A i \in 1..Width : r[i] = 2 * r[i - 1] + back[i - 1]
  <2> HIDE DEF back
  <2> QED
    BY <1>7, ReadIs
<1> HIDE DEF bits, m, back, h, r
<1>12. 0 \in Good
  BY <1>1, <1>11, WidthIsNat
<1>13. ASSUME NEW k \in Good \cap Nat PROVE k + 1 \in Good
  <2> SUFFICES ASSUME k + 1 <= Width PROVE r[k + 1] = h[Width - (k + 1)]
    OBVIOUS
  <2> DEFINE j == Width - (k + 1)
  <2>1. /\ k \in 0..(Width - 1) /\ k + 1 \in 1..Width /\ (k + 1) - 1 = k /\ Width - 1 - k = j
        /\ Width - k = j + 1 /\ j + 1 \in 1..Width /\ (j + 1) - 1 = j /\ j \in 0..Width
    BY WidthIsNat
  <2>2. r[k] = h[j + 1]
    <3>1. r[k] = h[Width - k]
      BY WidthIsNat
    <3> QED
      BY <2>1, <3>1
  <2>5. r[k + 1] = 2 * r[k] + back[k]
    <3> HIDE DEF Good, j
    <3> QED
      BY <1>11, <2>1
  <2>6. back[k] = h[j] % 2
    <3> HIDE DEF Good
    <3> QED
      BY <1>8, <2>1
  <2>3. h[j + 1] = h[j] \div 2 /\ h[j] \in Nat
    BY <1>10, <2>1
  <2> HIDE DEF Good, j
  <2>4. h[j] % 2 = h[j] - 2 * (h[j] \div 2) /\ h[j] \div 2 \in Nat
    BY <2>3, HalfAndRest
  <2>7. r[k + 1] = 2 * (h[j] \div 2) + (h[j] % 2)
    BY <2>2, <2>3, <2>5, <2>6
  <2> QED
    BY <2>3, <2>4, <2>7 DEF j
<1> HIDE DEF Good
<1>14. Nat \subseteq Good
  BY <1>12, <1>13, SetInduction
<1>15. r[Width] = h[0]
  <2>1. Width \in Good /\ Width - Width = 0
    BY <1>14, WidthIsNat
  <2> QED
    BY <2>1, WidthIsNat DEF Good
<1> QED
  BY <1>4, <1>6, <1>9, <1>10, <1>15 DEF m

-----------------------------------------------------------------------------
(* The collectors of one core.                                              *)

ArtSpec == ArtInit /\ [][ArtNext]_artVars

\* A directory is complete from the copies on, and what the pointer names is complete.
Renewing == {"look", "unlink", "link", "text"}

Complete ==
  /\ \A b \in Builds : step[b] \in Renewing \cup {"promote", "done"} <=> b \in full
  /\ {latest, text} \subseteq full \cup {NoBuild}

\* What is on the shelf, and what was shipped from it.
Shelved ==
  /\ \A b \in full : shelf[b] = IF made[b] = None THEN None ELSE Mirror(made[b])
  /\ dist \in {None} \cup {shelf[b] : b \in full}

\* Who finds a link, or gives up on making one, is not the first to renew the pointer.
NotTheFirst ==
  pointed = NoBuild =>
    /\ latest = NoBuild
    /\ \A b \in Builds : step[b] # "unlink" /\ (links => step[b] # "text")

\* The pointer is lost only while somebody is about to write it anew, and where links
\* can be made only while somebody is about to make one.
PointerOrRenewal == pointed \in {latest, text} \/ \E b \in Builds : step[b] \in {"link", "text"}

LinkOrLinking ==
  pointed # NoBuild /\ links => latest # NoBuild \/ \E b \in Builds : step[b] = "link"

ArtInv ==
  ArtTypeOK /\ Complete /\ Shelved /\ NotTheFirst /\ PointerOrRenewal /\ LinkOrLinking

LEMMA ArtTypeStep ==
  ASSUME ArtTypeOK, Complete, Shelved, NEW b \in Builds, Collector(b)
  PROVE  ArtTypeOK'
<1> USE DEF ArtTypeOK, At
<1>1. CASE Built(b)
  BY <1>1 DEF Built
<1>2. CASE Copy(b)
  <2>1. made[b] # None => Mirror(made[b]) \in Values
    BY WidthIsNat, MirrorReverses
  <2>2. shelf' \in [Builds -> Values \cup {None}]
    BY <1>2, <2>1 DEF Copy
  <2> QED
    BY <1>2, <2>2 DEF Copy
<1>3. CASE CopyFails(b) \/ Look(b) \/ Unlink(b)
  BY <1>3 DEF CopyFails, Look, Unlink
<1>4. CASE Link(b) \/ LinkFails(b) \/ WriteText(b)
  BY <1>4 DEF Link, LinkFails, WriteText
<1>5. CASE Promote(b)
  <2>1. dist' \in Values \cup {None}
    BY <1>5 DEF Promote
  <2> QED
    BY <1>5, <2>1 DEF Promote
<1> QED
  BY <1>1, <1>2, <1>3, <1>4, <1>5 DEF Collector

LEMMA ShelfStep ==
  ASSUME ArtTypeOK, Complete, Shelved, NEW b \in Builds, Collector(b)
  PROVE  Complete' /\ Shelved'
<1> USE DEF ArtTypeOK, Complete, Shelved, Renewing, At
<1>1. CASE Built(b)
  BY <1>1 DEF Built
<1>2. CASE Copy(b)
  BY <1>2 DEF Copy
<1>3. CASE CopyFails(b) \/ Look(b) \/ Unlink(b)
  BY <1>3 DEF CopyFails, Look, Unlink
<1>4. CASE Link(b) \/ LinkFails(b) \/ WriteText(b)
  BY <1>4 DEF Link, LinkFails, WriteText
<1>5. CASE Promote(b)
  BY <1>5 DEF Promote
<1> QED
  BY <1>1, <1>2, <1>3, <1>4, <1>5 DEF Collector

LEMMA PointerStep ==
  ASSUME ArtInv, NEW b \in Builds, Collector(b)
  PROVE  NotTheFirst' /\ PointerOrRenewal' /\ LinkOrLinking'
<1> USE BuildsAssumption
        DEF ArtInv, ArtTypeOK, NotTheFirst, PointerOrRenewal, LinkOrLinking, At
<1>1. CASE Built(b) \/ Copy(b) \/ CopyFails(b)
  BY <1>1 DEF Built, Copy, CopyFails
<1>2. CASE Look(b)
  BY <1>2 DEF Look
<1>3. CASE Unlink(b)
  BY <1>3 DEF Unlink
<1>4. CASE Link(b)
  BY <1>4 DEF Link
<1>5. CASE LinkFails(b)
  BY <1>5 DEF LinkFails, Refused
<1>6. CASE WriteText(b)
  BY <1>6 DEF WriteText
<1>7. CASE Promote(b)
  BY <1>7 DEF Promote
<1> QED
  BY <1>1, <1>2, <1>3, <1>4, <1>5, <1>6, <1>7 DEF Collector

LEMMA ArtInvariant == ArtSpec => []ArtInv
<1>1. ArtInit => ArtInv
  BY DEF ArtInit, ArtInv, ArtTypeOK, Complete, Shelved, NotTheFirst, PointerOrRenewal, LinkOrLinking, Renewing
<1>2. ArtInv /\ [ArtNext]_artVars => ArtInv'
  <2>1. ArtInv /\ ArtNext => ArtInv'
    BY ArtTypeStep, ShelfStep, PointerStep DEF ArtInv, ArtNext
  <2>2. ArtInv /\ UNCHANGED artVars => ArtInv'
    BY DEF artVars, ArtInv, ArtTypeOK, Complete, Shelved, NotTheFirst, PointerOrRenewal, LinkOrLinking
  <2> QED
    BY <2>1, <2>2
<1> QED
  BY <1>1, <1>2, PTL DEF ArtSpec

-----------------------------------------------------------------------------
(* The theorems.                                                            *)

\* However many collectors race for it, the pointer stands when none of them renews it,
\* and never names a directory that is not complete.
THEOREM PointerNeverLost == ArtSpec => []PointerStands
<1>1. ArtInv => PointerStands
  BY DEF ArtInv, Complete, PointerOrRenewal, LinkOrLinking, PointerStands
<1> QED
  BY <1>1, ArtInvariant, PTL

\* What is on the shelf or was shipped from it is the mirror image of what Quartus made,
\* for every width of a byte, and mirroring it again gives that back.
THEOREM NothingShippedRaw == ArtSpec => []ShelfMirrors
<1>1. ArtInv => ShelfMirrors
  <2> SUFFICES ASSUME ArtInv PROVE ShelfMirrors
    OBVIOUS
  <2>1. ASSUME NEW b \in full, made[b] # None
        PROVE  /\ \A i \in 0..(Width - 1) : Bit(shelf[b], i) = Bit(made[b], Width - 1 - i)
               /\ Mirror(shelf[b]) = made[b]
    <3>1. made[b] \in Values /\ shelf[b] = Mirror(made[b])
      BY <2>1, WidthIsNat DEF ArtInv, ArtTypeOK, Shelved
    <3> QED
      BY <3>1, MirrorReverses
  <2> QED
    BY <2>1 DEF ArtInv, Shelved, ShelfMirrors
<1> QED
  BY <1>1, ArtInvariant, PTL

-----------------------------------------------------------------------------
(* Paths.                                                                   *)

\* Names of files; that a name written out is a string the provers do not know.
Names == STRING \cup Ignored \cup {"core", "made"}

Paths == Seq(Names)

LEMMA PrefixIs ==
  ASSUME NEW s \in Paths, NEW t \in Paths
  PROVE  IsPrefix(s, t) <=> Len(s) <= Len(t) /\ \A i \in 1..Len(s) : s[i] = t[i]
BY SeqPrefixIs DEF Paths

LEMMA JoinIs ==
  ASSUME NEW s \in Paths, NEW t \in Paths
  PROVE  /\ s \o t \in Paths
         /\ Len(s) \in Nat /\ Len(t) \in Nat /\ Len(s \o t) = Len(s) + Len(t)
         /\ \A i \in 1..Len(s) : (s \o t)[i] = s[i]
         /\ \A i \in 1..Len(t) : (s \o t)[Len(s) + i] = t[i]
BY SeqJoinIs DEF Paths

\* What is left of a path below a directory.
LEMMA CutIs ==
  ASSUME NEW s \in Paths, NEW t \in Paths
  PROVE  IsPrefix(s, s \o t) /\ SubSeq(s \o t, Len(s) + 1, Len(s \o t)) = t
BY SeqCutIs DEF Paths

\* The beginning of a path.
LEMMA FrontIs ==
  ASSUME NEW s \in Paths, NEW n \in 0..Len(s)
  PROVE  /\ SubSeq(s, 1, n) \in Paths
         /\ Len(SubSeq(s, 1, n)) = n
         /\ \A i \in 1..n : SubSeq(s, 1, n)[i] = s[i]
BY SeqFrontIs DEF Paths

LEMMA RootIs == Root \in Paths /\ Len(Root) = 1 /\ Root[1] = "core"
<1>1. "core" \in Names
  BY DEF Names
<1>2. Root = [i \in 1..1 |-> "core"]
  BY DEF Root
<1>3. Root \in [1..1 -> Names]
  BY <1>1, <1>2
<1>4. Root \in Seq(Names)
  BY <1>3, SeqDef
<1> QED
  BY <1>2, <1>4, LenProperties DEF Paths, Root

-----------------------------------------------------------------------------
(* The copy.                                                                *)

CopySpec == CopyInit /\ [][CopyNext]_copyVars

\* A work directory within the core is below a directory that copytree leaves out: a
\* sweep works in the core's .superq, or in a cache that is not in the core.
WorkDirsApart ==
  \A dir \in WorkDirs : dir[1] = "core" => Len(dir) > 1 /\ dir[2] \in Ignored

\* Paths that copytree, from the root on, does not leave out.
Free(q) == Len(q) > 0 /\ q[1] = "core" /\ \A i \in 2..Len(q) : q[i] \notin Ignored

TreeInv == tree \subseteq Paths /\ IsFiniteSet(tree)

WorkInv == copy # "idle" => work \in WorkDirs

\* The project is there, and nothing else that would be copied.
SourceInv ==
  /\ \A p \in Wanted : Root \o p \in tree
  /\ \A q \in tree : Free(q) => \E p \in Wanted : q = Root \o p

BoxInv ==
  copy \in {"copy", "ready", "raised"} =>
    \A q \in Below(Sandbox) : \E p \in Wanted : q = Sandbox \o p

\* What is still to be copied belongs into the sandbox.
Copies == {<<Root \o p, Sandbox \o p>> : p \in Wanted}

PendInv == copy = "copy" => pend \in Seq(Copies)

\* What is not in the sandbox is still to be copied, or a directory above it is.
CoverInv ==
  /\ copy = "copy" =>
       \A w \in Wanted :
         \/ Sandbox \o w \in tree
         \/ \E i \in 1..Len(pend) : \E p \in Wanted :
              pend[i] = <<Root \o p, Sandbox \o p>> /\ IsPrefix(p, w)
  /\ copy = "ready" => \A w \in Wanted : Sandbox \o w \in tree

CopyInv == TreeInv /\ WorkInv /\ SourceInv /\ BoxInv /\ PendInv /\ CoverInv

LEMMA StringsAreNames == Seq(STRING) \subseteq Paths
<1> SUFFICES ASSUME NEW s \in Seq(STRING) PROVE s \in Seq(Names)
  BY DEF Paths
<1>1. STRING \subseteq Names
  BY DEF Names
<1> QED
  BY <1>1, SeqMonotonic

LEMMA WantedIs ==
  /\ Wanted \subseteq Paths /\ <<>> \in Wanted
  /\ \A p \in Wanted : \A i \in 1..Len(p) : p[i] \notin Ignored
  /\ \A p \in Wanted : \A n \in 0..Len(p) : SubSeq(p, 1, n) \in Wanted
<1>1. Wanted \subseteq Paths /\ <<>> \in Wanted /\ \A p \in Wanted : \A i \in 1..Len(p) : p[i] \notin Ignored
  BY ProjectAssumption, StringsAreNames DEF Wanted
<1>2. ASSUME NEW p \in Wanted, NEW n \in 0..Len(p) PROVE SubSeq(p, 1, n) \in Wanted
  <2>1. SubSeq(p, 1, n) \in Project
    BY ProjectAssumption DEF Wanted
  <2>2. p \in Paths /\ Len(p) \in Nat
    BY <1>1, LenProperties DEF Paths
  <2> DEFINE f == SubSeq(p, 1, n)
  <2>3. Len(f) = n /\ \A i \in 1..n : f[i] = p[i]
    BY <2>2, FrontIs
  <2> HIDE DEF f
  <2>4. \A i \in 1..Len(f) : f[i] \notin Ignored
    BY <1>1, <2>2, <2>3
  <2>5. f \in Wanted
    BY <2>1, <2>4 DEF Wanted, f
  <2> QED
    BY <2>5 DEF f
<1> QED
  BY <1>1, <1>2

LEMMA WorkDirsAre == \A dir \in WorkDirs : dir \in Paths /\ Len(dir) \in Nat \ {0}
<1> SUFFICES ASSUME NEW dir \in WorkDirs PROVE dir \in Paths /\ Len(dir) \in Nat \ {0}
  OBVIOUS
<1>1. dir \in Seq(STRING) /\ dir # <<>>
  BY WorkDirsAssumption
<1> QED
  BY <1>1, StringsAreNames, EmptySeq

\* A path of the project, from its root, is free.
LEMMA RootedIsFree ==
  ASSUME NEW p \in Wanted
  PROVE  Root \o p \in Paths /\ Free(Root \o p)
<1>1. p \in Paths /\ \A i \in 1..Len(p) : p[i] \notin Ignored
  BY WantedIs
<1> DEFINE q == Root \o p
<1>2. /\ q \in Paths /\ Len(p) \in Nat /\ Len(q) = Len(Root) + Len(p)
      /\ \A i \in 1..Len(Root) : q[i] = Root[i]
      /\ \A i \in 1..Len(p) : q[Len(Root) + i] = p[i]
  BY <1>1, RootIs, JoinIs
<1> HIDE DEF q
<1>3. ASSUME NEW i \in 2..Len(q) PROVE q[i] \notin Ignored
  <2>1. i - 1 \in 1..Len(p) /\ Len(Root) + (i - 1) = i
    BY <1>2, RootIs
  <2>2. q[Len(Root) + (i - 1)] = p[i - 1]
    BY <1>2, <2>1
  <2> QED
    BY <1>1, <2>1, <2>2
<1>4. Free(q)
  BY <1>2, <1>3, RootIs DEF Free
<1> QED
  BY <1>2, <1>4 DEF q

\* Nothing in a sandbox is free.
LEMMA BoxIsApart ==
  ASSUME WorkDirsApart, NEW dir \in WorkDirs, NEW q \in Paths, IsPrefix(dir \o Root, q)
  PROVE  ~Free(q)
<1> DEFINE inner == dir \o Root
<1>1. dir \in Paths /\ Len(dir) \in Nat \ {0}
  BY WorkDirsAre
<1>2. inner \in Paths /\ Len(inner) = Len(dir) + 1 /\ \A i \in 1..Len(dir) : inner[i] = dir[i]
  <2>1. inner \in Paths /\ Len(inner) = Len(dir) + Len(Root) /\ \A i \in 1..Len(dir) : inner[i] = dir[i]
    BY <1>1, RootIs, JoinIs
  <2> HIDE DEF inner
  <2> QED
    BY <2>1, RootIs
<1> HIDE DEF inner
<1>3. Len(inner) <= Len(q) /\ \A i \in 1..Len(inner) : inner[i] = q[i]
  <2>1. IsPrefix(inner, q)
    BY DEF inner
  <2> QED
    BY <1>2, <2>1, PrefixIs
<1>4. Len(q) \in Nat
  BY LenProperties DEF Paths
<1>5. \A i \in 1..Len(dir) : q[i] = dir[i]
  BY <1>1, <1>2, <1>3
<1>6. CASE dir[1] # "core"
  BY <1>1, <1>5, <1>6 DEF Free
<1>7. CASE dir[1] = "core"
  <2>1. Len(dir) > 1 /\ dir[2] \in Ignored
    BY <1>7 DEF WorkDirsApart
  <2>2. q[2] \in Ignored /\ 2 \in 2..Len(q)
    BY <1>1, <1>2, <1>3, <1>4, <1>5, <2>1
  <2> QED
    BY <2>2 DEF Free
<1> QED
  BY <1>6, <1>7

\* Nor is a directory that holds one, but the root.
LEMMA AboveIsApart ==
  ASSUME WorkDirsApart, NEW dir \in WorkDirs, NEW n \in 1..Len(dir), Free(SubSeq(dir, 1, n))
  PROVE  SubSeq(dir, 1, n) = Root \o <<>>
<1> DEFINE q == SubSeq(dir, 1, n)
<1>1. dir \in Paths /\ Len(dir) \in Nat \ {0}
  BY WorkDirsAre
<1>2. q \in Paths /\ Len(q) = n /\ \A i \in 1..n : q[i] = dir[i]
  BY <1>1, FrontIs
<1>3. Free(q)
  OBVIOUS
<1> HIDE DEF q
<1>4. dir[1] = "core"
  BY <1>2, <1>3 DEF Free
<1>5. dir[2] \in Ignored
  BY <1>4 DEF WorkDirsApart
<1>6. n = 1
  <2>1. n > 1 => 2 \in 2..Len(q) /\ q[2] \in Ignored
    BY <1>2, <1>5
  <2> QED
    BY <1>3, <2>1 DEF Free
<1>7. q[1] = "core"
  BY <1>3 DEF Free
<1>8. q = Root
  BY <1>2, <1>6, <1>7, RootIs, SeqEqual DEF Paths
<1>9. Root \o <<>> = Root
  BY RootIs, ConcatEmptySeq DEF Paths
<1> QED
  BY <1>8, <1>9 DEF q

\* What is copied of a directory: what the project has in it.
LEMMA KeptIs ==
  ASSUME SourceInv, TreeInv, NEW p \in Wanted
  PROVE  /\ \A q \in Kept(Root \o p) : \E n \in Names :
              Append(p, n) \in Wanted /\ q = Root \o Append(p, n) /\ q[Len(q)] = n
         /\ \A w \in Wanted : IsPrefix(p, w) /\ w # p =>
              \E n \in Names :
                /\ Append(p, n) \in Wanted /\ IsPrefix(Append(p, n), w)
                /\ Root \o Append(p, n) \in Kept(Root \o p)
                /\ (Root \o Append(p, n))[Len(Root \o Append(p, n))] = n
<1> DEFINE src == Root \o p
<1>1. p \in Paths /\ Len(p) \in Nat /\ \A w \in Wanted : w \in Paths
  BY WantedIs, LenProperties DEF Paths
<1>2. src \in Paths /\ Free(src) /\ Len(src) = Len(p) + 1
  <2>1. src \in Paths /\ Len(src) = Len(Root) + Len(p)
    BY <1>1, RootIs, JoinIs
  <2>2. Free(src)
    BY RootedIsFree
  <2> HIDE DEF src
  <2> QED
    BY <1>1, <2>1, <2>2, RootIs
<1>3. ASSUME NEW v \in Paths
      PROVE  /\ Root \o v \in Paths /\ Len(v) \in Nat /\ Len(Root \o v) = Len(v) + 1
             /\ (Root \o v)[1] = "core"
             /\ \A i \in 1..Len(v) : (Root \o v)[i + 1] = v[i]
  <2> DEFINE r == Root \o v
  <2>1. /\ r \in Paths /\ Len(v) \in Nat /\ Len(r) = Len(Root) + Len(v)
        /\ \A i \in 1..Len(Root) : r[i] = Root[i]
        /\ \A i \in 1..Len(v) : r[Len(Root) + i] = v[i]
    BY RootIs, JoinIs
  <2> HIDE DEF r
  <2>2. \A i \in 1..Len(v) : Len(Root) + i = i + 1
    BY <2>1, RootIs
  <2>3. Len(r) = Len(v) + 1 /\ r[1] = "core" /\ \A i \in 1..Len(v) : r[i + 1] = v[i]
    BY <2>1, <2>2, RootIs
  <2> QED
    BY <2>1, <2>3 DEF r
<1>4. ASSUME NEW n \in Names
      PROVE  /\ Append(p, n) \in Paths /\ Len(Append(p, n)) = Len(p) + 1
             /\ \A i \in 1..Len(p) : Append(p, n)[i] = p[i]
             /\ Append(p, n)[Len(p) + 1] = n
  BY <1>1, AppendProperties DEF Paths
<1>5. ASSUME NEW q \in Kept(src)
      PROVE  \E n \in Names : Append(p, n) \in Wanted /\ q = Root \o Append(p, n) /\ q[Len(q)] = n
  <2>1. q \in tree /\ q \in Paths /\ Len(q) = Len(src) + 1 /\ IsPrefix(src, q) /\ q[Len(q)] \notin Ignored
    BY <1>5 DEF Kept, Listed, TreeInv
  <2> HIDE DEF src
  <2>2. \A i \in 1..Len(src) : q[i] = src[i]
    BY <1>2, <2>1, PrefixIs
  <2>3. Free(q)
    BY <1>1, <1>2, <2>1, <2>2 DEF Free
  <2>4. PICK v \in Wanted : q = Root \o v
    BY <2>1, <2>3 DEF SourceInv
  <2>5. /\ v \in Paths /\ Len(v) = Len(p) + 1
        /\ \A i \in 1..Len(v) : q[i + 1] = v[i]
    BY <1>1, <1>2, <1>3, <2>1, <2>4
  <2>6. \A i \in 1..Len(p) : src[i + 1] = p[i]
    BY <1>1, <1>3 DEF src
  <2>7. \A i \in 1..Len(p) : v[i] = p[i]
    <3> SUFFICES ASSUME NEW i \in 1..Len(p) PROVE v[i] = p[i]
      OBVIOUS
    <3>1. i + 1 \in 1..Len(src) /\ i \in 1..Len(v)
      BY <1>1, <1>2, <2>5
    <3> QED
      BY <2>2, <2>5, <2>6, <3>1
  <2> DEFINE n == v[Len(p) + 1]
  <2>8. n \in Names
    BY <1>1, <2>5, LenProperties DEF Paths
  <2>9. v = Append(p, n)
    <3>1. Append(p, n) \in Paths /\ Len(Append(p, n)) = Len(v)
      BY <1>4, <2>5, <2>8
    <3>2. \A i \in 1..Len(v) : Append(p, n)[i] = v[i]
      BY <1>1, <1>4, <2>5, <2>7, <2>8
    <3> HIDE DEF n
    <3> QED
      BY <2>5, <3>1, <3>2, SeqEqual DEF Paths
  <2>10. q[Len(q)] = n
    BY <1>1, <1>2, <2>1, <2>5
  <2> HIDE DEF n
  <2> QED
    BY <2>4, <2>8, <2>9, <2>10
<1>6. ASSUME NEW w \in Wanted, IsPrefix(p, w), w # p
      PROVE  \E n \in Names :
               /\ Append(p, n) \in Wanted /\ IsPrefix(Append(p, n), w)
               /\ Root \o Append(p, n) \in Kept(src)
               /\ (Root \o Append(p, n))[Len(Root \o Append(p, n))] = n
  <2>1. w \in Paths /\ Len(w) \in Nat /\ w \in [1..Len(w) -> Names]
    BY <1>1, LenProperties DEF Paths
  <2>2. Len(p) <= Len(w) /\ \A i \in 1..Len(p) : p[i] = w[i]
    BY <1>1, <1>6, <2>1, PrefixIs
  <2>3. Len(p) # Len(w)
    BY <1>1, <1>6, <2>1, <2>2, SeqEqual DEF Paths
  <2> DEFINE m == Len(p) + 1
             f == SubSeq(w, 1, m)
             n == w[m]
  <2>4. m \in 0..Len(w) /\ m \in 1..Len(w) /\ n \in Names
    BY <1>1, <2>1, <2>2, <2>3
  <2>5. f \in Wanted
    BY <2>4, WantedIs
  <2>6. f \in Paths /\ Len(f) = m /\ \A i \in 1..m : f[i] = w[i]
    <3> HIDE DEF m
    <3> QED
      BY <2>1, <2>4, FrontIs
  <2> HIDE DEF f
  <2>7. f = Append(p, n)
    <3>1. Append(p, n) \in Paths /\ Len(Append(p, n)) = Len(f)
      BY <1>4, <2>4, <2>6
    <3>2. \A i \in 1..Len(f) : f[i] = Append(p, n)[i]
      BY <1>1, <1>4, <2>2, <2>4, <2>6
    <3> HIDE DEF n
    <3> QED
      BY <2>6, <3>1, <3>2, SeqEqual DEF Paths
  <2>8. IsPrefix(f, w)
    BY <2>1, <2>4, <2>6, PrefixIs
  <2> DEFINE r == Root \o f
  <2>9. /\ r \in Paths /\ Len(r) = m + 1 /\ r[1] = "core"
        /\ \A i \in 1..m : r[i + 1] = f[i]
    <3> HIDE DEF m
    <3> QED
      BY <1>3, <2>6
  <2>10. r \in tree
    BY <2>5 DEF SourceInv
  <2> HIDE DEF r
  <2>11. src[1] = "core" /\ \A i \in 1..Len(p) : src[i + 1] = p[i]
    BY <1>1, <1>3
  <2> HIDE DEF src
  <2>12. IsPrefix(src, r)
    <3>1. Len(src) <= Len(r)
      BY <1>1, <1>2, <2>9
    <3>2. ASSUME NEW i \in 1..Len(src) PROVE src[i] = r[i]
      <4>1. CASE i = 1
        BY <4>1, <2>9, <2>11
      <4>2. CASE i # 1
        <5>1. i - 1 \in 1..Len(p) /\ i - 1 \in 1..m /\ (i - 1) + 1 = i
          BY <1>1, <1>2, <4>2
        <5>2. src[i] = p[i - 1] /\ r[i] = f[i - 1]
          BY <2>9, <2>11, <5>1
        <5> QED
          BY <2>2, <2>6, <5>1, <5>2
      <4> QED
        BY <4>1, <4>2
    <3> QED
      BY <1>2, <2>9, <3>1, <3>2, PrefixIs
  <2>13. r[Len(r)] = n
    BY <1>1, <2>4, <2>6, <2>9
  <2>14. n \notin Ignored
    BY <2>4, WantedIs
  <2>15. r \in Kept(src)
    BY <1>2, <2>9, <2>10, <2>12, <2>13, <2>14 DEF Kept, Listed
  <2> HIDE DEF n, m
  <2> QED
    BY <2>4, <2>5, <2>7, <2>8, <2>13, <2>15 DEF r
<1> QED
  BY <1>5, <1>6

\* Listed in whatever order, a finite set is listed wholly.
LEMMA OrderIs ==
  ASSUME NEW S, IsFiniteSet(S), NEW order \in SetToSeqs(S)
  PROVE  /\ Cardinality(S) \in Nat /\ DOMAIN order = 1..Cardinality(S)
         /\ \A i \in DOMAIN order : order[i] \in S
         /\ \A q \in S : \E i \in DOMAIN order : order[i] = q
<1> DEFINE c == Cardinality(S)
<1>1. c \in Nat
  BY FS_CardinalityType
<1>2. order \in [1..c -> S] /\ \A i, j \in 1..c : i # j => order[i] # order[j]
  BY DEF SetToSeqs
<1>3. Cardinality(1..c) = c
  <2> HIDE DEF c
  <2> QED
    BY <1>1, FS_Interval
<1>4. order \in Injection(1..c, S)
  BY <1>2 DEF Injection, IsInjective
<1> HIDE DEF c
<1>5. Cardinality(1..c) = Cardinality(S) <=> order \in Surjection(1..c, S)
  BY <1>4, FS_Injection
<1>6. order \in Surjection(1..c, S)
  BY <1>3, <1>5 DEF c
<1> QED
  BY <1>1, <1>2, <1>6 DEF c, Surjection

\* Where the copies of a directory go.
LEMMA CopiesIs ==
  ASSUME NEW to \in Paths, NEW p \in Paths, NEW n \in Names
  PROVE  Append(to \o p, n) = to \o Append(p, n)
<1>1. Len(p) \in Nat /\ Len(to) \in Nat /\ Len(<<n>>) = 1 /\ <<n>> \in Paths
  BY LenProperties DEF Paths
<1>2. Append(p, n) = p \o <<n>>
  BY AppendIsConcat DEF Paths
<1>3. to \o p \in Paths
  BY JoinIs
<1>4. Append(to \o p, n) = (to \o p) \o <<n>>
  BY <1>3, AppendIsConcat DEF Paths
<1> QED
  BY <1>1, <1>2, <1>4, ConcatAssociative DEF Paths

LEMMA SandboxIs ==
  ASSUME WorkInv, copy # "idle"
  PROVE  work \in WorkDirs /\ work \in Paths /\ Sandbox \in Paths
  BY WorkDirsAre, RootIs, JoinIs DEF WorkInv, Sandbox

-----------------------------------------------------------------------------
(* What the steps of a copy do.                                             *)

LEMMA ImageIsFinite ==
  /\ IsFiniteSet({Root \o p : p \in Project})
  /\ \A dir : Len(dir) \in Nat => IsFiniteSet({SubSeq(dir, 1, n) : n \in 1..Len(dir)})
<1>1. IsFiniteSet({Root \o p : p \in Project})
  <2> DEFINE f == [p \in Project |-> Root \o p]
             T == {Root \o p : p \in Project}
  <2>1. f \in Surjection(Project, T)
    BY DEF Surjection
  <2>2. IsFiniteSet(Project)
    BY ProjectAssumption
  <2> HIDE DEF f, T
  <2>3. IsFiniteSet(T)
    BY <2>1, <2>2, FS_Surjection
  <2> QED
    BY <2>3 DEF T
<1>2. ASSUME NEW dir, Len(dir) \in Nat PROVE IsFiniteSet({SubSeq(dir, 1, n) : n \in 1..Len(dir)})
  <2> DEFINE D == 1..Len(dir)
             f == [n \in D |-> SubSeq(dir, 1, n)]
             T == {SubSeq(dir, 1, n) : n \in D}
  <2>1. f \in Surjection(D, T)
    BY DEF Surjection
  <2>2. IsFiniteSet(D)
    BY <1>2, FS_Interval
  <2> HIDE DEF f, T, D
  <2>3. IsFiniteSet(T)
    BY <2>1, <2>2, FS_Surjection
  <2> QED
    BY <2>3 DEF T, D
<1> QED
  BY <1>1, <1>2

LEMMA CopyInitInv == CopyInit => CopyInv
<1> SUFFICES ASSUME CopyInit PROVE CopyInv
  OBVIOUS
<1>1. copy = "idle" /\ tree = {Root \o p : p \in Project}
  BY DEF CopyInit
<1>2. TreeInv
  <2>1. \A p \in Project : Root \o p \in Paths
    BY ProjectAssumption, StringsAreNames, RootIs, JoinIs
  <2> QED
    BY <1>1, <2>1, ImageIsFinite DEF TreeInv
<1>3. SourceInv
  <2>1. \A p \in Wanted : Root \o p \in tree
    BY <1>1 DEF Wanted
  <2>2. ASSUME NEW p \in Project, Free(Root \o p) PROVE p \in Wanted
    <3>1. p \in Paths
      BY ProjectAssumption, StringsAreNames
    <3> DEFINE r == Root \o p
    <3>2. /\ Len(p) \in Nat /\ Len(r) = Len(Root) + Len(p)
          /\ \A i \in 1..Len(p) : r[Len(Root) + i] = p[i]
      BY <3>1, RootIs, JoinIs
    <3>3. Free(r)
      BY <2>2
    <3> HIDE DEF r
    <3>4. ASSUME NEW i \in 1..Len(p) PROVE p[i] \notin Ignored
      <4>1. Len(Root) + i \in 2..Len(r)
        BY <3>2, RootIs
      <4> QED
        BY <3>2, <3>3, <4>1 DEF Free
    <3> QED
      BY <3>4 DEF Wanted
  <2> QED
    BY <1>1, <2>1, <2>2 DEF SourceInv
<1> QED
  BY <1>1, <1>2, <1>3 DEF CopyInv, WorkInv, BoxInv, PendInv, CoverInv

LEMMA PrepareStep ==
  ASSUME WorkDirsApart, CopyInv, prepare_work_dir
  PROVE  CopyInv'
<1>1. PICK dir \in WorkDirs : work' = dir /\ tree' = tree \cup {SubSeq(dir, 1, n) : n \in 1..Len(dir)}
  BY DEF prepare_work_dir
<1>2. copy' = "clear"
  BY DEF prepare_work_dir
<1>3. dir \in Paths /\ Len(dir) \in Nat
  BY WorkDirsAre
<1>4. TreeInv'
  <2>1. \A n \in 1..Len(dir) : SubSeq(dir, 1, n) \in Paths
    BY <1>3, FrontIs
  <2>2. IsFiniteSet({SubSeq(dir, 1, n) : n \in 1..Len(dir)})
    BY <1>3, ImageIsFinite
  <2>3. IsFiniteSet(tree')
    BY <1>1, <2>2, FS_Union DEF CopyInv, TreeInv
  <2> QED
    BY <1>1, <2>1, <2>3 DEF CopyInv, TreeInv
<1>5. SourceInv'
  <2>1. \A n \in 1..Len(dir) : Free(SubSeq(dir, 1, n)) => \E p \in Wanted : SubSeq(dir, 1, n) = Root \o p
    BY AboveIsApart, WantedIs
  <2> QED
    BY <1>1, <2>1, Zenon DEF CopyInv, SourceInv
<1> QED
  BY <1>1, <1>2, <1>4, <1>5 DEF CopyInv, WorkInv, BoxInv, PendInv, CoverInv

LEMMA ClearStep ==
  ASSUME WorkDirsApart, CopyInv, Clear
  PROVE  CopyInv'
<1>1. /\ copy = "clear" /\ copy' = "copy" /\ work' = work
      /\ tree' = tree \ Below(Sandbox) /\ pend' = << <<Root, Sandbox>> >>
  BY DEF Clear
<1>2. work \in WorkDirs /\ Sandbox \in Paths /\ Sandbox' = Sandbox
  BY <1>1, SandboxIs DEF CopyInv, Sandbox
<1>3. TreeInv'
  <2>1. tree \subseteq Paths /\ IsFiniteSet(tree) /\ tree' \in SUBSET tree
    BY <1>1 DEF CopyInv, TreeInv
  <2>2. IsFiniteSet(tree')
    BY <2>1, FS_Subset
  <2> QED
    BY <2>1, <2>2 DEF TreeInv
<1>4. SourceInv'
  <2>1. ASSUME NEW p \in Wanted PROVE Root \o p \in tree'
    <3>1. Root \o p \in Paths /\ Free(Root \o p)
      BY RootedIsFree
    <3>2. ~IsPrefix(Sandbox, Root \o p)
      BY <1>2, <3>1, BoxIsApart DEF Sandbox
    <3> QED
      BY <1>1, <3>2 DEF CopyInv, SourceInv, Below
  <2> QED
    BY <1>1, <2>1 DEF CopyInv, SourceInv
<1>5. BoxInv'
  BY <1>1, <1>2 DEF BoxInv, Below
<1> DEFINE p0 == <<>>
<1>6. p0 \in Wanted /\ Root \o p0 = Root /\ Sandbox \o p0 = Sandbox
  BY <1>2, WantedIs, RootIs, ConcatEmptySeq DEF Paths
<1>7. \A w \in Wanted : IsPrefix(p0, w)
  <2>1. \A w \in Wanted : w \in Paths /\ p0 \in Paths /\ Len(p0) = 0 /\ Len(w) \in Nat
    BY WantedIs, LenProperties DEF Paths
  <2> HIDE DEF p0
  <2> QED
    BY <2>1, PrefixIs
<1> HIDE DEF p0
<1>8. Len(pend') = 1 /\ pend'[1] = <<Root, Sandbox>>
  BY <1>1
<1>9. PendInv'
  <2>1. <<Root, Sandbox>> \in Copies'
    BY <1>2, <1>6 DEF Copies
  <2> DEFINE one == <<Root, Sandbox>>
  <2> HIDE DEF one
  <2>2. << one >> \in Seq(Copies')
    BY <2>1 DEF one
  <2> QED
    BY <1>1, <2>2 DEF PendInv, one
<1>10. CoverInv'
  <2>1. 1 \in 1..Len(pend') /\ pend'[1] = <<Root \o p0, Sandbox' \o p0>>
    BY <1>2, <1>6, <1>8
  <2> QED
    BY <1>1, <1>6, <1>7, <2>1, Zenon DEF CoverInv
<1> QED
  BY <1>1, <1>2, <1>3, <1>4, <1>5, <1>9, <1>10 DEF CopyInv, WorkInv

\* The next copy is one of the project's own paths, and what is made is in the sandbox.
LEMMA HeadIs ==
  ASSUME CopyInv, copy = "copy", pend # <<>>
  PROVE  \E p \in Wanted :
           /\ pend[1] = <<Root \o p, Sandbox \o p>>
           /\ Head(pend)[1] = Root \o p /\ Head(pend)[2] = Sandbox \o p
<1>1. pend \in Seq(Copies)
  BY DEF CopyInv, PendInv
<1>2. pend[1] \in Copies /\ Head(pend) = pend[1]
  BY <1>1
<1>3. PICK p \in Wanted : pend[1] = <<Root \o p, Sandbox \o p>>
  BY <1>2 DEF Copies
<1>4. Head(pend)[1] = Root \o p /\ Head(pend)[2] = Sandbox \o p
  <2> DEFINE a == Root \o p
             b == Sandbox \o p
  <2>1. Head(pend) = <<a, b>>
    BY <1>2, <1>3
  <2> HIDE DEF a, b
  <2>2. Head(pend)[1] = a /\ Head(pend)[2] = b
    BY <2>1
  <2> QED
    BY <2>2 DEF a, b
<1> QED
  BY <1>3, <1>4

LEMMA CopytreeTree ==
  ASSUME CopyInv, copytree, copy' = "copy"
  PROVE  TreeInv' /\ BoxInv'
<1>1. copy = "copy" /\ pend # <<>> /\ work' = work /\ work \in WorkDirs /\ Sandbox \in Paths
  BY SandboxIs DEF copytree, CopyInv
<1>2. PICK p \in Wanted : Head(pend)[2] = Sandbox \o p
  BY <1>1, HeadIs
<1>3. tree' = tree \cup {Sandbox \o p}
  BY <1>2 DEF copytree
<1>4. Sandbox \o p \in Paths
  BY <1>1, WantedIs, JoinIs
<1>5. TreeInv'
  <2>1. tree \subseteq Paths /\ IsFiniteSet(tree)
    BY DEF CopyInv, TreeInv
  <2>2. IsFiniteSet(tree')
    BY <1>3, <2>1, FS_AddElement
  <2> QED
    BY <1>3, <1>4, <2>1, <2>2 DEF TreeInv
<1>6. BoxInv'
  <2>1. Sandbox' = Sandbox
    BY <1>1 DEF Sandbox
  <2>2. \A q \in Below(Sandbox) : \E w \in Wanted : q = Sandbox \o w
    BY <1>1 DEF CopyInv, BoxInv
  <2>3. Below(Sandbox)' \subseteq Below(Sandbox) \cup {Sandbox \o p}
    BY <1>3, <2>1 DEF Below
  <2> QED
    BY <2>1, <2>2, <2>3, Zenon DEF BoxInv
<1> QED
  BY <1>5, <1>6

\* What is made in the sandbox is nothing that would be copied.
LEMMA SourceStays ==
  ASSUME WorkDirsApart, CopyInv, copy # "idle", NEW grown \in SUBSET Paths,
         \A q \in grown : IsPrefix(Sandbox, q), tree' = tree \cup grown
  PROVE  SourceInv'
<1>1. work \in WorkDirs
  BY SandboxIs DEF CopyInv
<1>2. \A q \in grown : ~Free(q)
  BY <1>1, BoxIsApart DEF Sandbox
<1> QED
  BY <1>2 DEF CopyInv, SourceInv

LEMMA CopytreePend ==
  ASSUME CopyInv, copytree, copy' = "copy"
  PROVE  PendInv' /\ CoverInv'
<1>1. copy = "copy" /\ pend # <<>> /\ work' = work /\ work \in WorkDirs /\ Sandbox \in Paths /\ Sandbox' = Sandbox
  BY SandboxIs DEF copytree, CopyInv, Sandbox
<1>2. PICK p \in Wanted : /\ pend[1] = <<Root \o p, Sandbox \o p>>
                          /\ Head(pend)[1] = Root \o p /\ Head(pend)[2] = Sandbox \o p
  BY <1>1, HeadIs
<1>3. tree' = tree \cup {Sandbox \o p}
  BY <1>2 DEF copytree
<1> DEFINE S == Kept(Root \o p)
           Item(order) == [i \in DOMAIN order |->
                             <<order[i], Append(Sandbox \o p, order[i][Len(order[i])])>>]
<1>4. PICK order \in SetToSeqs(S) : pend' = Item(order) \o Tail(pend)
  BY <1>2 DEF copytree
<1>5. IsFiniteSet(S)
  <2>1. IsFiniteSet(tree) /\ S \in SUBSET tree
    BY DEF CopyInv, TreeInv, Kept, Listed
  <2> HIDE DEF S
  <2> QED
    BY <2>1, FS_Subset
<1> DEFINE c == Cardinality(S)
           fresh == Item(order)
<1>6. /\ c \in Nat /\ DOMAIN order = 1..c
      /\ \A i \in 1..c : order[i] \in S
      /\ \A q \in S : \E i \in 1..c : order[i] = q
  BY <1>4, <1>5, OrderIs
<1>7. \A i \in 1..c : fresh[i] = <<order[i], Append(Sandbox \o p, order[i][Len(order[i])])>>
  BY <1>6
<1>8. DOMAIN fresh = 1..c /\ fresh = [i \in 1..c |-> fresh[i]]
  BY <1>6
<1>9. pend' = fresh \o Tail(pend)
  BY <1>4
<1>10. p \in Paths /\ \A n \in Names : Append(Sandbox \o p, n) = Sandbox \o Append(p, n)
  BY <1>1, WantedIs, CopiesIs
<1> HIDE DEF c, fresh
<1>11. \A i \in 1..c : fresh[i] \in Copies
  <2> SUFFICES ASSUME NEW i \in 1..c PROVE fresh[i] \in Copies
    OBVIOUS
  <2>1. PICK n \in Names : /\ Append(p, n) \in Wanted /\ order[i] = Root \o Append(p, n)
                           /\ order[i][Len(order[i])] = n
    BY <1>6, KeptIs DEF CopyInv
  <2>2. fresh[i] = <<Root \o Append(p, n), Sandbox \o Append(p, n)>>
    BY <1>7, <1>10, <2>1
  <2> QED
    BY <2>1, <2>2 DEF Copies
<1>12. fresh \in Seq(Copies) /\ Len(fresh) = c
  <2>1. fresh \in [1..c -> Copies]
    BY <1>8, <1>11
  <2>2. fresh \in Seq(Copies)
    BY <1>6, <2>1, SeqDef
  <2> QED
    BY <1>6, <1>8, <2>2, LenProperties
<1>13. /\ Tail(pend) \in Seq(Copies) /\ Len(pend) \in Nat /\ Len(Tail(pend)) = Len(pend) - 1
       /\ \A i \in 1..Len(Tail(pend)) : Tail(pend)[i] = pend[i + 1]
  BY <1>1, HeadTailProperties, LenProperties DEF CopyInv, PendInv
<1>14. /\ pend' \in Seq(Copies) /\ Len(pend') = c + Len(Tail(pend))
       /\ \A i \in 1..c : pend'[i] = fresh[i]
       /\ \A i \in 1..Len(Tail(pend)) : pend'[c + i] = Tail(pend)[i]
  <2> DEFINE u == Tail(pend)
             whole == fresh \o u
  <2>1. u \in Seq(Copies) /\ Len(u) \in Nat
    BY <1>13, LenProperties
  <2> HIDE DEF u
  <2>2. /\ whole \in Seq(Copies) /\ Len(whole) = Len(fresh) + Len(u)
        /\ \A i \in 1..(Len(fresh) + Len(u)) : whole[i] = IF i <= Len(fresh) THEN fresh[i] ELSE u[i - Len(fresh)]
    BY <1>12, <2>1, ConcatProperties
  <2> HIDE DEF whole
  <2>3. \A i \in 1..c : whole[i] = fresh[i]
    BY <1>6, <1>12, <2>1, <2>2
  <2>4. \A i \in 1..Len(u) : whole[c + i] = u[i]
    <3> SUFFICES ASSUME NEW i \in 1..Len(u) PROVE whole[c + i] = u[i]
      OBVIOUS
    <3>1. c + i \in 1..(c + Len(u)) /\ ~(c + i <= c) /\ (c + i) - c = i
      BY <1>6, <2>1
    <3> QED
      BY <1>12, <2>2, <3>1
  <2> QED
    BY <1>9, <1>12, <2>2, <2>3, <2>4 DEF u, whole
<1>15. PendInv'
  <2>1. Copies' = Copies
    BY <1>1 DEF Copies
  <2> QED
    BY <1>14, <2>1 DEF PendInv
<1>16. ASSUME NEW w \in Wanted
       PROVE  \/ Sandbox \o w \in tree'
              \/ \E i \in 1..Len(pend') : \E v \in Wanted :
                   pend'[i] = <<Root \o v, Sandbox \o v>> /\ IsPrefix(v, w)
  <2>1. CASE Sandbox \o w \in tree
    BY <1>3, <2>1
  <2>2. CASE w = p
    BY <1>3, <2>2
  <2>3. CASE IsPrefix(p, w) /\ w # p
    <3>1. PICK n \in Names :
            /\ Append(p, n) \in Wanted /\ IsPrefix(Append(p, n), w)
            /\ Root \o Append(p, n) \in S
            /\ (Root \o Append(p, n))[Len(Root \o Append(p, n))] = n
      BY <2>3, KeptIs DEF CopyInv
    <3>2. PICK i \in 1..c : order[i] = Root \o Append(p, n)
      BY <1>6, <3>1
    <3>3. fresh[i] = <<Root \o Append(p, n), Sandbox \o Append(p, n)>>
      BY <1>7, <1>10, <3>1, <3>2
    <3>4. i \in 1..Len(pend') /\ pend'[i] = fresh[i]
      <4>1. Len(Tail(pend)) \in Nat
        BY <1>13, LenProperties
      <4> QED
        BY <1>6, <1>14, <4>1
    <3> QED
      BY <3>1, <3>3, <3>4
  <2>4. ASSUME NEW i \in 1..Len(pend), NEW v \in Wanted,
               pend[i] = <<Root \o v, Sandbox \o v>>, IsPrefix(v, w), i # 1
        PROVE  \E k \in 1..Len(pend') : pend'[k] = pend[i]
    <3> DEFINE j == i - 1
    <3>1. j \in 1..Len(Tail(pend)) /\ j + 1 = i
      BY <1>13, <2>4
    <3> HIDE DEF j
    <3>2. Tail(pend)[j] = pend[i] /\ pend'[c + j] = Tail(pend)[j]
      BY <1>13, <1>14, <3>1
    <3>3. c + j \in 1..Len(pend')
      BY <1>6, <1>13, <1>14, <3>1
    <3> QED
      BY <3>2, <3>3
  <2>5. ASSUME NEW i \in 1..Len(pend), NEW v \in Wanted,
               pend[i] = <<Root \o v, Sandbox \o v>>, IsPrefix(v, w), i = 1
        PROVE  v = p
    <3>1. Root \o v = Root \o p
      <4> DEFINE a == Root \o v
                 b == Sandbox \o v
                 d == Root \o p
                 e == Sandbox \o p
      <4>1. <<a, b>> = <<d, e>>
        BY <1>2, <2>5
      <4> HIDE DEF a, b, d, e
      <4>2. a = d
        BY <4>1
      <4> QED
        BY <4>2 DEF a, d
    <3> QED
      BY <1>10, <3>1, WantedIs, RootIs, ConcatSimplifications DEF Paths
  <2>6. \/ Sandbox \o w \in tree
        \/ \E i \in 1..Len(pend) : \E v \in Wanted :
             pend[i] = <<Root \o v, Sandbox \o v>> /\ IsPrefix(v, w)
    BY <1>1 DEF CopyInv, CoverInv
  <2>7. CASE \E i \in 1..Len(pend) : \E v \in Wanted :
               pend[i] = <<Root \o v, Sandbox \o v>> /\ IsPrefix(v, w)
    <3>1. PICK i \in 1..Len(pend), v \in Wanted :
            pend[i] = <<Root \o v, Sandbox \o v>> /\ IsPrefix(v, w)
      BY <2>7
    <3>2. CASE i = 1
      BY <2>2, <2>3, <2>5, <3>1, <3>2
    <3>3. CASE i # 1
      <4>1. PICK k \in 1..Len(pend') : pend'[k] = pend[i]
        BY <2>4, <3>1, <3>3
      <4> QED
        BY <3>1, <4>1
    <3> QED
      BY <3>2, <3>3
  <2> QED
    BY <2>1, <2>6, <2>7
<1> QED
  BY <1>1, <1>15, <1>16, Zenon DEF CoverInv

LEMMA CopytreeStep ==
  ASSUME WorkDirsApart, CopyInv, copytree
  PROVE  CopyInv'
<1>1. copy = "copy" /\ pend # <<>> /\ work' = work /\ work \in WorkDirs /\ Sandbox \in Paths /\ Sandbox' = Sandbox
  BY SandboxIs DEF copytree, CopyInv, Sandbox
<1>2. CASE copy' = "raised" /\ UNCHANGED <<tree, pend>>
  BY <1>1, <1>2 DEF CopyInv, TreeInv, WorkInv, SourceInv, BoxInv, PendInv, CoverInv, Below
<1>3. CASE copy' = "copy"
  <2>1. PICK p \in Wanted : Head(pend)[2] = Sandbox \o p
    BY <1>1, HeadIs
  <2>2. tree' = tree \cup {Sandbox \o p}
    BY <1>3, <2>1 DEF copytree
  <2>3. Sandbox \o p \in Paths /\ IsPrefix(Sandbox, Sandbox \o p)
    BY <1>1, WantedIs, JoinIs, CutIs
  <2>4. {Sandbox \o p} \in SUBSET Paths /\ \A q \in {Sandbox \o p} : IsPrefix(Sandbox, q)
    BY <2>3
  <2>5. SourceInv'
    BY <1>1, <2>2, <2>4, SourceStays
  <2> QED
    BY <1>1, <1>3, <2>5, CopytreeTree, CopytreePend DEF CopyInv, WorkInv
<1>4. \/ copy' = "raised" /\ UNCHANGED <<tree, pend>>
      \/ copy' = "copy"
  BY <1>1 DEF copytree
<1> QED
  BY <1>2, <1>3, <1>4

LEMMA CopyEndsStep ==
  ASSUME CopyInv, CopyEnds
  PROVE  CopyInv'
<1>1. copy = "copy" /\ pend = <<>> /\ copy' = "ready" /\ UNCHANGED <<tree, work, pend>>
  BY DEF CopyEnds
<1>2. \A w \in Wanted : Sandbox \o w \in tree
  <2>1. 1..Len(pend) = {}
    BY <1>1
  <2> QED
    BY <1>1, <2>1 DEF CopyInv, CoverInv
<1> QED
  BY <1>1, <1>2 DEF CopyInv, TreeInv, WorkInv, SourceInv, BoxInv, PendInv, CoverInv, Below, Sandbox

LEMMA BuildStep ==
  ASSUME WorkDirsApart, CopyInv, Build
  PROVE  CopyInv'
<1> DEFINE new == {Append(Sandbox, name) : name \in {"db", "made"}}
<1>1. copy = "ready" /\ tree' = tree \cup new /\ copy' = "idle"
  BY DEF Build
<1>2. Sandbox \in Paths
  BY <1>1, SandboxIs DEF CopyInv
<1>3. ASSUME NEW n \in {"db", "made"}
      PROVE  Append(Sandbox, n) \in Paths /\ IsPrefix(Sandbox, Append(Sandbox, n))
  <2>1. n \in Names /\ <<n>> \in Paths
    <3>1. n \in Names
      BY <1>3 DEF Names, Ignored
    <3> QED
      BY <3>1 DEF Paths
  <2>2. Append(Sandbox, n) = Sandbox \o <<n>>
    BY <1>2, <2>1, AppendIsConcat DEF Paths
  <2> QED
    BY <1>2, <2>1, <2>2, JoinIs, CutIs
<1>4. new \in SUBSET Paths /\ \A q \in new : IsPrefix(Sandbox, q)
  BY <1>3
<1>5. IsFiniteSet(new)
  <2> DEFINE d == Append(Sandbox, "db")
             m == Append(Sandbox, "made")
  <2>1. new = ({} \cup {d}) \cup {m}
    OBVIOUS
  <2> HIDE DEF new, d, m
  <2>2. IsFiniteSet({} \cup {d})
    BY FS_EmptySet, FS_AddElement
  <2> QED
    BY <2>1, <2>2, FS_AddElement
<1> HIDE DEF new
<1>6. SourceInv'
  BY <1>1, <1>4, SourceStays
<1>7. TreeInv'
  <2>1. tree \subseteq Paths /\ IsFiniteSet(tree)
    BY DEF CopyInv, TreeInv
  <2>2. IsFiniteSet(tree')
    BY <1>1, <1>5, <2>1, FS_Union
  <2> QED
    BY <1>1, <1>4, <2>1, <2>2 DEF TreeInv
<1> QED
  BY <1>1, <1>6, <1>7 DEF CopyInv, WorkInv, BoxInv, PendInv, CoverInv

LEMMA CopyInvariant == ASSUME WorkDirsApart PROVE CopySpec => []CopyInv
<1>1. CopyInv /\ [CopyNext]_copyVars => CopyInv'
  <2>1. CopyInv /\ CopyNext => CopyInv'
    BY PrepareStep, ClearStep, CopytreeStep, CopyEndsStep, BuildStep DEF CopyNext
  <2>2. CopyInv /\ UNCHANGED copyVars => CopyInv'
    <3> SUFFICES ASSUME CopyInv, UNCHANGED copyVars PROVE CopyInv'
      OBVIOUS
    <3> USE DEF copyVars, CopyInv
    <3>1. Sandbox' = Sandbox /\ Below(Sandbox)' = Below(Sandbox) /\ Copies' = Copies
      BY DEF Sandbox, Below, Copies
    <3>2. TreeInv' /\ WorkInv' /\ SourceInv' /\ PendInv'
      BY <3>1 DEF TreeInv, WorkInv, SourceInv, PendInv
    <3>3. BoxInv'
      BY <3>1 DEF BoxInv
    <3>4. CoverInv'
      BY <3>1 DEF CoverInv
    <3> QED
      BY <3>2, <3>3, <3>4
  <2> QED
    BY <2>1, <2>2
<1> QED
  BY <1>1, CopyInitInv, PTL DEF CopySpec

\* Whatever project is copied to wherever a sweep works, in whatever order its
\* directories are listed: while it is made a sandbox holds nothing but the project, and
\* when it is ready it holds it all, though it may be within the tree that is copied.
THEOREM SandboxHoldsProject == ASSUME WorkDirsApart PROVE CopySpec => []SandboxIsProject
<1>1. CopyInv => SandboxIsProject
  <2> SUFFICES ASSUME CopyInv PROVE SandboxIsProject
    OBVIOUS
  <2>1. ASSUME copy \in {"copy", "ready", "raised"} PROVE Within(Sandbox) \subseteq Wanted
    <3>1. Sandbox \in Paths
      BY <2>1, SandboxIs DEF CopyInv
    <3> SUFFICES ASSUME NEW q \in Below(Sandbox) PROVE SubSeq(q, Len(Sandbox) + 1, Len(q)) \in Wanted
      BY DEF Within
    <3>2. PICK p \in Wanted : q = Sandbox \o p
      BY <2>1 DEF CopyInv, BoxInv
    <3> QED
      BY <3>1, <3>2, WantedIs, CutIs
  <2>2. ASSUME copy = "ready" PROVE Wanted \subseteq Within(Sandbox)
    <3>1. Sandbox \in Paths
      BY <2>2, SandboxIs DEF CopyInv
    <3> SUFFICES ASSUME NEW p \in Wanted PROVE p \in Within(Sandbox)
      OBVIOUS
    <3>2. /\ Sandbox \o p \in tree /\ IsPrefix(Sandbox, Sandbox \o p)
          /\ SubSeq(Sandbox \o p, Len(Sandbox) + 1, Len(Sandbox \o p)) = p
      BY <2>2, <3>1, WantedIs, CutIs DEF CopyInv, CoverInv
    <3> QED
      BY <3>2 DEF Within, Below
  <2> QED
    BY <2>1, <2>2 DEF SandboxIsProject
<1> QED
  BY <1>1, CopyInvariant, PTL

-----------------------------------------------------------------------------
(* The three together.                                                      *)

\* A behaviour of the whole is one of each.
LEMMA EachIsItself == MCSpec => LocalSpec /\ ArtSpec /\ CopySpec
<1>1. MCInit => LocalInit /\ ArtInit /\ CopyInit
  BY DEF MCInit
<1>2. [MCNext]_<<vars, artVars, copyVars>> => [LocalNext]_vars /\ [ArtNext]_artVars /\ [CopyNext]_copyVars
  BY DEF MCNext
<1> QED
  BY <1>1, <1>2, PTL DEF MCSpec, LocalSpec, ArtSpec, CopySpec

\* The state of the tasks and of the artifacts has its type, for every number of seeds,
\* slots and builds and every width of a byte.
THEOREM LocalTypesCorrect == MCSpec => []LocalTypesOK
<1>1. ArtInv => ArtTypeOK
  BY DEF ArtInv
<1>2. LocalTypeOK /\ ArtTypeOK => LocalTypesOK
  BY DEF LocalTypesOK
<1> QED
  BY <1>1, <1>2, EachIsItself, LocalTypeCorrect, ArtInvariant, PTL
=============================================================================
