-------------------------- MODULE Passkeys_proofs --------------------------
(***************************************************************************)
(* Proofs about Base64Url, for bytes of any number, and about Passkeys,    *)
(* for any number of tabs, credentials and challenges and any limit.  The  *)
(* limit of passkeys does not depend on what the conversions do; the rest  *)
(* rests on their round trip.                                              *)
(***************************************************************************)
EXTENDS Passkeys, FiniteSetTheorems, TLAPS

-----------------------------------------------------------------------------
(* The conversions, for bytes of any number and any value: each side reads *)
(* what the other side wrote.  A group of three bytes and the four sextets *)
(* cut from it make the same number; what a group lacks at the end counts  *)
(* as zero on both sides.                                                  *)

\* The number that the bytes after the first 3 * q make.
Cut(bytes, q) ==
  65536 * At(bytes, 3 * q + 1) + 256 * At(bytes, 3 * q + 2) + At(bytes, 3 * q + 3)

Joins(n, a, b, c) == n = 65536 * a + 256 * b + c

InOctets(n, a, b, c) ==
  /\ n \in Nat /\ n < 16777216
  /\ (n \div 65536) % 256 = a /\ (n \div 256) % 256 = b /\ n % 256 = c

Sextet == 0..63

InSextets(n, a, b, c, d) ==
  /\ (n \div 262144) % 64 = a /\ (n \div 4096) % 64 = b
  /\ (n \div 64) % 64 = c /\ n % 64 = d

LEMMA AtByte ==
  ASSUME NEW bytes \in Seq(Byte), NEW i \in Nat
  PROVE  /\ At(bytes, i) \in Byte
         /\ i > Len(bytes) => At(bytes, i) = 0
BY DEF At, Byte

LEMMA CutOf ==
  ASSUME NEW bytes \in Seq(Byte), NEW q \in Nat
  PROVE  \E a, b, c \in Byte :
            /\ At(bytes, 3 * q + 1) = a /\ At(bytes, 3 * q + 2) = b
            /\ At(bytes, 3 * q + 3) = c
            /\ 3 * q + 1 > Len(bytes) => a = 0
            /\ 3 * q + 2 > Len(bytes) => b = 0
            /\ 3 * q + 3 > Len(bytes) => c = 0
            /\ Joins(Cut(bytes, q), a, b, c)
<1>1. 3 * q + 1 \in Nat /\ 3 * q + 2 \in Nat /\ 3 * q + 3 \in Nat
  OBVIOUS
<1> DEFINE a == At(bytes, 3 * q + 1)
           b == At(bytes, 3 * q + 2)
           c == At(bytes, 3 * q + 3)
<1>2. /\ a \in Byte /\ (3 * q + 1 > Len(bytes) => a = 0)
      /\ b \in Byte /\ (3 * q + 2 > Len(bytes) => b = 0)
      /\ c \in Byte /\ (3 * q + 3 > Len(bytes) => c = 0)
  BY <1>1, AtByte
<1>3. Joins(Cut(bytes, q), a, b, c)
  BY DEF Cut, Joins
<1>4. QED  BY <1>2, <1>3, Zenon

LEMMA Parts ==
  ASSUME NEW a \in Byte, NEW b \in Byte, NEW c \in Byte, NEW n, Joins(n, a, b, c)
  PROVE  InOctets(n, a, b, c)
BY DEF Byte, Joins, InOctets

LEMMA CutType ==
  ASSUME NEW bytes \in Seq(Byte), NEW q \in Nat
  PROVE  InOctets(Cut(bytes, q), At(bytes, 3 * q + 1), At(bytes, 3 * q + 2),
                  At(bytes, 3 * q + 3))
BY CutOf, Parts, Zenon

LEMMA CutNat ==
  ASSUME NEW bytes \in Seq(Byte), NEW q \in Nat
  PROVE  Cut(bytes, q) \in Nat
<1>1. PICK a, b, c : InOctets(Cut(bytes, q), a, b, c)
  BY CutType, Zenon
<1>2. QED  BY <1>1 DEF InOctets

LEMMA SextetsLength ==
  ASSUME NEW bytes \in Seq(Byte)
  PROVE  /\ Sextets(bytes) \in Seq(Sextet)
         /\ Len(Sextets(bytes)) = (4 * Len(bytes) + 2) \div 3
         /\ Len(Sextets(bytes)) % 4 # 1
         /\ (3 * Len(Sextets(bytes))) \div 4 = Len(bytes)
<1>1. Len(bytes) \in Nat
  OBVIOUS
<1> DEFINE L == (4 * Len(bytes) + 2) \div 3
           Place(k) == <<262144, 4096, 64, 1>>[((k - 1) % 4) + 1]
<1>2. L \in Nat /\ L % 4 # 1 /\ (3 * L) \div 4 = Len(bytes)
  BY <1>1
<1>3. ASSUME NEW k \in 1..L
      PROVE  Cut(bytes, (k - 1) \div 4) \in Nat /\ Place(k) \in Nat \ {0}
  <2>1. (k - 1) \div 4 \in Nat /\ (k - 1) % 4 \in {0, 1, 2, 3}
    BY <1>2, <1>3
  <2>2. Place(k) \in Nat \ {0}
    BY <2>1
  <2> HIDE DEF Place
  <2>3. Cut(bytes, (k - 1) \div 4) \in Nat
    BY <2>1, CutNat, Zenon
  <2>4. QED  BY <2>2, <2>3
<1>4. Sextets(bytes) = [k \in 1..L |-> (Cut(bytes, (k - 1) \div 4) \div Place(k)) % 64]
  BY DEF Sextets, Cut
<1> HIDE DEF L, Place
<1>5. ASSUME NEW k \in 1..L PROVE Sextets(bytes)[k] \in 0..63
  <2> DEFINE n == Cut(bytes, (k - 1) \div 4)
             p == Place(k)
  <2>1. n \in Nat /\ p \in Nat \ {0}
    BY <1>3
  <2>2. Sextets(bytes)[k] = (n \div p) % 64
    BY <1>4
  <2> HIDE DEF n, p
  <2> DEFINE m == n \div p
  <2>3. m \in Int
    BY <2>1
  <2> HIDE DEF m
  <2>4. m % 64 \in 0..63
    BY <2>3
  <2>5. QED  BY <2>2, <2>4 DEF m
<1>6. QED  BY <1>2, <1>4, <1>5 DEF L, Sextet

\* Sextets that are left out at the end would be zero.
LEMMA SextetAt ==
  ASSUME NEW bytes \in Seq(Byte), NEW q \in Nat
  PROVE  InSextets(Cut(bytes, q), At(Sextets(bytes), 4 * q + 1),
                   At(Sextets(bytes), 4 * q + 2), At(Sextets(bytes), 4 * q + 3),
                   At(Sextets(bytes), 4 * q + 4))
<1> DEFINE L == (4 * Len(bytes) + 2) \div 3
           s == Sextets(bytes)
           n == Cut(bytes, q)
<1>1. Len(bytes) \in Nat /\ L \in Nat /\ DOMAIN s = 1..L
  BY DEF Sextets
<1>2. PICK a \in Byte, b \in Byte, c \in Byte :
         /\ 3 * q + 1 > Len(bytes) => a = 0
         /\ 3 * q + 2 > Len(bytes) => b = 0
         /\ 3 * q + 3 > Len(bytes) => c = 0
         /\ Joins(n, a, b, c)
  BY CutOf, Zenon
<1>3. n \in Nat /\ n = 65536 * a + 256 * b + c /\ a \in Nat /\ b \in Nat /\ c \in Nat
  BY <1>2 DEF Joins, Byte
<1> HIDE DEF n
<1> DEFINE Place == <<262144, 4096, 64, 1>>
<1>4. ASSUME NEW j \in 0..3, 4 * q + j + 1 \in 1..L
      PROVE  s[4 * q + j + 1] = (n \div Place[j + 1]) % 64
  <2> DEFINE k == 4 * q + j + 1
  <2>1. (k - 1) \div 4 = q /\ (k - 1) % 4 = j
    BY <1>4
  <2>2. s[k] = (Cut(bytes, (k - 1) \div 4) \div Place[((k - 1) % 4) + 1]) % 64
    BY <1>4 DEF Sextets, Cut
  <2>3. QED  BY <2>1, <2>2 DEF n
<1>5. At(s, 4 * q + 1) = (n \div 262144) % 64
  <2>1. CASE 4 * q + 1 \in 1..L
    BY <1>1, <1>4, <2>1 DEF At
  <2>2. CASE 4 * q + 1 \notin 1..L
    <3>1. 3 * q + 1 > Len(bytes) /\ 3 * q + 2 > Len(bytes) /\ 3 * q + 3 > Len(bytes)
      BY <1>1, <2>2
    <3>2. n = 0
      BY <1>2, <1>3, <3>1
    <3>3. QED  BY <1>1, <2>2, <3>2 DEF At
  <2>3. QED  BY <2>1, <2>2
<1>6. At(s, 4 * q + 2) = (n \div 4096) % 64
  <2>1. CASE 4 * q + 2 \in 1..L
    BY <1>1, <1>4, <2>1 DEF At
  <2>2. CASE 4 * q + 2 \notin 1..L
    <3>1. 3 * q + 1 > Len(bytes) /\ 3 * q + 2 > Len(bytes) /\ 3 * q + 3 > Len(bytes)
      BY <1>1, <2>2
    <3>2. n = 0
      BY <1>2, <1>3, <3>1
    <3>3. QED  BY <1>1, <2>2, <3>2 DEF At
  <2>3. QED  BY <2>1, <2>2
<1>7. At(s, 4 * q + 3) = (n \div 64) % 64
  <2>1. CASE 4 * q + 3 \in 1..L
    BY <1>1, <1>4, <2>1 DEF At
  <2>2. CASE 4 * q + 3 \notin 1..L
    <3>1. 3 * q + 2 > Len(bytes) /\ 3 * q + 3 > Len(bytes)
      BY <1>1, <2>2
    <3>2. n = 65536 * a
      BY <1>2, <1>3, <3>1
    <3>3. (n \div 64) % 64 = 0
      BY <1>3, <3>2
    <3>4. QED  BY <1>1, <2>2, <3>3 DEF At
  <2>3. QED  BY <2>1, <2>2
<1>8. At(s, 4 * q + 4) = n % 64
  <2>1. CASE 4 * q + 4 \in 1..L
    <3>1. s[4 * q + 4] = (n \div 1) % 64
      BY <1>4, <2>1
    <3>2. QED  BY <1>1, <1>3, <2>1, <3>1 DEF At
  <2>2. CASE 4 * q + 4 \notin 1..L
    <3>1. 3 * q + 3 > Len(bytes)
      BY <1>1, <2>2
    <3>2. n = 65536 * a + 256 * b
      BY <1>2, <1>3, <3>1
    <3>3. n % 64 = 0
      BY <1>3, <3>2
    <3>4. QED  BY <1>1, <2>2, <3>3 DEF At
  <2>3. QED  BY <2>1, <2>2
<1>9. QED  BY <1>5, <1>6, <1>7, <1>8 DEF n, InSextets

\* The sextets of three bytes make the same number.
LEMMA Rejoined ==
  ASSUME NEW bytes \in Seq(Byte), NEW q \in Nat
  PROVE  LET s == Sextets(bytes) IN
         262144 * At(s, 4 * q + 1) + 4096 * At(s, 4 * q + 2)
            + 64 * At(s, 4 * q + 3) + At(s, 4 * q + 4) = Cut(bytes, q)
<1> DEFINE n == Cut(bytes, q)
           s == Sextets(bytes)
<1>1. InSextets(n, At(s, 4 * q + 1), At(s, 4 * q + 2), At(s, 4 * q + 3), At(s, 4 * q + 4))
  BY SextetAt, Zenon
<1>2. PICK a, b, c : InOctets(n, a, b, c)
  BY CutType, Zenon
<1> HIDE DEF n, s
<1>3. n \in Nat /\ n < 16777216
  BY <1>2 DEF InOctets
<1>4. 262144 * ((n \div 262144) % 64) + 4096 * ((n \div 4096) % 64)
         + 64 * ((n \div 64) % 64) + (n % 64) = n
  BY <1>3
<1>5. QED  BY <1>1, <1>4 DEF n, s, InSextets

\* Base64 is read back.
LEMMA OctetsOfSextets ==
  ASSUME NEW bytes \in Seq(Byte)
  PROVE  Octets(Sextets(bytes)) = bytes
<1> DEFINE s == Sextets(bytes)
           n(q) == 262144 * At(s, 4 * q + 1) + 4096 * At(s, 4 * q + 2)
                     + 64 * At(s, 4 * q + 3) + At(s, 4 * q + 4)
           Place == <<65536, 256, 1>>
<1>1. /\ Len(bytes) \in Nat /\ (3 * Len(s)) \div 4 = Len(bytes)
      /\ bytes = [i \in 1..Len(bytes) |-> bytes[i]]
  BY SextetsLength
<1>2. Octets(s) = [k \in 1..Len(bytes) |->
                     (n((k - 1) \div 3) \div Place[((k - 1) % 3) + 1]) % 256]
  BY <1>1 DEF Octets
<1>3. \A q \in Nat : n(q) = Cut(bytes, q)
  BY Rejoined
<1> HIDE DEF s, n
<1>4. ASSUME NEW k \in 1..Len(bytes) PROVE Octets(s)[k] = bytes[k]
  <2> DEFINE q == (k - 1) \div 3
             m == Cut(bytes, q)
  <2>1. q \in Nat /\ k \in Nat /\ At(bytes, k) = bytes[k]
    BY <1>1 DEF At
  <2>2. Octets(s)[k] = (m \div Place[((k - 1) % 3) + 1]) % 256
    BY <1>2, <1>3, <2>1
  <2> HIDE DEF q, m
  <2>3. InOctets(m, At(bytes, 3 * q + 1), At(bytes, 3 * q + 2), At(bytes, 3 * q + 3))
    BY <2>1, CutType, Zenon DEF m
  <2>9. /\ m \in Nat
        /\ (m \div 65536) % 256 = At(bytes, 3 * q + 1)
        /\ (m \div 256) % 256 = At(bytes, 3 * q + 2)
        /\ m % 256 = At(bytes, 3 * q + 3)
    BY <2>3 DEF InOctets
  <2>4. CASE (k - 1) % 3 = 0
    <3>1. k = 3 * q + 1
      BY <1>1, <2>4 DEF q
    <3>2. Octets(s)[k] = (m \div 65536) % 256
      BY <2>2, <2>4
    <3>3. QED  BY <2>1, <2>9, <3>1, <3>2
  <2>5. CASE (k - 1) % 3 = 1
    <3>1. k = 3 * q + 2
      BY <2>1, <2>5 DEF q
    <3>2. Octets(s)[k] = (m \div 256) % 256
      BY <2>2, <2>5
    <3>3. QED  BY <2>1, <2>9, <3>1, <3>2
  <2>6. CASE (k - 1) % 3 = 2
    <3>1. k = 3 * q + 3
      BY <1>1, <2>6 DEF q
    <3>2. Octets(s)[k] = (m \div 1) % 256
      BY <2>2, <2>6
    <3>3. m \div 1 = m
      BY <2>9
    <3>4. QED  BY <2>1, <2>9, <3>1, <3>2, <3>3
  <2>7. (k - 1) % 3 \in {0, 1, 2}
    BY <1>1
  <2>8. QED  BY <2>4, <2>5, <2>6, <2>7
<1>5. DOMAIN Octets(s) = 1..Len(bytes)
  BY <1>2
<1>6. QED  BY <1>1, <1>2, <1>4, <1>5 DEF s

\* t is the text s with n characters of padding.
Padded(t, s, n) ==
  /\ Len(s) \in Nat /\ Len(t) = Len(s) + n
  /\ s = [i \in 1..Len(s) |-> s[i]]
  /\ t = [i \in 1..Len(s) + n |-> t[i]]
  /\ \A i \in 1..Len(s) : t[i] = s[i]
  /\ \A i \in Len(s) + 1..Len(s) + n : t[i] = Pad

LEMMA PaddedText ==
  ASSUME NEW S, NEW s \in Seq(S), NEW n \in Nat
  PROVE  Padded(s \o Padding(n), s, n)
<1> DEFINE p == Padding(n)
           t == s \o p
<1>1. /\ Len(s) \in Nat /\ \A i \in 1..Len(s) : s[i] \in S
      /\ s = [i \in 1..Len(s) |-> s[i]] /\ s \in Seq(S \cup {Pad})
  OBVIOUS
<1>2. p \in Seq({Pad}) /\ Len(p) = n /\ \A i \in 1..n : p[i] = Pad
  BY DEF Padding
<1> HIDE DEF p
<1>3. /\ Len(t) = Len(s) + n
      /\ \A i \in 1..Len(s) : t[i] = s[i]
      /\ \A i \in Len(s) + 1..Len(s) + n : t[i] = Pad
  BY <1>1, <1>2
<1>4. t = [i \in 1..Len(s) + n |-> t[i]]
  <2>1. p \in Seq(S \cup {Pad})
    BY <1>2
  <2>2. t \in Seq(S \cup {Pad})
    BY <1>1, <2>1
  <2> HIDE DEF t
  <2>3. QED  BY <1>3, <2>2
<1> HIDE DEF t
<1>5. QED  BY <1>1, <1>3, <1>4, Zenon DEF t, p, Padded

\* Padding is all that is taken away.
LEMMA UnpaddedText ==
  ASSUME NEW S, Pad \notin S, NEW s \in Seq(S), NEW n \in Nat
  PROVE  Unpadded(s \o Padding(n)) = s
<1> DEFINE t == s \o Padding(n)
           Stops(m) == /\ m > 0 => t[m] # Pad
                      /\ \A i \in m + 1..Len(t) : t[i] = Pad
           e == CHOOSE m \in 0..Len(t) : Stops(m)
<1>1. /\ Len(s) \in Nat /\ Len(t) = Len(s) + n
      /\ s = [i \in 1..Len(s) |-> s[i]]
      /\ \A i \in 1..Len(s) : t[i] = s[i]
      /\ \A i \in Len(s) + 1..Len(s) + n : t[i] = Pad
  BY PaddedText DEF Padded
<1>2. \A i \in 1..Len(s) : s[i] # Pad
  OBVIOUS
<1> HIDE DEF t
<1>3. Stops(Len(s)) /\ Len(s) \in 0..Len(t)
  BY <1>1, <1>2
<1>4. ASSUME NEW m \in 0..Len(t), Stops(m) PROVE m = Len(s)
  <2>1. CASE m > Len(s)
    <3>1. t[m] = Pad
      BY <1>1, <2>1
    <3>2. QED  BY <1>1, <1>4, <2>1, <3>1
  <2>2. CASE m < Len(s)
    <3>1. m + 1 \in m + 1..Len(t) /\ m + 1 \in 1..Len(s)
      BY <1>1, <2>2
    <3>2. QED  BY <1>1, <1>2, <1>4, <3>1
  <2>3. QED  BY <1>1, <2>1, <2>2
<1>5. e = Len(s)
  <2> HIDE DEF Stops
  <2>1. e \in 0..Len(t) /\ Stops(e)
    BY <1>3
  <2>2. QED  BY <1>4, <2>1
<1>6. Unpadded(t) = SubSeq(t, 1, e)
  BY DEF Unpadded
<1> HIDE DEF e
<1>7. SubSeq(t, 1, Len(s)) = s
  <2>1. SubSeq(t, 1, Len(s)) = [i \in 1..Len(s) |-> t[i]]
    BY <1>1
  <2>2. QED  BY <1>1, <2>1
<1>8. QED  BY <1>5, <1>6, <1>7 DEF t

UrlCharacters == (0..65) \ {62, 63}

LEMMA UrlCharacter ==
  ASSUME NEW c \in Sextet
  PROVE  ToUrl(c) \in UrlCharacters /\ FromUrl(ToUrl(c)) = c
<1>1. CASE c = 62
  BY <1>1 DEF ToUrl, FromUrl, UrlCharacters, Minus, Underscore
<1>2. CASE c = 63
  BY <1>2 DEF ToUrl, FromUrl, UrlCharacters, Minus, Underscore
<1>3. CASE c \in 0..61
  <2>1. ToUrl(c) = c
    BY <1>3 DEF ToUrl
  <2>2. FromUrl(c) = c
    BY <1>3 DEF FromUrl, Minus, Underscore
  <2>3. QED  BY <1>3, <2>1, <2>2 DEF UrlCharacters
<1>4. QED  BY <1>1, <1>2, <1>3 DEF Sextet

\* The URL alphabet stands for the other one.
LEMMA UrlText ==
  ASSUME NEW s \in Seq(Sextet)
  PROVE  /\ Mapped(ToUrl, s) \in Seq(UrlCharacters)
         /\ Len(Mapped(ToUrl, s)) = Len(s)
         /\ Mapped(FromUrl, Mapped(ToUrl, s)) = s
<1>1. /\ Len(s) \in Nat /\ DOMAIN s = 1..Len(s)
      /\ s = [i \in 1..Len(s) |-> s[i]] /\ \A i \in 1..Len(s) : s[i] \in Sextet
  OBVIOUS
<1> DEFINE t == Mapped(ToUrl, s)
<1>2. t = [i \in 1..Len(s) |-> ToUrl(s[i])]
  BY <1>1 DEF Mapped
<1>3. \A i \in 1..Len(s) : /\ t[i] = ToUrl(s[i]) /\ t[i] \in UrlCharacters
                           /\ FromUrl(t[i]) = s[i]
  BY <1>1, <1>2, UrlCharacter
<1>4. t \in Seq(UrlCharacters) /\ Len(t) = Len(s) /\ DOMAIN t = 1..Len(s)
  BY <1>1, <1>2, <1>3
<1> HIDE DEF t
<1>5. Mapped(FromUrl, t) = [i \in 1..Len(s) |-> FromUrl(t[i])]
  BY <1>4 DEF Mapped
<1>6. Mapped(FromUrl, t) = s
  BY <1>1, <1>3, <1>5
<1>7. QED  BY <1>4, <1>6, Zenon DEF t

\* The padding makes whole groups of four.
LEMMA PaddingLength ==
  ASSUME NEW l \in Nat, l % 4 # 1
  PROVE  /\ (4 - (l % 4)) % 4 \in Nat /\ (4 - (l % 4)) % 4 <= 2
         /\ (l + ((4 - (l % 4)) % 4)) % 4 = 0
OBVIOUS

\* What the page makes of bytes that the server encoded.
LEMMA PageReads ==
  ASSUME NEW bytes \in Seq(Byte)
  PROVE  Base64UrlToBuffer(EncodeToString(bytes)) = bytes
<1> DEFINE s == Sextets(bytes)
           l == Len(s)
           n == (4 - (l % 4)) % 4
           text == s \o Padding(n)
<1>1. /\ s \in Seq(Sextet) /\ l \in Nat /\ l % 4 # 1
      /\ Octets(s) = bytes
  BY SextetsLength, OctetsOfSextets
<1>2. Base64UrlToBuffer(EncodeToString(bytes)) = Atob(text)
  <2>1. Mapped(FromUrl, EncodeToString(bytes)) = s
    BY <1>1, UrlText DEF EncodeToString
  <2>2. QED  BY <2>1 DEF Base64UrlToBuffer
<1> HIDE DEF s
<1>3. n \in Nat /\ n <= 2 /\ (l + n) % 4 = 0
  <2> HIDE DEF l
  <2>1. QED  BY <1>1, PaddingLength
<1> HIDE DEF n
<1>4. Unpadded(text) = s
  <2>1. Pad \notin Sextet
    BY DEF Pad, Sextet
  <2>2. QED  BY <1>1, <1>3, <2>1, UnpaddedText
<1>5. Len(text) = l + n /\ Len(text) - l = n
  <2>1. Len(text) = l + n
    BY <1>1, <1>3, PaddedText DEF Padded
  <2>2. QED  BY <1>1, <1>3, <2>1
<1>6. \A i \in DOMAIN s : s[i] \in Sextet
  BY <1>1
<1> HIDE DEF text
<1>7. Atob(text) = Octets(s)
  BY <1>1, <1>3, <1>4, <1>5, <1>6 DEF Atob, Sextet
<1>8. QED  BY <1>1, <1>2, <1>7

\* What the server makes of bytes that the page encoded.
LEMMA ServerReads ==
  ASSUME NEW bytes \in Seq(Byte)
  PROVE  DecodeFromChars(BufferToBase64Url(bytes)) = bytes
<1> DEFINE s == Sextets(bytes)
           l == Len(s)
           n == (4 - (l % 4)) % 4
           t == Mapped(ToUrl, s)
           u == s \o Padding(n)
           v == t \o Padding(n)
<1>1. /\ s \in Seq(Sextet) /\ l \in Nat /\ l % 4 # 1
      /\ Octets(s) = bytes
  BY SextetsLength, OctetsOfSextets
<1>2. Btoa(bytes) = u
  BY DEF Btoa
<1> HIDE DEF s
<1>3. t \in Seq(UrlCharacters) /\ Len(t) = l /\ Mapped(FromUrl, t) = s
  BY <1>1, UrlText
<1>4. n \in Nat
  <2> HIDE DEF l
  <2>1. QED  BY <1>1, PaddingLength
<1> HIDE DEF n
<1>5. Mapped(ToUrl, u) = v
  <2>1. Padded(u, s, n) /\ Padded(v, t, n)
    BY <1>1, <1>3, <1>4, PaddedText
  <2>2. \A i \in 1..l : t[i] = ToUrl(s[i])
    BY <1>1 DEF Mapped
  <2> HIDE DEF t, u, v
  <2>3. /\ u = [i \in 1..l + n |-> u[i]] /\ v = [i \in 1..l + n |-> v[i]]
        /\ \A i \in 1..l : u[i] = s[i] /\ v[i] = t[i]
        /\ \A i \in l + 1..l + n : u[i] = Pad /\ v[i] = Pad
    <3>1. /\ u = [i \in 1..l + n |-> u[i]]
          /\ \A i \in 1..l : u[i] = s[i]
          /\ \A i \in l + 1..l + n : u[i] = Pad
      BY <2>1, Zenon DEF Padded
    <3>2. /\ v = [i \in 1..Len(t) + n |-> v[i]]
          /\ \A i \in 1..Len(t) : v[i] = t[i]
          /\ \A i \in Len(t) + 1..Len(t) + n : v[i] = Pad
      BY <2>1, Zenon DEF Padded
    <3>3. /\ v = [i \in 1..l + n |-> v[i]]
          /\ \A i \in 1..l : v[i] = t[i]
          /\ \A i \in l + 1..l + n : v[i] = Pad
      BY <1>3, <3>2, Zenon
    <3>4. QED  BY <3>1, <3>3, Zenon
  <2>4. ToUrl(Pad) = Pad
    BY DEF ToUrl, Pad
  <2> HIDE DEF l
  <2>5. \A i \in 1..l + n : v[i] = ToUrl(u[i])
    <3> SUFFICES ASSUME NEW i \in 1..l + n PROVE v[i] = ToUrl(u[i])
      OBVIOUS
    <3>1. i \in 1..l \/ i \in l + 1..l + n
      BY <1>1, <1>4
    <3>2. QED  BY <2>2, <2>3, <2>4, <3>1, Zenon
  <2>6. Mapped(ToUrl, u) = [i \in 1..l + n |-> ToUrl(u[i])]
    BY <2>3 DEF Mapped
  <2>7. [i \in 1..l + n |-> ToUrl(u[i])] = [i \in 1..l + n |-> v[i]]
    BY <2>5
  <2>8. QED  BY <2>3, <2>6, <2>7, Zenon
<1> HIDE DEF t
<1>6. BufferToBase64Url(bytes) = t
  <2>1. Pad \notin UrlCharacters
    BY DEF Pad, UrlCharacters
  <2>2. Unpadded(v) = t
    BY <1>3, <1>4, <2>1, UnpaddedText
  <2> HIDE DEF u, v
  <2>3. QED  BY <1>2, <1>5, <2>2 DEF BufferToBase64Url
<1>7. /\ ~\E i \in DOMAIN t : t[i] \in {62, 63, Pad}
      /\ Len(t) % 4 # 1
  <2>1. \A i \in DOMAIN t : t[i] \in UrlCharacters
    BY <1>3
  <2>2. {62, 63, Pad} \cap UrlCharacters = {}
    BY DEF Pad, UrlCharacters
  <2>3. QED  BY <1>1, <1>3, <2>1, <2>2
<1>8. DecodeFromChars(t) = Octets(s)
  BY <1>3, <1>7 DEF DecodeFromChars
<1>9. QED  BY <1>1, <1>6, <1>8

(* passkey.js and the server's Base64Url read back what the other encoded, *)
(* whatever the bytes and however many (passkey.js:2-20).                  *)
THEOREM RoundTrip ==
  ASSUME NEW bytes \in Seq(Byte)
  PROVE  /\ Base64UrlToBuffer(EncodeToString(bytes)) = bytes
         /\ DecodeFromChars(BufferToBase64Url(bytes)) = bytes
BY PageReads, ServerReads, Zenon

Faithful == \A b \in Issuable \cup Credentials : ToPage[b] = b /\ ToServer[b] = b

LEMMA ConversionsFaithful == Faithful
<1> SUFFICES ASSUME NEW b \in Issuable \cup Credentials
             PROVE  ToPage[b] = b /\ ToServer[b] = b
  BY DEF Faithful
<1>1. b \in Seq(Byte)
  BY ChallengeAssumption
<1>2. /\ Base64UrlToBuffer(EncodeToString(b)) = b
      /\ DecodeFromChars(BufferToBase64Url(b)) = b
  BY <1>1, RoundTrip, Zenon
<1>3. QED  BY <1>2 DEF ToPage, ToServer

-----------------------------------------------------------------------------
(* The limit of passkeys.                                                  *)

Counted == {t \in Tabs : Step(t) = "counted"}

\* Has a step, whatever is in the fields that hold decoded bytes.
Shaped(r) == "step" \in DOMAIN r

Finite ==
  /\ IsFiniteSet(stored)
  /\ tabs = [t \in Tabs |-> tabs[t]]
  /\ \A t \in Tabs : Shaped(tabs[t])

Cap == Finite /\ CapOvershoot

\* A step of the ceremony of t gives its tab another state.
Moves(t) ==
  \/ Click(t) \/ OptionsAnswered(t) \/ OptionsRefused(t) \/ PromptRejected(t)
  \/ \E c \in Credentials : Assert(t, c) \/ Attest(t, c)
  \/ TurnedAway(t) \/ SessionExpired(t) \/ LoadPasskey(t) \/ AssertionFails(t)
  \/ CompleteAssertion(t) \/ VerifyAttestation(t) \/ ServerFails(t)
  \/ Succeeds(t) \/ Refused(t) \/ ResponseLost(t)
  \/ Shown(t) \/ \E page \in Pages : Open(t, page)

LEMMA NextCases ==
  Next => \/ \E t \in Tabs : Moves(t) \/ CountPasskeys(t) \/ AddPasskey(t)
          \/ SignInAgain \/ RemoveAllPasskeys
          \/ \E c \in Credentials : RemovePasskey(c)
BY DEF Next, Server, Network, Prompt, Moves

LEMMA Tabulated ==
  ASSUME Finite, NEW t \in Tabs, NEW r, Shaped(r), tabs' = [tabs EXCEPT ![t] = r]
  PROVE  /\ tabs' = [u \in Tabs |-> tabs'[u]]
         /\ \A u \in Tabs : Shaped(tabs'[u])
         /\ tabs'[t] = r /\ \A u \in Tabs \ {t} : tabs'[u] = tabs[u]
<1>1. tabs' = [u \in Tabs |-> tabs'[u]]
      /\ tabs'[t] = r /\ \A u \in Tabs \ {t} : tabs'[u] = tabs[u]
  BY DEF Finite
<1>2. \A u \in Tabs : Shaped(tabs'[u])
  BY <1>1 DEF Finite
<1>3. QED  BY <1>1, <1>2

LEMMA LoadedShape ==
  ASSUME NEW page
  PROVE  Shaped(Loaded(page)) /\ Loaded(page).step = "idle"
         /\ Loaded(page).page = page
BY DEF Shaped, Loaded

LEMMA CountedFinite ==
  /\ IsFiniteSet(Counted) /\ Cardinality(Counted) \in Nat
  /\ Cardinality(Counted) <= Cardinality(Tabs)
  /\ Cardinality(Tabs) \in Nat \ {0} /\ MaxPasskeys \in Nat \ {0}
<1>1. IsFiniteSet(Tabs) /\ Tabs # {} /\ MaxPasskeys \in Nat \ {0}
  BY BoundAssumption
<1>2. Counted \in SUBSET Tabs
  BY DEF Counted
<1>3. IsFiniteSet(Counted) /\ Cardinality(Counted) <= Cardinality(Tabs)
  BY <1>1, <1>2, FS_Subset
<1>4. Cardinality(Tabs) # 0
  BY <1>1, FS_EmptySet
<1>5. QED  BY <1>1, <1>3, <1>4, FS_CardinalityType

\* Nothing is added to the rows, and no tab comes to have counted them.
LEMMA NoMore ==
  ASSUME Cap, stored' \subseteq stored, tabs' = [t \in Tabs |-> tabs'[t]],
         \A t \in Tabs : Shaped(tabs'[t]),
         \A t \in Tabs : tabs'[t].step = "counted" => Step(t) = "counted"
  PROVE  Cap'
<1>1. IsFiniteSet(stored) /\ IsFiniteSet(Counted)
  BY CountedFinite DEF Cap, Finite
<1>2. Counted' \subseteq Counted
  BY DEF Counted, Step
<1>3. /\ IsFiniteSet(stored') /\ Cardinality(stored') <= Cardinality(stored)
      /\ IsFiniteSet(Counted') /\ Cardinality(Counted') <= Cardinality(Counted)
  BY <1>1, <1>2, FS_Subset
<1>4. /\ Cardinality(stored) \in Nat /\ Cardinality(stored') \in Nat
      /\ Cardinality(Counted) \in Nat /\ Cardinality(Counted') \in Nat
  BY <1>1, <1>3, FS_CardinalityType
<1>5. CapOvershoot'
  BY <1>3, <1>4, CountedFinite DEF Cap, CapOvershoot, Counted
<1>6. QED  BY <1>3, <1>5 DEF Cap, Finite

\* A page load: what is shown in the tab has no ceremony.
LEMMA PageShown ==
  ASSUME NEW t, Shown(t) \/ \E page \in Pages : Open(t, page)
  PROVE  \E r : /\ Shaped(r) /\ r.step \in {"idle", "loading"}
                /\ r.answer = "none" /\ tabs' = [tabs EXCEPT ![t] = r]
<1>1. ASSUME NEW page PROVE Shaped(Loaded(page)) /\ Loaded(page).step = "idle"
                            /\ Loaded(page).answer = "none"
  BY DEF Loaded, Shaped
<1>2. CASE Shown(t)
  BY <1>1, <1>2 DEF Shown
<1>3. ASSUME NEW page \in Pages, Open(t, page)
      PROVE  \E r : /\ Shaped(r) /\ r.step \in {"idle", "loading"}
                    /\ r.answer = "none" /\ tabs' = [tabs EXCEPT ![t] = r]
  <2> DEFINE q == [Loaded(page) EXCEPT !.step = "loading", !.sent = Sent]
  <2>1. Shaped(q) /\ q.step = "loading" /\ q.answer = "none"
    BY DEF Loaded, Shaped
  <2>2. tabs' = [tabs EXCEPT ![t] = Loaded(page)] \/ tabs' = [tabs EXCEPT ![t] = q]
    BY <1>3 DEF Open
  <2> HIDE DEF q
  <2>3. QED  BY <1>1, <2>1, <2>2
<1>4. QED  BY <1>2, <1>3

Answer(t, kind) ==
  [Loaded(tabs[t].page) EXCEPT !.step = "answered", !.disabled = TRUE,
                               !.answer = kind, !.sent = tabs[t].sent]

LEMMA AnswerShape ==
  ASSUME NEW t, NEW kind
  PROVE  /\ Shaped(Answer(t, kind)) /\ Answer(t, kind).step = "answered"
         /\ Answer(t, kind).answer = kind
         /\ Answers(t, kind) => tabs' = [tabs EXCEPT ![t] = Answer(t, kind)]
<1>1. Answers(t, kind) => tabs' = [tabs EXCEPT ![t] = Answer(t, kind)]
  <2> DEFINE p(u) == [Loaded(u.page) EXCEPT !.step = "answered", !.disabled = TRUE,
                                            !.answer = kind, !.sent = tabs[t].sent]
  <2>1. Answers(t, kind) => tabs' = [tabs EXCEPT ![t] = p(@)]
    BY DEF Answers
  <2>2. Answer(t, kind) = p(tabs[t])
    BY DEF Answer
  <2> HIDE DEF p
  <2>3. QED  BY <2>1, <2>2
<1>2. QED  BY <1>1 DEF Answer, Shaped, Loaded

\* The new state of a tab is its old one but for some fields, or a page.
LEMMA Changed ==
  ASSUME Finite, NEW t \in Tabs, Moves(t)
  PROVE  \E r : /\ Shaped(r) /\ r.step # "counted"
                /\ tabs' = [tabs EXCEPT ![t] = r]
<1> DEFINE P == \E r : /\ Shaped(r) /\ r.step # "counted"
                       /\ tabs' = [tabs EXCEPT ![t] = r]
<1>0. Shaped(tabs[t])
  BY DEF Finite
<1>1. ASSUME NEW step \in {"options", "prompt", "sent", "loaded", "verified", "answered"}
      PROVE  Shaped(Going(t, step)) /\ Going(t, step).step = step
  BY <1>0 DEF Going, Shaped
<1>2. Shaped(ShowError(t)) /\ ShowError(t).step = "idle"
  BY LoadedShape DEF ShowError, Shaped
<1>3. ASSUME NEW kind, Answers(t, kind) PROVE P
  BY <1>3, AnswerShape DEF Answers
<1>4. ASSUME Fails(t) PROVE P
  BY <1>2, <1>4 DEF Fails
<1>5. CASE Click(t)
  <2> DEFINE r == [Going(t, "options") EXCEPT !.disabled = TRUE, !.told = FALSE,
                                              !.sent = Sent]
  <2>1. Shaped(r) /\ r.step = "options"
    BY <1>1 DEF Shaped
  <2>2. tabs' = [tabs EXCEPT ![t] = r]
    BY <1>5 DEF Click
  <2>3. QED  BY <2>1, <2>2
<1>6. CASE OptionsAnswered(t)
  <2> DEFINE challenge == Challenges[issued + 1]
             list == {ToPage[c] : c \in stored}
             r == [Going(t, "prompt") EXCEPT !.challenge = ToPage[challenge],
                                             !.list = list]
             e == [ShowError(t) EXCEPT !.answer = "unreadable"]
  <2>1. Shaped(r) /\ r.step = "prompt"
    <3> HIDE DEF challenge, list
    <3>1. QED  BY <1>1 DEF Shaped
  <2>2. Shaped(e) /\ e.step = "idle"
    BY <1>2 DEF Shaped
  <2>3. tabs' = [tabs EXCEPT ![t] = r] \/ tabs' = [tabs EXCEPT ![t] = e]
    BY <1>6 DEF OptionsAnswered
  <2> HIDE DEF r, e
  <2>4. QED  BY <2>1, <2>2, <2>3
<1>7. ASSUME NEW c \in Credentials, Assert(t, c) PROVE P
  <2> DEFINE r == [Going(t, "sent") EXCEPT !.list = {}, !.credential = c,
                        !.count = signed'[c], !.sent = Sent]
  <2>1. Shaped(r) /\ r.step = "sent"
    BY <1>1 DEF Shaped
  <2>2. tabs' = [tabs EXCEPT ![t] = r]
    BY <1>7 DEF Assert
  <2>3. QED  BY <2>1, <2>2
<1>8. ASSUME NEW c \in Credentials, Attest(t, c) PROVE P
  <2> DEFINE r == [Going(t, "sent") EXCEPT !.list = {}, !.credential = c,
                                           !.sent = Sent]
  <2>1. Shaped(r) /\ r.step = "sent"
    BY <1>1 DEF Shaped
  <2>2. tabs' = [tabs EXCEPT ![t] = r]
    BY <1>8 DEF Attest
  <2>3. QED  BY <2>1, <2>2
<1>9. CASE LoadPasskey(t)
  <2> DEFINE r == [Going(t, "loaded") EXCEPT !.loaded = counter[RawId(t)]]
  <2>1. Shaped(r) /\ r.step = "loaded"
    BY <1>1 DEF Shaped
  <2>2. tabs' = [tabs EXCEPT ![t] = r] \/ Answers(t, "refused")
    BY <1>9 DEF LoadPasskey
  <2> HIDE DEF r
  <2>3. QED  BY <1>3, <2>1, <2>2
<1>10. CASE VerifyAttestation(t)
  BY <1>1, <1>3, <1>10 DEF VerifyAttestation
<1>11. CASE Succeeds(t)
  <2> DEFINE r == [Loaded(tabs[t].page) EXCEPT !.leaving = TRUE]
  <2>1. Shaped(r) /\ r.step = "idle"
    BY LoadedShape DEF Shaped
  <2>2. tabs' = [tabs EXCEPT ![t] = r]
    BY <1>11 DEF Succeeds
  <2>3. QED  BY <2>1, <2>2
<1>12. CASE Shown(t) \/ \E page \in Pages : Open(t, page)
  <2>1. PICK r : /\ Shaped(r) /\ r.step \in {"idle", "loading"}
                 /\ tabs' = [tabs EXCEPT ![t] = r]
    BY <1>12, PageShown
  <2>2. QED  BY <2>1
<1>13. CASE \/ TurnedAway(t) \/ SessionExpired(t) \/ AssertionFails(t)
            \/ CompleteAssertion(t) \/ ServerFails(t)
  BY <1>3, <1>13 DEF TurnedAway, SessionExpired, AssertionFails, CompleteAssertion,
                     ServerFails
<1>14. CASE OptionsRefused(t) \/ PromptRejected(t) \/ Refused(t) \/ ResponseLost(t)
  BY <1>4, <1>14 DEF OptionsRefused, PromptRejected, Refused, ResponseLost
<1>15. QED
  BY <1>5, <1>6, <1>7, <1>8, <1>9, <1>10, <1>11, <1>12, <1>13, <1>14 DEF Moves

LEMMA MovesCap ==
  ASSUME Cap, NEW t \in Tabs, Moves(t)
  PROVE  Cap'
<1>1. stored' = stored
  BY DEF Moves, Click, OptionsAnswered, OptionsRefused, PromptRejected, Assert,
         Attest, TurnedAway, SessionExpired, LoadPasskey, AssertionFails,
         CompleteAssertion, VerifyAttestation, ServerFails, Succeeds, Refused,
         ResponseLost, Open, Shown, ServerUnchanged, Arrives, rows
<1>2. PICK r : /\ Shaped(r) /\ r.step # "counted"
               /\ tabs' = [tabs EXCEPT ![t] = r]
  BY Changed DEF Cap
<1>3. /\ tabs' = [u \in Tabs |-> tabs'[u]]
      /\ \A u \in Tabs : Shaped(tabs'[u])
      /\ tabs'[t] = r /\ \A u \in Tabs \ {t} : tabs'[u] = tabs[u]
  BY <1>2, Tabulated DEF Cap
<1>4. \A u \in Tabs : tabs'[u].step = "counted" => Step(u) = "counted"
  BY <1>2, <1>3 DEF Step
<1>5. QED  BY <1>1, <1>3, <1>4, NoMore

(* Below the limit, even if all tabs have counted the rows.                *)
LEMMA CountCap ==
  ASSUME Cap, NEW t \in Tabs, CountPasskeys(t)
  PROVE  Cap'
<1>0. stored' = stored /\ Shaped(tabs[t]) /\ IsFiniteSet(stored)
  BY DEF CountPasskeys, ServerUnchanged, rows, Cap, Finite
<1>1. CASE Cardinality(stored) >= MaxPasskeys
  <2> DEFINE r == Answer(t, "full")
  <2>1. Shaped(r) /\ r.step # "counted" /\ tabs' = [tabs EXCEPT ![t] = r]
    BY <1>1, AnswerShape DEF CountPasskeys
  <2>2. /\ tabs' = [u \in Tabs |-> tabs'[u]]
        /\ \A u \in Tabs : Shaped(tabs'[u])
        /\ tabs'[t] = r /\ \A u \in Tabs \ {t} : tabs'[u] = tabs[u]
    <3> HIDE DEF r
    <3>1. QED  BY <2>1, Tabulated DEF Cap
  <2> HIDE DEF r
  <2>3. \A u \in Tabs : tabs'[u].step = "counted" => Step(u) = "counted"
    BY <2>1, <2>2 DEF Step
  <2>4. QED  BY <1>0, <2>2, <2>3, NoMore
<1>2. CASE ~(Cardinality(stored) >= MaxPasskeys)
  <2> DEFINE r == Going(t, "counted")
  <2>1. Shaped(r) /\ tabs' = [tabs EXCEPT ![t] = r]
    BY <1>0, <1>2 DEF CountPasskeys, Going, Shaped
  <2>2. /\ tabs' = [u \in Tabs |-> tabs'[u]]
        /\ \A u \in Tabs : Shaped(tabs'[u])
    <3> HIDE DEF r
    <3>1. QED  BY <2>1, Tabulated DEF Cap
  <2>3. Cardinality(stored) \in Nat
    BY <1>0, FS_CardinalityType
  <2>4. IsFiniteSet(Tabs) /\ Counted' \in SUBSET Tabs
    BY BoundAssumption DEF Counted
  <2>5. IsFiniteSet(Counted') /\ Cardinality(Counted') <= Cardinality(Tabs)
    BY <2>4, FS_Subset
  <2>6. Cardinality(Counted') \in Nat
    BY <2>5, FS_CardinalityType
  <2>7. Cardinality(stored') + Cardinality(Counted')
           <= MaxPasskeys + Cardinality(Tabs) - 1
    BY <1>0, <1>2, <2>3, <2>5, <2>6, CountedFinite
  <2>8. CapOvershoot'
    BY <2>7 DEF CapOvershoot, Counted
  <2>9. QED  BY <1>0, <2>2, <2>8 DEF Cap, Finite
<1>3. QED  BY <1>1, <1>2

\* What is added to the rows is taken from those that have counted them.
LEMMA AddCap ==
  ASSUME Cap, NEW t \in Tabs, AddPasskey(t)
  PROVE  Cap'
<1>0. IsFiniteSet(stored) /\ IsFiniteSet(Counted) /\ t \in Counted /\ Shaped(tabs[t])
  BY CountedFinite DEF Cap, Finite, AddPasskey, Counted
<1>1. PICK r : Shaped(r) /\ r.step # "counted" /\ tabs' = [tabs EXCEPT ![t] = r]
  <2> DEFINE q == [Going(t, "verified") EXCEPT !.again = TRUE]
  <2>1. Shaped(q) /\ q.step = "verified"
    BY <1>0 DEF Going, Shaped
  <2>2. Answers(t, "accepted") \/ tabs' = [tabs EXCEPT ![t] = q]
    BY DEF AddPasskey
  <2> HIDE DEF q
  <2>3. QED  BY <2>1, <2>2, AnswerShape
<1>2. /\ tabs' = [u \in Tabs |-> tabs'[u]]
      /\ \A u \in Tabs : Shaped(tabs'[u])
      /\ tabs'[t] = r /\ \A u \in Tabs \ {t} : tabs'[u] = tabs[u]
  BY <1>1, Tabulated DEF Cap
<1>3. Counted' = Counted \ {t}
  BY <1>1, <1>2 DEF Counted, Step
<1>4. IsFiniteSet(Counted') /\ Cardinality(Counted') = Cardinality(Counted) - 1
  BY <1>0, <1>3, FS_RemoveElement
<1>5. stored' = stored \cup {RawId(t)}
  BY DEF AddPasskey
<1>6. /\ IsFiniteSet(stored')
      /\ Cardinality(stored') = Cardinality(stored)
         \/ Cardinality(stored') = Cardinality(stored) + 1
  BY <1>0, <1>5, FS_AddElement
<1>7. /\ Cardinality(stored) \in Nat /\ Cardinality(Counted) \in Nat
      /\ Cardinality(Counted') \in Nat
  BY <1>0, <1>4, FS_CardinalityType
<1>8. Cardinality(stored) + Cardinality(Counted)
         <= MaxPasskeys + Cardinality(Tabs) - 1
  BY DEF Cap, CapOvershoot, Counted
<1>9. Cardinality(stored') + Cardinality(Counted')
         <= MaxPasskeys + Cardinality(Tabs) - 1
  BY <1>4, <1>6, <1>7, <1>8, CountedFinite
<1>10. CapOvershoot'
  BY <1>9 DEF CapOvershoot, Counted
<1>11. QED  BY <1>2, <1>6, <1>10 DEF Cap, Finite

LEMMA InitCap == Init => Cap
<1> SUFFICES ASSUME Init PROVE Cap
  OBVIOUS
<1>1. PICK c \in Credentials : stored \in {{}, {c}}
  BY DEF Init
<1>2. IsFiniteSet(stored) /\ Cardinality(stored) \in {0, 1}
  <2>1. CASE stored = {}
    BY <2>1, FS_EmptySet
  <2>2. CASE stored = {c}
    BY <2>2, FS_Singleton
  <2>3. QED  BY <1>1, <2>1, <2>2
<1>3. \A t \in Tabs : \E page \in Pages : tabs[t] = Loaded(page)
  BY DEF Init
<1>4. tabs = [t \in Tabs |-> tabs[t]]
  BY DEF Init
<1>5. \A t \in Tabs : Shaped(tabs[t]) /\ Step(t) = "idle"
  BY <1>3, LoadedShape DEF Step
<1>6. Counted = {}
  BY <1>5 DEF Counted
<1>7. Cardinality(Counted) = 0
  BY <1>6, FS_EmptySet
<1>8. CapOvershoot
  BY <1>2, <1>7, CountedFinite DEF CapOvershoot, Counted
<1>9. QED  BY <1>2, <1>4, <1>5, <1>8 DEF Cap, Finite

LEMMA StepCap == Cap /\ [Next]_vars => Cap'
<1> SUFFICES ASSUME Cap, [Next]_vars PROVE Cap'
  OBVIOUS
<1>1. CASE SignInAgain \/ RemoveAllPasskeys \/ (\E c \in Credentials : RemovePasskey(c))
           \/ UNCHANGED vars
  <2>1. tabs' = tabs /\ stored' \subseteq stored
    BY <1>1 DEF SignInAgain, RemoveAllPasskeys, RemovePasskey, vars, rows
  <2>2. /\ tabs' = [t \in Tabs |-> tabs'[t]]
        /\ \A t \in Tabs : Shaped(tabs'[t])
        /\ \A t \in Tabs : tabs'[t].step = "counted" => Step(t) = "counted"
    BY <2>1 DEF Cap, Finite, Step
  <2>3. QED  BY <2>1, <2>2, NoMore
<1>2. QED  BY <1>1, MovesCap, CountCap, AddCap, NextCases

(* Registrations that overlap exceed the limit of passkeys by no more than *)
(* one for each tab but the first, whatever the browser encodes.           *)
THEOREM LimitOvershoot == Spec => []CapOvershoot
<1>1. Cap => CapOvershoot
  BY DEF Cap
<1>2. QED  BY <1>1, InitCap, StepCap, PTL DEF Spec

-----------------------------------------------------------------------------
(* Types and counters.  A tab is judged by the passkeys made and the       *)
(* signatures counted, both of which grow.                                 *)

Good(r, existing, count) ==
  /\ r \in Tab
  /\ r.disabled = (r.step \notin {"idle", "loading"})
  /\ r.step \in {"idle", "loading", "options", "prompt"} => r.count = 0
  /\ r.step \in {"sent", "loaded", "verified", "counted"} =>
        r.credential \in existing /\ r.count <= count[r.credential]

Waiting == {t \in Tabs : Step(t) = "options"}

TabsInv == /\ tabs = [t \in Tabs |-> tabs[t]]
           /\ \A t \in Tabs : Good(tabs[t], made, signed)

BrowserInv == auth \in {"pending", "signed in"} /\ cookie \in Cookies

IssuedInv == issued \in Nat /\ issued + Cardinality(Waiting) <= Len(Challenges)

KeysInv ==
  /\ made \subseteq Credentials /\ signed \in [Credentials -> 0..MaxCount]
  /\ stored \subseteq made /\ counter \in [Credentials -> 0..MaxCount]
  /\ CounterBehind

IInv == TabsInv /\ BrowserInv /\ IssuedInv /\ KeysInv /\ crossed \subseteq Tabs

LEMMA WaitingFinite ==
  IsFiniteSet(Waiting) /\ Cardinality(Waiting) \in Nat /\ Len(Challenges) \in Nat
<1>1. Waiting \in SUBSET Tabs /\ IsFiniteSet(Tabs)
  BY BoundAssumption DEF Waiting
<1>2. Len(Challenges) \in Nat
  BY ChallengeAssumption
<1>3. QED  BY <1>1, <1>2, FS_Subset, FS_CardinalityType

LEMMA InvTypes == IInv => TypeOK /\ CounterBehind
<1> SUFFICES ASSUME IInv PROVE TypeOK /\ CounterBehind
  OBVIOUS
<1>1. tabs \in [Tabs -> Tab] /\ \A t \in Tabs : tabs[t].disabled = Busy(t)
  BY DEF IInv, TabsInv, Good, Busy, Step
<1>2. issued \in 0..Len(Challenges)
  BY WaitingFinite DEF IInv, IssuedInv
<1>3. QED  BY <1>1, <1>2 DEF IInv, TypeOK, BrowserInv, KeysInv

NoOptions == [k \in Kinds |-> None]

LEMMA LoadedGood ==
  ASSUME NEW page \in Pages, NEW existing, NEW count, BoundAssumption
  PROVE  Good(Loaded(page), existing, count)
<1>1. [auth |-> "pending", cookie |-> NoOptions]
        \in [auth: {"pending", "signed in"}, cookie: Cookies]
  BY DEF NoOptions, Cookies
<1>2. 0 \in 0..MaxCount
  BY BoundAssumption
<1>3. QED  BY <1>1, <1>2 DEF Loaded, Good, Tab, NoOptions

LEMMA InitInv == Init => IInv
<1> SUFFICES ASSUME Init PROVE IInv
  OBVIOUS
<1>1. tabs = [t \in Tabs |-> tabs[t]]
      /\ \A t \in Tabs : \E page \in Pages : tabs[t] = Loaded(page)
  BY DEF Init
<1>2. TabsInv
  BY <1>1, LoadedGood, BoundAssumption DEF TabsInv
<1>3. BrowserInv
  BY DEF Init, BrowserInv, Cookies
<1>4. \A t \in Tabs : Step(t) = "idle"
  BY <1>1 DEF Step, Loaded
<1>5. Waiting = {}
  BY <1>4 DEF Waiting
<1>6. Cardinality(Waiting) = 0
  BY <1>5, FS_EmptySet
<1>7. IssuedInv
  <2>1. issued = 0
    BY DEF Init
  <2>2. QED  BY <1>6, <2>1, WaitingFinite DEF IssuedInv
<1>8. /\ stored \subseteq Credentials /\ made = stored
      /\ counter = [c \in Credentials |-> 0] /\ signed = [c \in Credentials |-> 0]
  BY DEF Init
<1>9. 0 \in 0..MaxCount
  BY BoundAssumption
<1>10. KeysInv
  BY <1>8, <1>9 DEF KeysInv, CounterBehind
<1>11. QED  BY <1>2, <1>3, <1>7, <1>10 DEF IInv, Init

\* What a step does to its own tab is enough: the others stay good.
LEMMA OthersGood ==
  ASSUME TabsInv, KeysInv, NEW t \in Tabs, NEW r, Good(r, made', signed'),
         tabs' = [tabs EXCEPT ![t] = r],
         made \subseteq made', \A c \in Credentials : signed[c] <= signed'[c],
         signed' \in [Credentials -> 0..MaxCount]
  PROVE  TabsInv'
<1>1. tabs' = [u \in Tabs |-> tabs'[u]]
      /\ tabs'[t] = r /\ \A u \in Tabs \ {t} : tabs'[u] = tabs[u]
  BY DEF TabsInv
<1>2. ASSUME NEW u \in Tabs, u # t PROVE Good(tabs'[u], made', signed')
  <2>1. Good(tabs[u], made, signed) /\ tabs'[u] = tabs[u]
    BY <1>1, <1>2 DEF TabsInv
  <2>2. ASSUME tabs[u].step \in {"sent", "loaded", "verified", "counted"}
        PROVE  tabs[u].credential \in made' /\ tabs[u].count <= signed'[tabs[u].credential]
    <3>1. /\ tabs[u].credential \in made /\ tabs[u].credential \in Credentials
          /\ tabs[u].count <= signed[tabs[u].credential]
          /\ tabs[u].count \in 0..MaxCount
      BY <2>1, <2>2 DEF Good, KeysInv, Tab
    <3>2. /\ signed[tabs[u].credential] \in Nat /\ signed'[tabs[u].credential] \in Nat
      BY <3>1, BoundAssumption DEF KeysInv
    <3>3. QED  BY <3>1, <3>2
  <2>3. QED  BY <2>1, <2>2 DEF Good
<1>3. QED  BY <1>1, <1>2 DEF TabsInv

\* A step that leaves the authenticators alone.
LEMMA OwnTab ==
  ASSUME TabsInv, KeysInv, NEW t \in Tabs, NEW r, Good(r, made, signed),
         tabs' = [tabs EXCEPT ![t] = r], UNCHANGED authenticators
  PROVE  TabsInv'
<1>1. made' = made /\ signed' = signed
  BY DEF authenticators
<1>2. \A c \in Credentials : signed[c] \in Nat
  BY BoundAssumption DEF KeysInv
<1>3. \A c \in Credentials : signed[c] <= signed'[c]
  BY <1>1, <1>2
<1>4. QED  BY <1>1, <1>3, OthersGood DEF KeysInv

\* No tab begins to wait for options.
NoneStarts == \A u \in Tabs : tabs'[u].step = "options" => Step(u) = "options"

\* The tab of a step other than a click does not wait for options after it.
LEMMA StopsWaiting ==
  ASSUME TabsInv, NEW t \in Tabs, NEW r, r.step # "options",
         tabs' = [tabs EXCEPT ![t] = r]
  PROVE  NoneStarts /\ Waiting' = Waiting \ {t}
<1>1. tabs'[t] = r /\ \A u \in Tabs \ {t} : tabs'[u] = tabs[u]
  BY DEF TabsInv
<1>2. QED  BY <1>1 DEF Waiting, Step, NoneStarts

LEMMA AnswersGood ==
  ASSUME TabsInv, KeysInv, NEW t \in Tabs, UNCHANGED authenticators, Busy(t),
         NEW kind \in {"forbidden", "paused", "expired", "refused", "full", "error",
                       "accepted"},
         Answers(t, kind)
  PROVE  TabsInv' /\ NoneStarts
<1> DEFINE r == Answer(t, kind)
           p == Loaded(tabs[t].page)
<1>1. tabs[t].page \in Pages
      /\ tabs[t].sent \in [auth: {"pending", "signed in"}, cookie: Cookies]
  BY DEF TabsInv, Good, Tab
<1>2. Good(r, made, signed) /\ r.step # "options"
  <2>1. p \in Tab
    BY <1>1, LoadedGood, BoundAssumption DEF Good
  <2>2. r = [p EXCEPT !.step = "answered", !.disabled = TRUE, !.answer = kind,
                      !.sent = tabs[t].sent]
    BY DEF Answer
  <2> HIDE DEF r, p
  <2>3. r \in Tab /\ r.step = "answered" /\ r.disabled = TRUE
    BY <1>1, <2>1, <2>2 DEF Tab
  <2>4. QED  BY <2>3 DEF Good
<1>3. tabs' = [tabs EXCEPT ![t] = r]
  BY AnswerShape
<1> HIDE DEF r
<1>4. QED  BY <1>2, <1>3, OwnTab, StopsWaiting

LEMMA FailsGood ==
  ASSUME TabsInv, KeysInv, NEW t \in Tabs, UNCHANGED authenticators, Fails(t)
  PROVE  TabsInv' /\ NoneStarts
<1>1. tabs[t].page \in Pages
  BY DEF TabsInv, Good, Tab
<1>2. Good(Loaded(tabs[t].page), made, signed)
  BY <1>1, LoadedGood, BoundAssumption
<1>3. Good(ShowError(t), made, signed) /\ ShowError(t).step # "options"
  <2> DEFINE p == Loaded(tabs[t].page)
             q == [p EXCEPT !.told = TRUE]
  <2>1. p \in Tab /\ p.step = "idle" /\ ~p.disabled /\ p.count = 0
    BY <1>2 DEF Good, Loaded
  <2> HIDE DEF p
  <2>2. q \in Tab /\ q.step = "idle" /\ ~q.disabled /\ q.count = 0
    BY <2>1 DEF Tab
  <2>3. ShowError(t) = q
    BY DEF ShowError, p
  <2> HIDE DEF q
  <2>4. q.disabled = (q.step \notin {"idle", "loading"})
    BY <2>2 DEF Tab
  <2>5. QED  BY <2>2, <2>3, <2>4 DEF Good
<1>4. QED  BY <1>3, OwnTab, StopsWaiting DEF Fails

\* The tabs that wait for options: with one challenge left for each.
LEMMA NoMoreWaiting ==
  ASSUME IssuedInv, issued' = issued,
         NoneStarts
  PROVE  IssuedInv'
<1>1. Waiting' \in SUBSET Waiting
  BY DEF Waiting, Step, NoneStarts
<1>2. IsFiniteSet(Waiting') /\ Cardinality(Waiting') <= Cardinality(Waiting)
  BY <1>1, WaitingFinite, FS_Subset
<1>3. Cardinality(Waiting') \in Nat
  BY <1>2, FS_CardinalityType
<1>4. QED  BY <1>2, <1>3, WaitingFinite DEF IssuedInv

LEMMA CrossedTyped ==
  ASSUME crossed \subseteq Tabs, NEW t \in Tabs,
         Crosses({t}) \/ Crosses({}) \/ Ends(t) \/ CrossesAndEnds(t) \/ UNCHANGED crossed
  PROVE  crossed' \subseteq Tabs
BY DEF Crosses, Ends, CrossesAndEnds

-----------------------------------------------------------------------------
(* The steps.                                                              *)

LEMMA ClickInv == ASSUME IInv, NEW t \in Tabs, Click(t) PROVE IInv'
<1> DEFINE r == [Going(t, "options") EXCEPT !.disabled = TRUE, !.told = FALSE,
                                            !.sent = Sent]
<1>1. Good(tabs[t], made, signed) /\ Step(t) = "idle"
  BY DEF IInv, TabsInv, Good, Click, Step
<1>2. Sent \in [auth: {"pending", "signed in"}, cookie: Cookies]
  BY DEF Sent, IInv, BrowserInv
<1>3. r \in Tab /\ r.step = "options" /\ r.disabled = TRUE /\ r.count = 0
  BY <1>1, <1>2 DEF Going, Good, Tab, Step
<1>4. tabs' = [tabs EXCEPT ![t] = r]
  BY DEF Click
<1> HIDE DEF r
<1>5. Good(r, made, signed)
  BY <1>3 DEF Good
<1>6. TabsInv'
  BY <1>4, <1>5, OwnTab DEF Click, IInv
<1>7. tabs'[t] = r /\ \A u \in Tabs \ {t} : tabs'[u] = tabs[u]
  BY <1>4 DEF IInv, TabsInv
<1>8. Waiting' = Waiting \cup {t} /\ t \notin Waiting
  BY <1>1, <1>3, <1>7 DEF Waiting, Step
<1>9. Cardinality(Waiting') = Cardinality(Waiting) + 1
  BY <1>8, WaitingFinite, FS_AddElement
<1>10. issued' = issued /\ issued + Cardinality(Waiting) < Len(Challenges)
  BY DEF Click, Waiting
<1>11. IssuedInv'
  BY <1>9, <1>10, WaitingFinite DEF IInv, IssuedInv
<1>12. BrowserInv' /\ KeysInv' /\ crossed' \subseteq Tabs
  BY DEF Click, IInv, BrowserInv, KeysInv, CounterBehind, rows, authenticators
<1>13. QED  BY <1>6, <1>11, <1>12 DEF IInv

LEMMA OptionsAnsweredInv ==
  ASSUME IInv, NEW t \in Tabs, OptionsAnswered(t)
  PROVE  IInv'
<1> DEFINE challenge == Challenges[issued + 1]
           list == {ToPage[c] : c \in stored}
           r == [Going(t, "prompt") EXCEPT !.challenge = ToPage[challenge],
                                           !.list = list]
           e == [ShowError(t) EXCEPT !.answer = "unreadable"]
<1>1. t \in Waiting /\ Good(tabs[t], made, signed) /\ Step(t) = "options"
  BY DEF OptionsAnswered, Waiting, IInv, TabsInv
<1>2. /\ IsFiniteSet(Waiting \ {t})
      /\ Cardinality(Waiting \ {t}) = Cardinality(Waiting) - 1
  BY <1>1, WaitingFinite, FS_RemoveElement
<1>3. Cardinality(Waiting \ {t}) \in Nat
  BY <1>2, FS_CardinalityType
<1>4. issued + 1 \in 1..Len(Challenges)
  BY <1>2, <1>3, WaitingFinite DEF IInv, IssuedInv
<1>5. challenge \in Issuable
  BY <1>4, ChallengeAssumption DEF Issuable
<1>6. ToPage[challenge] \in Issuable
  BY <1>5, ConversionsFaithful DEF Faithful
<1>7. list \subseteq Credentials
  BY ConversionsFaithful DEF Faithful, IInv, KeysInv
<1>8. r \in Tab /\ r.step = "prompt" /\ r.disabled = TRUE /\ r.count = 0
  <2> HIDE DEF challenge, list
  <2>1. QED  BY <1>1, <1>6, <1>7 DEF Going, Good, Tab, Step
<1>9. e \in Tab /\ e.step = "idle" /\ e.disabled = FALSE /\ e.count = 0
  <2> DEFINE p == Loaded(tabs[t].page)
  <2>1. p \in Tab /\ p.step = "idle" /\ p.disabled = FALSE /\ p.count = 0
    BY <1>1, LoadedGood, BoundAssumption DEF Good, Tab, Loaded
  <2>2. e = [[p EXCEPT !.told = TRUE] EXCEPT !.answer = "unreadable"]
    BY DEF ShowError
  <2> HIDE DEF p, e
  <2>3. QED  BY <2>1, <2>2 DEF Tab
<1>10. tabs' = [tabs EXCEPT ![t] = r] \/ tabs' = [tabs EXCEPT ![t] = e]
  BY DEF OptionsAnswered
<1>11. cookie' = [tabs[t].sent.cookie EXCEPT ![Kind(tabs[t].page)] = challenge]
  BY DEF OptionsAnswered
<1>12. tabs[t].sent.cookie \in Cookies
  BY <1>1 DEF Good, Tab
<1> HIDE DEF r, e, challenge
<1>13. Good(r, made, signed) /\ Good(e, made, signed)
  BY <1>8, <1>9 DEF Good
<1>14. TabsInv'
  BY <1>10, <1>13, OwnTab DEF OptionsAnswered, IInv
<1>15. Waiting' = Waiting \ {t}
  BY <1>8, <1>9, <1>10, StopsWaiting DEF IInv
<1>16. IssuedInv'
  BY <1>2, <1>3, <1>15, WaitingFinite DEF OptionsAnswered, IInv, IssuedInv
<1>17. cookie' \in Cookies
  BY <1>5, <1>11, <1>12 DEF Cookies
<1>18. BrowserInv'
  BY <1>17 DEF OptionsAnswered, IInv, BrowserInv
<1>19. KeysInv'
  BY DEF OptionsAnswered, IInv, KeysInv, CounterBehind, rows, authenticators
<1>20. crossed' \subseteq Tabs
  BY CrossedTyped DEF OptionsAnswered, IInv
<1>21. QED  BY <1>14, <1>16, <1>18, <1>19, <1>20 DEF IInv

LEMMA AssertInv ==
  ASSUME IInv, NEW t \in Tabs, NEW c \in Credentials, Assert(t, c)
  PROVE  IInv'
<1> DEFINE r == [Going(t, "sent") EXCEPT !.list = {}, !.credential = c,
                      !.count = signed'[c], !.sent = Sent]
<1>1. Good(tabs[t], made, signed) /\ tabs[t].disabled = TRUE /\ c \in made
  BY DEF Assert, IInv, TabsInv, Good, Step
<1>2. Sent \in [auth: {"pending", "signed in"}, cookie: Cookies]
  BY DEF Sent, IInv, BrowserInv
<1>3. /\ signed \in [Credentials -> 0..MaxCount] /\ MaxCount \in Nat
      /\ c \in Counting => signed[c] < MaxCount
      /\ signed' = IF c \in Counting THEN [signed EXCEPT ![c] = @ + 1] ELSE signed
  BY BoundAssumption DEF Assert, IInv, KeysInv
<1>4. signed' \in [Credentials -> 0..MaxCount]
  BY <1>3
<1>5. \A d \in Credentials : signed[d] <= signed'[d]
  BY <1>3
<1>6. signed'[c] \in 0..MaxCount
  BY <1>4
<1>7. /\ r \in Tab /\ r.step = "sent" /\ r.disabled = TRUE
      /\ r.credential = c /\ r.count = signed'[c]
  BY <1>1, <1>2, <1>6 DEF Going, Good, Tab
<1>8. tabs' = [tabs EXCEPT ![t] = r] /\ made' = made
  BY DEF Assert
<1> HIDE DEF r
<1>9. Good(r, made', signed')
  <2>1. r.credential \in made' /\ r.count <= signed'[r.credential]
    BY <1>1, <1>3, <1>6, <1>7, <1>8
  <2>2. r.disabled = (r.step \notin {"idle", "loading"})
    BY <1>7
  <2>3. QED  BY <1>7, <2>1, <2>2 DEF Good
<1>10. TabsInv'
  BY <1>4, <1>5, <1>8, <1>9, OthersGood DEF IInv
<1>11. NoneStarts
  BY <1>7, <1>8, StopsWaiting DEF IInv
<1>12. IssuedInv'
  BY <1>11, NoMoreWaiting DEF Assert, IInv
<1>13. BrowserInv' /\ crossed' \subseteq Tabs
  BY DEF Assert, IInv, BrowserInv
<1>14. stored' = stored /\ counter' = counter
  BY DEF Assert, rows
<1>15. \A d \in Credentials : counter[d] \in Nat /\ signed[d] \in Nat /\ signed'[d] \in Nat
  BY <1>3, <1>4 DEF IInv, KeysInv
<1>16. CounterBehind'
  BY <1>5, <1>14, <1>15 DEF IInv, KeysInv, CounterBehind
<1>17. KeysInv'
  BY <1>4, <1>8, <1>14, <1>16 DEF IInv, KeysInv
<1>18. QED  BY <1>10, <1>12, <1>13, <1>17 DEF IInv

LEMMA AttestInv ==
  ASSUME IInv, NEW t \in Tabs, NEW c \in Credentials, Attest(t, c)
  PROVE  IInv'
<1> DEFINE r == [Going(t, "sent") EXCEPT !.list = {}, !.credential = c,
                                         !.sent = Sent]
<1>1. Good(tabs[t], made, signed) /\ tabs[t].disabled = TRUE /\ tabs[t].count = 0
  BY DEF Attest, IInv, TabsInv, Good, Step
<1>2. Sent \in [auth: {"pending", "signed in"}, cookie: Cookies]
  BY DEF Sent, IInv, BrowserInv
<1>3. /\ r \in Tab /\ r.step = "sent" /\ r.disabled = TRUE
      /\ r.credential = c /\ r.count = 0
  BY <1>1, <1>2 DEF Going, Good, Tab
<1>4. /\ tabs' = [tabs EXCEPT ![t] = r] /\ made' = made \cup {c}
      /\ signed' = signed
  BY DEF Attest
<1> HIDE DEF r
<1>5. /\ signed' \in [Credentials -> 0..MaxCount]
      /\ \A d \in Credentials : signed[d] \in Nat
  BY <1>4, BoundAssumption DEF IInv, KeysInv
<1>6. Good(r, made', signed')
  <2>1. signed[c] \in Nat
    BY <1>5
  <2>2. r.credential \in made' /\ r.count <= signed'[r.credential]
    BY <1>3, <1>4, <2>1
  <2>3. r.disabled = (r.step \notin {"idle", "loading"})
    BY <1>3
  <2>4. QED  BY <1>3, <2>2, <2>3 DEF Good
<1>7. TabsInv'
  <2>1. made \subseteq made' /\ \A d \in Credentials : signed[d] <= signed'[d]
    BY <1>4, <1>5
  <2>2. QED  BY <1>4, <1>5, <1>6, <2>1, OthersGood DEF IInv
<1>8. NoneStarts
  BY <1>3, <1>4, StopsWaiting DEF IInv
<1>9. IssuedInv'
  BY <1>8, NoMoreWaiting DEF Attest, IInv
<1>10. BrowserInv' /\ crossed' \subseteq Tabs
  BY DEF Attest, IInv, BrowserInv
<1>11. KeysInv'
  BY <1>4 DEF Attest, IInv, KeysInv, CounterBehind, rows
<1>12. QED  BY <1>7, <1>9, <1>10, <1>11 DEF IInv

\* The server reads the credential that the page was given.
LEMMA RawIdRead ==
  ASSUME IInv, NEW t \in Tabs,
         Step(t) \in {"sent", "loaded", "verified", "counted"}
  PROVE  /\ RawId(t) = tabs[t].credential /\ RawId(t) \in made
         /\ RawId(t) \in Credentials /\ tabs[t].count \in 0..MaxCount
         /\ tabs[t].count <= signed[RawId(t)]
<1>1. /\ tabs[t] \in Tab /\ tabs[t].credential \in made
      /\ tabs[t].count <= signed[tabs[t].credential]
  BY DEF IInv, TabsInv, Good, Step
<1>2. tabs[t].credential \in Credentials
  BY <1>1 DEF IInv, KeysInv
<1>3. RawId(t) = tabs[t].credential
  BY <1>2, ConversionsFaithful DEF RawId, Faithful
<1>4. QED  BY <1>1, <1>2, <1>3 DEF Tab

\* Steps of the server that write nothing.
LEMMA ServerInv ==
  ASSUME IInv, NEW t \in Tabs,
         \/ TurnedAway(t) \/ SessionExpired(t) \/ LoadPasskey(t)
         \/ AssertionFails(t) \/ VerifyAttestation(t) \/ CountPasskeys(t)
         \/ ServerFails(t)
  PROVE  IInv'
<1>1. ServerUnchanged
  BY DEF TurnedAway, SessionExpired, LoadPasskey, AssertionFails,
         VerifyAttestation, CountPasskeys, ServerFails
<1>2. Step(t) \in {"sent", "loaded", "verified", "counted"} /\ Busy(t)
  BY DEF TurnedAway, SessionExpired, LoadPasskey, AssertionFails,
         VerifyAttestation, CountPasskeys, ServerFails, Accepting, Busy
<1>3. UNCHANGED authenticators /\ TabsInv /\ KeysInv
  BY <1>1 DEF ServerUnchanged, IInv
<1>4. Good(tabs[t], made, signed) /\ tabs[t].disabled = TRUE
  BY <1>2 DEF IInv, TabsInv, Good, Step
<1>5. ASSUME NEW kind \in {"forbidden", "paused", "expired", "refused", "full", "error"},
             Answers(t, kind)
      PROVE  TabsInv' /\ NoneStarts
  BY <1>2, <1>3, <1>5, AnswersGood
<1>6. ASSUME NEW step \in {"verified", "counted"},
             tabs' = [tabs EXCEPT ![t] = Going(t, step)]
      PROVE  TabsInv' /\ NoneStarts
  <2> DEFINE r == Going(t, step)
  <2>1. /\ r \in Tab /\ r.step = step /\ r.disabled = TRUE
        /\ r.credential = tabs[t].credential /\ r.count = tabs[t].count
    BY <1>4 DEF Going, Good, Tab
  <2>2. tabs[t].credential \in made /\ tabs[t].count <= signed[tabs[t].credential]
    BY <1>2, RawIdRead
  <2> HIDE DEF r
  <2>3. Good(r, made, signed)
    BY <2>1, <2>2 DEF Good
  <2>4. tabs' = [tabs EXCEPT ![t] = r] /\ r.step # "options"
    BY <1>6, <2>1 DEF r
  <2>5. QED  BY <1>3, <2>3, <2>4, OwnTab, StopsWaiting
<1>7. ASSUME RawId(t) \in stored,
             tabs' = [tabs EXCEPT ![t] = [Going(t, "loaded") EXCEPT
                                             !.loaded = counter[RawId(t)]]]
      PROVE  TabsInv' /\ NoneStarts
  <2> DEFINE r == [Going(t, "loaded") EXCEPT !.loaded = counter[RawId(t)]]
  <2>1. counter[RawId(t)] \in 0..MaxCount
    BY <1>2, RawIdRead DEF IInv, KeysInv
  <2>2. /\ r \in Tab /\ r.step = "loaded" /\ r.disabled = TRUE
        /\ r.credential = tabs[t].credential /\ r.count = tabs[t].count
    BY <1>4, <2>1 DEF Going, Good, Tab
  <2>3. tabs[t].credential \in made /\ tabs[t].count <= signed[tabs[t].credential]
    BY <1>2, RawIdRead
  <2> HIDE DEF r
  <2>4. Good(r, made, signed)
    BY <2>2, <2>3 DEF Good
  <2>5. tabs' = [tabs EXCEPT ![t] = r] /\ r.step # "options"
    BY <1>7, <2>2 DEF r
  <2>6. QED  BY <1>3, <2>4, <2>5, OwnTab, StopsWaiting
<1>8. TabsInv' /\ NoneStarts
  BY <1>5, <1>6, <1>7
     DEF TurnedAway, SessionExpired, LoadPasskey, AssertionFails,
         VerifyAttestation, CountPasskeys, ServerFails
<1>9. IssuedInv'
  BY <1>1, <1>8, NoMoreWaiting DEF ServerUnchanged, IInv
<1>10. BrowserInv' /\ KeysInv' /\ crossed' \subseteq Tabs
  BY <1>1 DEF ServerUnchanged, IInv, BrowserInv, KeysInv, CounterBehind, rows,
              authenticators
<1>11. QED  BY <1>8, <1>9, <1>10 DEF IInv

\* Those that write a counter, and with a new passkey its row.
LEMMA AcceptInv ==
  ASSUME IInv, NEW t \in Tabs, CompleteAssertion(t) \/ AddPasskey(t)
  PROVE  IInv'
<1>1. Step(t) \in {"loaded", "counted"} /\ Busy(t)
  BY DEF CompleteAssertion, AddPasskey, Busy
<1>2. /\ RawId(t) \in made /\ RawId(t) \in Credentials
      /\ tabs[t].count \in 0..MaxCount /\ tabs[t].count <= signed[RawId(t)]
  BY <1>1, RawIdRead
<1>3. /\ UNCHANGED authenticators
      /\ auth' = auth /\ cookie' = cookie /\ issued' = issued
  BY DEF CompleteAssertion, AddPasskey
<1>4. TabsInv' /\ NoneStarts
  <2> DEFINE q == [Going(t, "verified") EXCEPT !.again = TRUE]
  <2>1. CASE Answers(t, "accepted")
    BY <1>1, <1>3, <2>1, AnswersGood DEF IInv
  <2>2. CASE tabs' = [tabs EXCEPT ![t] = q]
    <3>1. tabs[t] \in Tab /\ tabs[t].disabled = TRUE
      BY <1>1 DEF IInv, TabsInv, Good, Step
    <3>2. /\ q \in Tab /\ q.step = "verified" /\ q.disabled = TRUE
          /\ q.credential = tabs[t].credential /\ q.count = tabs[t].count
      BY <3>1 DEF Going, Tab
    <3>3. tabs[t].credential \in made /\ tabs[t].count <= signed[tabs[t].credential]
      BY <1>1, RawIdRead
    <3> HIDE DEF q
    <3>4. Good(q, made, signed)
      BY <3>2, <3>3 DEF Good
    <3>5. QED  BY <1>3, <2>2, <3>2, <3>4, OwnTab, StopsWaiting DEF IInv
  <2>3. QED  BY <2>1, <2>2 DEF CompleteAssertion, AddPasskey
<1>5. IssuedInv'
  BY <1>3, <1>4, NoMoreWaiting DEF IInv
<1>6. stored' \subseteq made
  BY <1>2 DEF CompleteAssertion, AddPasskey, IInv, KeysInv
<1>7. counter' \in {counter, [counter EXCEPT ![RawId(t)] = tabs[t].count]}
  BY DEF CompleteAssertion, AddPasskey
<1>8. counter \in [Credentials -> 0..MaxCount] /\ CounterBehind
  BY DEF IInv, KeysInv
<1>9. /\ counter' \in [Credentials -> 0..MaxCount]
      /\ \A c \in Credentials : counter'[c] <= signed[c]
  BY <1>2, <1>7, <1>8 DEF CounterBehind
<1>10. KeysInv'
  BY <1>3, <1>6, <1>9 DEF IInv, KeysInv, CounterBehind, authenticators
<1>11. crossed' \subseteq Tabs
  BY CrossedTyped DEF CompleteAssertion, AddPasskey, IInv
<1>12. QED  BY <1>3, <1>4, <1>5, <1>10, <1>11 DEF IInv, BrowserInv

\* The ends of a ceremony at the page, and a page that is opened.
LEMMA EndInv ==
  ASSUME IInv, NEW t \in Tabs,
         \/ OptionsRefused(t) \/ PromptRejected(t) \/ ResponseLost(t)
         \/ Refused(t) \/ Succeeds(t)
         \/ Shown(t) \/ \E page \in Pages : Open(t, page)
  PROVE  IInv'
<1>1. UNCHANGED <<rows, authenticators, issued>>
  BY DEF OptionsRefused, PromptRejected, ResponseLost, Refused, Succeeds, Open, Shown,
         Arrives
<1>2. tabs[t].page \in Pages /\ tabs[t].sent.cookie \in Cookies
  BY DEF IInv, TabsInv, Good, Tab
<1>3. ASSUME Succeeds(t) PROVE TabsInv' /\ NoneStarts
  <2> DEFINE p == Loaded(tabs[t].page)
             r == [p EXCEPT !.leaving = TRUE]
  <2>1. p \in Tab /\ p.step = "idle" /\ p.disabled = FALSE /\ p.count = 0
    BY <1>2, LoadedGood, BoundAssumption DEF Good, Loaded
  <2>2. tabs' = [tabs EXCEPT ![t] = r]
    BY <1>3 DEF Succeeds
  <2> HIDE DEF p
  <2>3. r \in Tab /\ r.step = "idle" /\ r.disabled = FALSE /\ r.count = 0
    BY <2>1 DEF Tab
  <2> HIDE DEF r
  <2>4. Good(r, made, signed)
    BY <2>3 DEF Good
  <2>5. QED  BY <1>1, <2>2, <2>3, <2>4, OwnTab, StopsWaiting DEF IInv
<1>4. ASSUME NEW page \in Pages, Open(t, page) PROVE TabsInv' /\ NoneStarts
  <2> DEFINE p == Loaded(page)
             q == [p EXCEPT !.step = "loading", !.sent = Sent]
  <2>1. Good(p, made, signed) /\ p.step # "options" /\ p \in Tab
        /\ p.disabled = FALSE /\ p.count = 0
    BY LoadedGood, LoadedShape, BoundAssumption DEF Good, Loaded
  <2>2. Sent \in [auth: {"pending", "signed in"}, cookie: Cookies]
    BY DEF Sent, IInv, BrowserInv
  <2>3. tabs' = [tabs EXCEPT ![t] = p] \/ tabs' = [tabs EXCEPT ![t] = q]
    BY <1>4 DEF Open
  <2> HIDE DEF p
  <2>4. q \in Tab /\ q.step = "loading" /\ q.disabled = FALSE /\ q.count = 0
    BY <2>1, <2>2 DEF Tab
  <2> HIDE DEF q
  <2>5. Good(q, made, signed)
    BY <2>4 DEF Good
  <2>6. QED  BY <1>1, <2>1, <2>3, <2>4, <2>5, OwnTab, StopsWaiting DEF IInv
<1>13. ASSUME Shown(t) PROVE TabsInv' /\ NoneStarts
  <2> DEFINE p == Loaded(tabs[t].page)
  <2>1. Good(p, made, signed) /\ p.step # "options" /\ tabs' = [tabs EXCEPT ![t] = p]
    BY <1>2, <1>13, LoadedGood, LoadedShape, BoundAssumption DEF Shown
  <2> HIDE DEF p
  <2>2. QED  BY <1>1, <2>1, OwnTab, StopsWaiting DEF IInv
<1>5. ASSUME Fails(t) PROVE TabsInv' /\ NoneStarts
  BY <1>1, <1>5, FailsGood DEF IInv
<1>6. TabsInv' /\ NoneStarts
  BY <1>3, <1>4, <1>5, <1>13 DEF OptionsRefused, PromptRejected, ResponseLost, Refused
<1>7. IssuedInv'
  BY <1>1, <1>6, NoMoreWaiting DEF IInv
<1>8. auth' \in {"pending", "signed in"}
  BY DEF OptionsRefused, PromptRejected, ResponseLost, Refused, Succeeds, Open, Shown,
         Arrives, IInv, BrowserInv
<1>9. cookie' \in Cookies
  <2>1. [tabs[t].sent.cookie EXCEPT ![Kind(tabs[t].page)] = None] \in Cookies
    BY <1>2 DEF Cookies
  <2>2. cookie' \in {cookie, tabs[t].sent.cookie,
                     [tabs[t].sent.cookie EXCEPT ![Kind(tabs[t].page)] = None]}
    BY DEF OptionsRefused, PromptRejected, ResponseLost, Refused, Succeeds, Open,
           Shown, Arrives
  <2>3. QED  BY <1>2, <2>1, <2>2 DEF IInv, BrowserInv
<1>10. KeysInv'
  BY <1>1 DEF IInv, KeysInv, CounterBehind, rows, authenticators
<1>11. crossed' \subseteq Tabs
  BY CrossedTyped DEF OptionsRefused, PromptRejected, ResponseLost, Refused,
         Succeeds, Open, Shown, Arrives, IInv
<1>12. QED  BY <1>6, <1>7, <1>8, <1>9, <1>10, <1>11 DEF IInv, BrowserInv

\* What happens around the ceremonies.
LEMMA AroundInv ==
  ASSUME IInv,
         \/ SignInAgain \/ RemoveAllPasskeys \/ \E c \in Credentials : RemovePasskey(c)
         \/ UNCHANGED vars
  PROVE  IInv'
<1>1. /\ UNCHANGED <<tabs, cookie, counter, authenticators, issued>>
      /\ stored' \subseteq stored /\ auth' \in {auth, "pending"}
  BY DEF SignInAgain, RemoveAllPasskeys, RemovePasskey, vars, rows, authenticators
<1>2. TabsInv'
  BY <1>1 DEF IInv, TabsInv, authenticators
<1>3. Waiting' = Waiting
  BY <1>1 DEF Waiting, Step
<1>4. IssuedInv'
  BY <1>1, <1>3 DEF IInv, IssuedInv
<1>5. BrowserInv' /\ KeysInv'
  BY <1>1 DEF IInv, BrowserInv, KeysInv, CounterBehind, authenticators
<1>6. crossed' \subseteq Tabs
  BY DEF SignInAgain, RemoveAllPasskeys, RemovePasskey, vars, Crosses, IInv
<1>7. QED  BY <1>2, <1>4, <1>5, <1>6 DEF IInv

LEMMA StepInv == IInv /\ [Next]_vars => IInv'
<1> SUFFICES ASSUME IInv, [Next]_vars PROVE IInv'
  OBVIOUS
<1>1. ASSUME NEW t \in Tabs, Moves(t) PROVE IInv'
  BY <1>1, ClickInv, OptionsAnsweredInv, AssertInv, AttestInv, ServerInv,
     AcceptInv, EndInv DEF Moves
<1>2. ASSUME NEW t \in Tabs, CountPasskeys(t) \/ AddPasskey(t) PROVE IInv'
  BY <1>2, ServerInv, AcceptInv
<1>3. QED  BY <1>1, <1>2, AroundInv, NextCases

LEMMA Invariant == Spec => [](TypeOK /\ CounterBehind)
<1>1. IInv /\ [Next]_vars => IInv'
  BY StepInv
<1>2. QED  BY <1>1, InitInv, InvTypes, PTL DEF Spec

(* What pages hold and send are challenges that were issued and credentials*)
(* that were made, no more challenges are issued than there are, and the   *)
(* button is disabled exactly while a ceremony is under way.               *)
THEOREM TypeCorrect == Spec => []TypeOK
BY Invariant, PTL

(* The counter stored for a passkey never runs ahead of its authenticator, *)
(* however sign-ins, registrations and removals of any number of tabs      *)
(* overlap.                                                                *)
THEOREM CountersBehind == Spec => []CounterBehind
BY Invariant, PTL

-----------------------------------------------------------------------------
(* Genuine ceremonies.                                                     *)

(* What a ceremony that nothing has crossed holds, seen against the cookie *)
(* and the rows as they are.                                               *)
Fresh(r, options, ids, counts) ==
  /\ r.answer \notin {"unreadable", "refused", "expired"}
  /\ r.step \in {"prompt", "sent", "loaded"} => r.challenge \in Issuable
  /\ r.step = "prompt" => options[Kind(r.page)] = r.challenge /\ r.list \subseteq ids
  /\ r.step \in {"sent", "loaded"} => r.sent.cookie[Kind(r.page)] = r.challenge
  /\ r.step = "sent" /\ r.page = "login" =>
        /\ r.credential \in ids
        /\ r.count = 0 \/ r.count > counts[r.credential]
  /\ r.step = "sent" /\ r.page # "login" => r.credential \notin ids
  /\ r.step = "loaded" => r.count = 0 \/ r.count > r.loaded

Plain == \A t \in Tabs : tabs[t].answer # "none" => Step(t) = "answered"

FreshInv ==
  /\ \A t \in Tabs \ crossed : Fresh(tabs[t], cookie, stored, counter)
  /\ Plain
  /\ \A c \in Credentials \ Counting : signed[c] = 0

GInv == IInv /\ FreshInv

LEMMA IdleFresh ==
  ASSUME NEW r, r.step \in {"idle", "loading"}, r.answer = "none",
         NEW options, NEW ids, NEW counts
  PROVE  Fresh(r, options, ids, counts)
BY DEF Fresh

\* What a ceremony is seen against stays, or others under way are crossed.
Unnoticed(t) ==
  \/ UNCHANGED <<cookie, stored, counter>> /\ crossed \ {t} \subseteq crossed'
  \/ {u \in Tabs \ {t} : Busy(u)} \subseteq crossed'

LEMMA OthersFresh ==
  ASSUME GInv, NEW t, NEW u \in Tabs, u # t, u \notin crossed',
         tabs'[u] = tabs[u], Unnoticed(t)
  PROVE  Fresh(tabs'[u], cookie', stored', counter')
<1>1. CASE Busy(u)
  <2>1. UNCHANGED <<cookie, stored, counter>> /\ u \notin crossed
    BY <1>1 DEF Unnoticed
  <2>2. QED  BY <2>1 DEF GInv, FreshInv
<1>2. CASE ~Busy(u)
  <2>1. tabs'[u].step \in {"idle", "loading"} /\ tabs'[u].answer = "none"
    BY <1>2 DEF Busy, Step, GInv, FreshInv, Plain
  <2>2. QED  BY <2>1, IdleFresh
<1>3. QED  BY <1>1, <1>2

\* The tab that moves is all there is to look at.
LEMMA OwnFresh ==
  ASSUME GInv, NEW t \in Tabs, NEW r, tabs' = [tabs EXCEPT ![t] = r],
         t \notin crossed' => Fresh(r, cookie', stored', counter'),
         r.answer # "none" => r.step = "answered",
         Unnoticed(t), signed' = signed
  PROVE  FreshInv'
<1>1. tabs'[t] = r /\ \A u \in Tabs \ {t} : tabs'[u] = tabs[u]
  BY DEF GInv, IInv, TabsInv
<1>2. \A u \in Tabs \ crossed' : Fresh(tabs'[u], cookie', stored', counter')
  BY <1>1, OthersFresh
<1>3. Plain'
  BY <1>1 DEF GInv, FreshInv, Plain, Step
<1>4. QED  BY <1>2, <1>3 DEF GInv, FreshInv

\* A page without a ceremony.
LEMMA PageFresh ==
  ASSUME GInv, NEW t \in Tabs, NEW r, tabs' = [tabs EXCEPT ![t] = r],
         r.step \in {"idle", "loading"}, r.answer = "none", Unnoticed(t),
         signed' = signed
  PROVE  FreshInv'
<1>1. \A options, ids, counts : Fresh(r, options, ids, counts)
  BY IdleFresh
<1>2. t \notin crossed' => Fresh(r, cookie', stored', counter')
  BY <1>1
<1>3. r.answer # "none" => r.step = "answered"
  OBVIOUS
<1>4. QED  BY <1>2, <1>3, OwnFresh

\* An answer that does not refuse.
LEMMA AnswerFresh ==
  ASSUME GInv, NEW t \in Tabs, NEW kind, Answers(t, kind),
         t \notin crossed' => kind \notin {"unreadable", "refused", "expired"},
         Unnoticed(t), signed' = signed
  PROVE  FreshInv'
<1> DEFINE r == Answer(t, kind)
<1>1. tabs[t] \in Tab
  BY DEF GInv, IInv, TabsInv, Good
<1>2. r.answer = kind /\ r.step = "answered" /\ tabs' = [tabs EXCEPT ![t] = r]
  BY <1>1, AnswerShape
<1>3. tabs' = [tabs EXCEPT ![t] = r]
  BY <1>2
<1> HIDE DEF r
<1>4. t \notin crossed' => Fresh(r, cookie', stored', counter')
  BY <1>2 DEF Fresh
<1>5. QED  BY <1>2, <1>3, <1>4, OwnFresh

LEMMA ClickFresh == ASSUME GInv, NEW t \in Tabs, Click(t) PROVE FreshInv'
<1> DEFINE r == [Going(t, "options") EXCEPT !.disabled = TRUE, !.told = FALSE,
                                            !.sent = Sent]
<1>1. Good(tabs[t], made, signed) /\ tabs[t].step = "idle" /\ tabs[t].answer = "none"
  BY DEF GInv, IInv, TabsInv, FreshInv, Plain, Good, Click, Step
<1>2. r.step = "options" /\ r.answer = "none"
  BY <1>1 DEF Going, Good, Tab
<1>3. tabs' = [tabs EXCEPT ![t] = r]
  BY DEF Click
<1> HIDE DEF r
<1>4. Fresh(r, cookie', stored', counter')
  BY <1>2 DEF Fresh
<1>5. Unnoticed(t) /\ signed' = signed
  BY DEF Click, Unnoticed, rows, authenticators
<1>6. QED  BY <1>2, <1>3, <1>4, <1>5, OwnFresh

LEMMA OptionsAnsweredFresh ==
  ASSUME GInv, NEW t \in Tabs, OptionsAnswered(t)
  PROVE  FreshInv'
<1> DEFINE challenge == Challenges[issued + 1]
           list == {ToPage[c] : c \in stored}
           r == [Going(t, "prompt") EXCEPT !.challenge = ToPage[challenge],
                                           !.list = list]
<1>1. /\ t \in Waiting /\ tabs[t] \in Tab /\ tabs[t].step = "options"
      /\ tabs[t].answer = "none"
  BY DEF OptionsAnswered, Waiting, GInv, IInv, TabsInv, FreshInv, Plain, Good, Step
<1>2. challenge \in Issuable
  <2>1. Cardinality(Waiting \ {t}) = Cardinality(Waiting) - 1
        /\ IsFiniteSet(Waiting \ {t})
    BY <1>1, WaitingFinite, FS_RemoveElement
  <2>2. Cardinality(Waiting \ {t}) \in Nat
    BY <2>1, FS_CardinalityType
  <2>3. issued + 1 \in 1..Len(Challenges)
    BY <2>1, <2>2, WaitingFinite DEF GInv, IInv, IssuedInv
  <2>4. QED  BY <2>3, ChallengeAssumption DEF Issuable
<1>3. ToPage[challenge] = challenge
  BY <1>2, ConversionsFaithful DEF Faithful
<1>4. list = stored
  <2>1. \A c \in stored : ToPage[c] = c
    BY ConversionsFaithful DEF Faithful, GInv, IInv, KeysInv
  <2>2. QED  BY <2>1
<1>5. Broken \notin {ToPage[challenge]} \cup list
  <2>1. \A b \in Issuable \cup Credentials : b # Broken
    <3>1. -1 \notin Byte
      BY DEF Byte
    <3>2. Broken \notin Seq(Byte)
      BY <3>1 DEF Broken
    <3>3. QED  BY <3>2, ChallengeAssumption
  <2>2. stored \subseteq Credentials
    BY DEF GInv, IInv, KeysInv
  <2>3. QED  BY <1>2, <1>3, <1>4, <2>1, <2>2
<1>6. /\ tabs' = [tabs EXCEPT ![t] = r]
      /\ cookie' = [tabs[t].sent.cookie EXCEPT ![Kind(tabs[t].page)] = challenge]
  BY <1>5 DEF OptionsAnswered
<1>7. Kind(tabs[t].page) \in Kinds /\ tabs[t].sent.cookie \in Cookies
  BY <1>1 DEF Kind, Kinds, Tab
<1>8. cookie'[Kind(tabs[t].page)] = challenge
  BY <1>6, <1>7 DEF Cookies
<1>9. stored' = stored /\ signed' = signed /\ Unnoticed(t)
  BY DEF OptionsAnswered, Unnoticed, Crosses, rows, authenticators
<1> HIDE DEF challenge, list
<1>10. /\ r.step = "prompt" /\ r.answer = "none" /\ r.page = tabs[t].page
       /\ r.challenge = challenge /\ r.list = stored
  BY <1>1, <1>3, <1>4 DEF Going, Tab
<1> HIDE DEF r
<1>11. Fresh(r, cookie', stored', counter')
  BY <1>2, <1>8, <1>9, <1>10 DEF Fresh
<1>12. QED  BY <1>6, <1>9, <1>10, <1>11, OwnFresh

\* A signature that is counted is ahead of the counter.
LEMMA AssertFresh ==
  ASSUME GInv, NEW t \in Tabs, NEW c \in Credentials, Assert(t, c)
  PROVE  FreshInv'
<1> DEFINE r == [Going(t, "sent") EXCEPT !.list = {}, !.credential = c,
                      !.count = signed'[c], !.sent = Sent]
<1>1. /\ tabs[t] \in Tab /\ tabs[t].step = "prompt" /\ tabs[t].page = "login"
      /\ tabs[t].answer = "none" /\ c \in tabs[t].list
  BY DEF Assert, GInv, IInv, TabsInv, FreshInv, Plain, Good, Step
<1>2. /\ signed \in [Credentials -> 0..MaxCount] /\ MaxCount \in Nat
      /\ counter \in [Credentials -> 0..MaxCount] /\ counter[c] <= signed[c]
      /\ signed' = IF c \in Counting THEN [signed EXCEPT ![c] = @ + 1] ELSE signed
      /\ \A d \in Credentials \ Counting : signed[d] = 0
  BY BoundAssumption DEF Assert, GInv, IInv, KeysInv, CounterBehind, FreshInv
<1>3. signed'[c] = 0 \/ signed'[c] > counter[c]
  BY <1>2
<1>4. \A d \in Credentials \ Counting : signed'[d] = 0
  BY <1>2
<1>5. /\ r.step = "sent" /\ r.answer = "none" /\ r.page = "login"
      /\ r.challenge = tabs[t].challenge /\ r.credential = c
      /\ r.count = signed'[c] /\ r.sent.cookie = cookie
  BY <1>1 DEF Going, Tab, Sent
<1>6. tabs' = [tabs EXCEPT ![t] = r]
  BY DEF Assert
<1>7. UNCHANGED <<cookie, stored, counter, crossed>>
  BY DEF Assert, rows
<1> HIDE DEF r
<1>8. t \notin crossed' => Fresh(r, cookie', stored', counter')
  <2> SUFFICES ASSUME t \notin crossed PROVE Fresh(r, cookie, stored, counter)
    BY <1>7
  <2>1. /\ tabs[t].challenge \in Issuable
        /\ cookie[Kind(tabs[t].page)] = tabs[t].challenge
        /\ tabs[t].list \subseteq stored
    BY <1>1 DEF GInv, FreshInv, Fresh
  <2>2. QED  BY <1>1, <1>3, <1>5, <2>1 DEF Fresh
<1>9. tabs'[t] = r /\ \A u \in Tabs \ {t} : tabs'[u] = tabs[u]
  BY <1>6 DEF GInv, IInv, TabsInv
<1>10. Unnoticed(t)
  BY <1>7 DEF Unnoticed
<1>11. \A u \in Tabs \ crossed' : Fresh(tabs'[u], cookie', stored', counter')
  BY <1>8, <1>9, <1>10, OthersFresh
<1>12. Plain'
  BY <1>5, <1>9 DEF GInv, FreshInv, Plain, Step
<1>13. QED  BY <1>4, <1>11, <1>12 DEF FreshInv

LEMMA AttestFresh ==
  ASSUME GInv, NEW t \in Tabs, NEW c \in Credentials, Attest(t, c)
  PROVE  FreshInv'
<1> DEFINE r == [Going(t, "sent") EXCEPT !.list = {}, !.credential = c,
                                         !.sent = Sent]
<1>1. /\ tabs[t] \in Tab /\ tabs[t].step = "prompt" /\ tabs[t].page # "login"
      /\ tabs[t].answer = "none" /\ c \notin stored
  BY DEF Attest, GInv, IInv, TabsInv, KeysInv, FreshInv, Plain, Good, Step
<1>2. /\ r.step = "sent" /\ r.answer = "none" /\ r.page = tabs[t].page
      /\ r.challenge = tabs[t].challenge /\ r.credential = c
      /\ r.sent.cookie = cookie
  BY <1>1 DEF Going, Tab, Sent
<1>3. tabs' = [tabs EXCEPT ![t] = r]
  BY DEF Attest
<1>4. UNCHANGED <<cookie, stored, counter, crossed, signed>>
  BY DEF Attest, rows
<1> HIDE DEF r
<1>5. t \notin crossed' => Fresh(r, cookie', stored', counter')
  <2> SUFFICES ASSUME t \notin crossed PROVE Fresh(r, cookie, stored, counter)
    BY <1>4
  <2>1. /\ tabs[t].challenge \in Issuable
        /\ cookie[Kind(tabs[t].page)] = tabs[t].challenge
    BY <1>1 DEF GInv, FreshInv, Fresh
  <2>2. QED  BY <1>1, <1>2, <2>1 DEF Fresh
<1>6. Unnoticed(t)
  BY <1>4 DEF Unnoticed
<1>7. QED  BY <1>2, <1>3, <1>4, <1>5, <1>6, OwnFresh

\* The server reads of an uncrossed ceremony the challenge it issued last.
LEMMA OptionsWait ==
  ASSUME GInv, NEW t \in Tabs \ crossed, Step(t) \in {"sent", "loaded"}
  PROVE  Options(t) # None /\ ClientData(t) = Options(t)
<1>1. /\ tabs[t].challenge \in Issuable
      /\ tabs[t].sent.cookie[Kind(tabs[t].page)] = tabs[t].challenge
  BY DEF GInv, FreshInv, Fresh, Step
<1>2. ClientData(t) = tabs[t].challenge
  BY <1>1, ConversionsFaithful DEF ClientData, Faithful
<1>3. None \notin Issuable
  BY ChallengeAssumption
<1>4. QED  BY <1>1, <1>2, <1>3 DEF Options

LEMMA ServerFresh ==
  ASSUME GInv, NEW t \in Tabs,
         \/ TurnedAway(t) \/ SessionExpired(t) \/ LoadPasskey(t)
         \/ AssertionFails(t) \/ VerifyAttestation(t) \/ CountPasskeys(t)
         \/ ServerFails(t)
  PROVE  FreshInv'
<1>1. ServerUnchanged
  BY DEF TurnedAway, SessionExpired, LoadPasskey, AssertionFails,
         VerifyAttestation, CountPasskeys, ServerFails
<1>2. /\ UNCHANGED <<cookie, stored, counter, crossed, signed>> /\ Unnoticed(t)
      /\ Step(t) \in {"sent", "loaded", "verified", "counted"} /\ tabs[t] \in Tab
      /\ tabs[t].answer = "none"
  BY <1>1 DEF ServerUnchanged, rows, authenticators, Unnoticed, TurnedAway,
       SessionExpired, LoadPasskey, AssertionFails, VerifyAttestation, CountPasskeys,
       ServerFails, Accepting, GInv, IInv, TabsInv, Good, FreshInv, Plain
<1>3. /\ RawId(t) = tabs[t].credential /\ RawId(t) \in Credentials
      /\ Step(t) \in {"sent", "loaded"} /\ t \notin crossed =>
           Options(t) # None /\ ClientData(t) = Options(t)
  BY <1>2, RawIdRead, ConversionsFaithful, OptionsWait DEF GInv
<1>4. ASSUME NEW kind, Answers(t, kind),
             t \notin crossed => kind \notin {"unreadable", "refused", "expired"}
      PROVE  FreshInv'
  BY <1>2, <1>4, AnswerFresh
<1>5. ASSUME NEW step \in {"verified", "counted"},
             tabs' = [tabs EXCEPT ![t] = Going(t, step)]
      PROVE  FreshInv'
  <2> DEFINE r == Going(t, step)
  <2>1. r.step = step /\ r.answer = "none"
    BY <1>2 DEF Going, Tab
  <2>2. tabs' = [tabs EXCEPT ![t] = r]
    BY <1>5
  <2> HIDE DEF r
  <2>3. Fresh(r, cookie', stored', counter')
    BY <2>1 DEF Fresh
  <2>4. QED  BY <1>2, <2>1, <2>2, <2>3, OwnFresh
<1>6. CASE LoadPasskey(t)
  <2>1. Step(t) = "sent" /\ tabs[t].page = "login"
    BY <1>6 DEF LoadPasskey, Accepting
  <2>2. t \notin crossed =>
           /\ tabs[t].credential \in stored
           /\ tabs[t].count = 0 \/ tabs[t].count > counter[tabs[t].credential]
           /\ tabs[t].challenge \in Issuable
           /\ tabs[t].sent.cookie[Kind(tabs[t].page)] = tabs[t].challenge
    BY <2>1 DEF GInv, FreshInv, Fresh, Step
  <2>3. CASE RawId(t) \in stored
    <3> DEFINE r == [Going(t, "loaded") EXCEPT !.loaded = counter[RawId(t)]]
    <3>1. /\ r.step = "loaded" /\ r.answer = "none" /\ r.page = tabs[t].page
          /\ r.challenge = tabs[t].challenge /\ r.sent = tabs[t].sent
          /\ r.count = tabs[t].count /\ r.loaded = counter[tabs[t].credential]
      BY <1>2, <1>3 DEF Going, Tab
    <3>2. tabs' = [tabs EXCEPT ![t] = r]
      BY <1>6, <2>3 DEF LoadPasskey
    <3> HIDE DEF r
    <3>3. t \notin crossed' => Fresh(r, cookie', stored', counter')
      BY <1>2, <2>2, <3>1 DEF Fresh
    <3>4. QED  BY <1>2, <3>1, <3>2, <3>3, OwnFresh
  <2>4. CASE RawId(t) \notin stored
    BY <1>3, <1>4, <1>6, <2>2, <2>4 DEF LoadPasskey
  <2>5. QED  BY <2>3, <2>4
<1>7. CASE AssertionFails(t)
  <2>1. Step(t) = "loaded" /\ ~Verified(t) /\ Answers(t, "refused")
    BY <1>7 DEF AssertionFails
  <2>2. t \notin crossed => CounterMoved(t)
    BY <2>1 DEF CounterMoved, GInv, FreshInv, Fresh, Step
  <2>3. t \in crossed
    BY <1>3, <2>1, <2>2 DEF Verified
  <2>4. QED  BY <1>4, <2>1, <2>3
<1>8. CASE VerifyAttestation(t)
  <2>1. Step(t) = "sent" /\ tabs[t].page # "login"
    BY <1>8 DEF VerifyAttestation, Accepting
  <2>2. t \notin crossed => tabs[t].credential \notin stored
    BY <2>1 DEF GInv, FreshInv, Fresh, Step
  <2>3. CASE ClientData(t) = Options(t) /\ RawId(t) \notin stored
    BY <1>5, <1>8, <2>3 DEF VerifyAttestation
  <2>4. CASE ~(ClientData(t) = Options(t) /\ RawId(t) \notin stored)
    BY <1>3, <1>4, <1>8, <2>1, <2>2, <2>4 DEF VerifyAttestation
  <2>5. QED  BY <2>3, <2>4
<1>9. CASE SessionExpired(t)
  BY <1>3, <1>4, <1>9 DEF SessionExpired
<1>10. CASE TurnedAway(t)
  BY <1>4, <1>10 DEF TurnedAway
<1>11. CASE CountPasskeys(t)
  BY <1>4, <1>5, <1>11 DEF CountPasskeys
<1>12. CASE ServerFails(t)
  BY <1>4, <1>12 DEF ServerFails
<1>13. QED  BY <1>6, <1>7, <1>8, <1>9, <1>10, <1>11, <1>12

LEMMA EndFresh ==
  ASSUME GInv, NEW t \in Tabs,
         \/ OptionsRefused(t) \/ PromptRejected(t) \/ ResponseLost(t)
         \/ Refused(t) \/ Succeeds(t)
         \/ Shown(t) \/ \E page \in Pages : Open(t, page)
  PROVE  FreshInv'
<1>1. UNCHANGED <<stored, counter, signed>>
  BY DEF OptionsRefused, PromptRejected, ResponseLost, Refused, Succeeds, Open,
         Shown, Arrives, rows, authenticators
<1>2. Unnoticed(t)
  BY <1>1 DEF OptionsRefused, PromptRejected, ResponseLost, Refused, Succeeds,
       Open, Shown, Crosses, Arrives, Ends, CrossesAndEnds, Unnoticed
<1>3. \E r : /\ tabs' = [tabs EXCEPT ![t] = r]
             /\ r.step \in {"idle", "loading"} /\ r.answer = "none"
  <2>1. ASSUME NEW page
        PROVE  LET p == Loaded(page)
                   q == [p EXCEPT !.told = TRUE]
                   l == [p EXCEPT !.leaving = TRUE]
               IN  /\ p.step = "idle" /\ p.answer = "none"
                   /\ q.step = "idle" /\ q.answer = "none"
                   /\ l.step = "idle" /\ l.answer = "none"
    BY DEF Loaded
  <2>2. CASE Fails(t)
    BY <2>1, <2>2 DEF Fails, ShowError
  <2>3. CASE Succeeds(t)
    BY <2>1, <2>3 DEF Succeeds
  <2>4. CASE Shown(t) \/ \E page \in Pages : Open(t, page)
    BY <2>4, PageShown
  <2>5. QED
    BY <2>1, <2>2, <2>3, <2>4 DEF OptionsRefused, PromptRejected, ResponseLost, Refused
<1>4. QED  BY <1>1, <1>2, <1>3, PageFresh

LEMMA AroundFresh ==
  ASSUME GInv,
         \/ SignInAgain \/ RemoveAllPasskeys \/ \E c \in Credentials : RemovePasskey(c)
         \/ UNCHANGED vars
  PROVE  FreshInv'
<1>1. tabs' = tabs /\ signed' = signed
  BY DEF SignInAgain, RemoveAllPasskeys, RemovePasskey, vars, authenticators
<1>2. \/ UNCHANGED <<cookie, stored, counter, crossed>>
      \/ {u \in Tabs : Busy(u)} \subseteq crossed'
  BY DEF SignInAgain, RemoveAllPasskeys, RemovePasskey, vars, Crosses
<1>3. ASSUME NEW u \in Tabs, u \notin crossed'
      PROVE  Fresh(tabs'[u], cookie', stored', counter')
  <2>1. CASE UNCHANGED <<cookie, stored, counter, crossed>>
    BY <1>1, <1>3, <2>1 DEF GInv, FreshInv
  <2>2. CASE {v \in Tabs : Busy(v)} \subseteq crossed'
    <3>1. tabs'[u].step \in {"idle", "loading"} /\ tabs'[u].answer = "none"
      BY <1>1, <1>3, <2>2 DEF Busy, Step, GInv, FreshInv, Plain
    <3>2. QED  BY <3>1, IdleFresh
  <2>3. QED  BY <1>2, <2>1, <2>2
<1>4. QED  BY <1>1, <1>3 DEF GInv, FreshInv, Plain, Step

LEMMA StepFresh == GInv /\ [Next]_vars => FreshInv'
<1> SUFFICES ASSUME GInv, [Next]_vars PROVE FreshInv'
  OBVIOUS
<1>1. ASSUME NEW t \in Tabs, CompleteAssertion(t) \/ AddPasskey(t) PROVE FreshInv'
  <2> DEFINE q == [Going(t, "verified") EXCEPT !.again = TRUE]
  <2>1. /\ Crosses({t}) /\ signed' = signed
        /\ \/ Answers(t, "accepted")
           \/ tabs' = [tabs EXCEPT ![t] = q] /\ Step(t) = "counted"
    BY <1>1 DEF CompleteAssertion, AddPasskey, authenticators
  <2>2. Unnoticed(t)
    BY <2>1 DEF Unnoticed, Crosses
  <2>3. CASE Answers(t, "accepted")
    BY <2>1, <2>2, <2>3, AnswerFresh
  <2>4. CASE tabs' = [tabs EXCEPT ![t] = q] /\ Step(t) = "counted"
    <3>1. tabs[t] \in Tab /\ tabs[t].answer = "none"
      BY <2>4 DEF GInv, IInv, TabsInv, Good, FreshInv, Plain
    <3>2. q.step = "verified" /\ q.answer = "none"
      BY <3>1 DEF Going, Tab
    <3> HIDE DEF q
    <3>3. Fresh(q, cookie', stored', counter')
      BY <3>2 DEF Fresh
    <3>4. QED  BY <2>1, <2>2, <2>4, <3>2, <3>3, OwnFresh
  <2>5. QED  BY <2>1, <2>3, <2>4
<1>2. ASSUME NEW t \in Tabs, Moves(t) PROVE FreshInv'
  BY <1>1, <1>2, ClickFresh, OptionsAnsweredFresh, AssertFresh, AttestFresh,
     ServerFresh, EndFresh DEF Moves
<1>3. ASSUME NEW t \in Tabs, CountPasskeys(t) \/ AddPasskey(t) PROVE FreshInv'
  BY <1>1, <1>3, ServerFresh
<1>4. QED  BY <1>2, <1>3, AroundFresh, NextCases

LEMMA InitFresh == Init => FreshInv
<1> SUFFICES ASSUME Init PROVE FreshInv
  OBVIOUS
<1>1. \A t \in Tabs : \E page \in Pages : tabs[t] = Loaded(page)
  BY DEF Init
<1>2. \A t \in Tabs : tabs[t].step = "idle" /\ tabs[t].answer = "none"
  <2>1. \A page : Loaded(page).step = "idle" /\ Loaded(page).answer = "none"
    BY DEF Loaded
  <2>2. QED  BY <1>1, <2>1
<1>3. \A t \in Tabs : Fresh(tabs[t], cookie, stored, counter)
  BY <1>2, IdleFresh
<1>4. \A c \in Credentials : signed[c] = 0
  BY DEF Init
<1>5. QED  BY <1>2, <1>3, <1>4 DEF FreshInv, Plain

(* A genuine ceremony that nothing else crosses is not refused, for any    *)
(* number of tabs, any ids and challenges and any order of the steps: what *)
(* the server reads is what it issued and stored, the options still wait,  *)
(* and the counter has moved.                                              *)
THEOREM GenuineCeremonies == Spec => []GenuineAccepted
<1>1. Init => GInv
  BY InitInv, InitFresh DEF GInv
<1>2. GInv /\ [Next]_vars => GInv'
  BY StepInv, StepFresh DEF GInv
<1>3. GInv => GenuineAccepted
  BY DEF GInv, FreshInv, Fresh, GenuineAccepted
<1>4. QED  BY <1>1, <1>2, <1>3, PTL DEF Spec
=============================================================================
