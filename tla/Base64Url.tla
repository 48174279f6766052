----------------------------- MODULE Base64Url -----------------------------
(***************************************************************************)
(* The conversions between bytes and text that passkey.js makes on each    *)
(* side of a ceremony, and those of the server it has to agree with.  A    *)
(* character is its index in the base64 alphabet (62 and 63 are + and /);  *)
(* the two characters of the URL alphabet and the padding come after it.   *)
(***************************************************************************)
EXTENDS Integers, Sequences

Byte == 0..255

Minus == 64
Underscore == 65
Pad == 66

\* What a conversion that throws returns.
Broken == <<-1>>

-----------------------------------------------------------------------------
(* Three bytes are four sextets; both are cut from a number of 24 bits.    *)

At(s, i) == IF i \in DOMAIN s THEN s[i] ELSE 0

Sextets(bytes) ==
    [k \in 1..((4 * Len(bytes) + 2) \div 3) |->
        LET g == 3 * ((k - 1) \div 4)
            n == 65536 * At(bytes, g + 1) + 256 * At(bytes, g + 2)
                 + At(bytes, g + 3)
        IN  (n \div <<262144, 4096, 64, 1>>[((k - 1) % 4) + 1]) % 64]

Octets(sextets) ==
    [k \in 1..((3 * Len(sextets)) \div 4) |->
        LET g == 4 * ((k - 1) \div 3)
            n == 262144 * At(sextets, g + 1) + 4096 * At(sextets, g + 2)
                 + 64 * At(sextets, g + 3) + At(sextets, g + 4)
        IN  (n \div <<65536, 256, 1>>[((k - 1) % 3) + 1]) % 256]

ToUrl(c) == CASE c = 62 -> Minus [] c = 63 -> Underscore [] OTHER -> c

FromUrl(c) == CASE c = Minus -> 62 [] c = Underscore -> 63 [] OTHER -> c

Mapped(Op(_), s) == [i \in DOMAIN s |-> Op(s[i])]

Padding(n) == [i \in 1..n |-> Pad]

\* Without the padding at its end.
Unpadded(s) ==
    SubSeq(s, 1, CHOOSE n \in 0..Len(s) : /\ n > 0 => s[n] # Pad
                                          /\ \A i \in n + 1..Len(s) : s[i] = Pad)

-----------------------------------------------------------------------------
(* The browser's btoa and atob; atob takes text without its padding, too,  *)
(* but not with the wrong one.                                             *)

Btoa(bytes) ==
    LET s == Sextets(bytes) IN s \o Padding((4 - (Len(s) % 4)) % 4)

Atob(text) ==
    LET s == Unpadded(text)
        pads == Len(text) - Len(s)
    IN  IF \/ \E i \in DOMAIN s : s[i] \notin 0..63
           \/ Len(s) % 4 = 1
           \/ pads > 2 \/ (pads > 0 /\ Len(text) % 4 # 0)
        THEN Broken ELSE Octets(s)

(* The server's Base64Url class.                                           *)

EncodeToString(bytes) == Mapped(ToUrl, Sextets(bytes))

DecodeFromChars(text) ==
    IF \/ \E i \in DOMAIN text : text[i] \in {62, 63, Pad}
       \/ Len(text) % 4 = 1
    THEN Broken ELSE Octets(Mapped(FromUrl, text))

-----------------------------------------------------------------------------
(* passkey.js.                                                             *)

(* Mutant: a text that needs no padding gets four characters of it.        *)
Base64UrlToBufferPadded(value) ==
    LET base64 == Mapped(FromUrl, value)
    IN  Atob(base64 \o Padding(4 - (Len(base64) % 4)))

Base64UrlToBuffer(value) ==
    LET base64 == Mapped(FromUrl, value)
    IN  Atob(base64 \o Padding((4 - (Len(base64) % 4)) % 4))

(* Mutant: the characters of the URL alphabet are not put in.              *)
BufferToBase64(buffer) == Unpadded(Btoa(buffer))

BufferToBase64Url(buffer) == Unpadded(Mapped(ToUrl, Btoa(buffer)))
=============================================================================
