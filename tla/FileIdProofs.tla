---------------------------- MODULE FileIdProofs ----------------------------
(***************************************************************************)
(* Proofs about FileId for every base and every width of key and cookie:    *)
(* the code's are 16, 8 and 4.                                              *)
(***************************************************************************)
EXTENDS FileId, SequenceTheorems, WellFoundedInduction, TLAPS

Width == KeyDigits + CookieDigits

LEMMA Widths ==
  /\ KeyBytes \in Nat /\ KeyBytes > 0 /\ CookieBytes \in Nat /\ CookieBytes > 0
  /\ KeyDigits = 2 * KeyBytes /\ CookieDigits = 2 * CookieBytes
  /\ Bytes = KeyBytes + CookieBytes /\ Width = 2 * Bytes
  /\ Bytes \in Nat /\ Bytes > 0
  /\ KeyDigits \in Nat /\ CookieDigits \in Nat /\ Width \in Nat
  /\ Width = KeyDigits + CookieDigits
  /\ 0 \in Digits
  BY KeyBytesAssumption, CookieBytesAssumption, BaseAssumption
  DEF KeyDigits, CookieDigits, Bytes, Width, Digits

LEMMA BufferDigits ==
  ASSUME NEW f \in FileIds
  PROVE  /\ Buffer(f) \in Seq(Digits)
         /\ Len(Buffer(f)) = Width
         /\ \A i \in 1 .. KeyDigits : Buffer(f)[i] = f.key[i]
         /\ \A i \in 1 .. CookieDigits : Buffer(f)[KeyDigits + i] = f.cookie[i]
<1> DEFINE buf == Buffer(f)
<1>1. \A i \in 1 .. Width :
        buf[i] = IF i <= KeyDigits THEN f.key[i] ELSE f.cookie[i - KeyDigits]
  BY DEF Buffer, Width
<1>2. \A i \in 1 .. Width : buf[i] \in Digits
  <2>1. \A i \in 1 .. Width : i > KeyDigits => i - KeyDigits \in 1 .. CookieDigits
    BY Widths
  <2>2. \A i \in 1 .. Width : i <= KeyDigits => i \in 1 .. KeyDigits
    BY Widths
  <2> QED
    BY <1>1, <2>1, <2>2, Widths DEF FileIds
<1>3. buf \in [1 .. Width -> Digits]
  BY <1>2 DEF Buffer, Width
<1>4. buf \in Seq(Digits) /\ Len(buf) = Width
  BY <1>3, Widths
<1>5. \A i \in 1 .. KeyDigits : buf[i] = f.key[i]
  BY <1>1, Widths
<1>6. \A i \in 1 .. CookieDigits : buf[KeyDigits + i] = f.cookie[i]
  <2> SUFFICES ASSUME NEW i \in 1 .. CookieDigits
               PROVE  buf[KeyDigits + i] = f.cookie[i]
    OBVIOUS
  <2>1. /\ KeyDigits + i \in 1 .. Width
        /\ ~(KeyDigits + i <= KeyDigits)
        /\ (KeyDigits + i) - KeyDigits = i
    BY Widths
  <2> QED
    BY <1>1, <2>1
<1> QED
  BY <1>4, <1>5, <1>6

\* The loop that skips leading zero bytes stops at one well-defined byte.
LEMMA SkipExists ==
  ASSUME NEW buf
  PROVE  IsSkip(buf, Skip(buf))
<1> DEFINE Stop == {n \in 0 .. Bytes - 1 :
                      n < Bytes - 1 => buf[2 * n + 1] # 0 \/ buf[2 * n + 2] # 0}
<1>1. Stop \subseteq Nat /\ Bytes - 1 \in Stop
  BY Widths
<1>2. PICK n \in Stop : \A m \in Stop : ~(<<m, n>> \in OpToRel(<, Nat))
  BY <1>1, NatLessThanWellFounded, WFMin
<1>3. n \in 0 .. Bytes - 1
  OBVIOUS
<1>4. ASSUME NEW m \in 0 .. Bytes - 1, m < n
      PROVE  buf[2 * m + 1] = 0 /\ buf[2 * m + 2] = 0
  <2>1. m \notin Stop
    BY <1>1, <1>2, <1>3, <1>4, Widths DEF OpToRel
  <2> QED
    BY <1>3, <1>4, <2>1, Widths
<1>5. ASSUME NEW i \in 1 .. 2 * n
      PROVE  buf[i] = 0
  <2>1. PICK m \in 0 .. Bytes - 1 : m < n /\ (i = 2 * m + 1 \/ i = 2 * m + 2)
    <3>1. CASE i % 2 = 1
      <4>1. /\ (i - 1) \div 2 \in 0 .. Bytes - 1
            /\ (i - 1) \div 2 < n
            /\ i = 2 * ((i - 1) \div 2) + 1
        BY <1>3, <1>5, <3>1, Widths
      <4> QED
        BY <4>1
    <3>2. CASE i % 2 = 0
      <4>1. /\ (i - 2) \div 2 \in 0 .. Bytes - 1
            /\ (i - 2) \div 2 < n
            /\ i = 2 * ((i - 2) \div 2) + 2
        BY <1>3, <1>5, <3>2, Widths
      <4> QED
        BY <4>1
    <3> QED
      BY <1>3, <1>5, <3>1, <3>2, Widths
  <2> QED
    BY <1>4, <2>1
<1>6. IsSkip(buf, n)
  BY <1>3, <1>5 DEF IsSkip
<1> QED
  BY <1>3, <1>6 DEF Skip

\* ... and at no other.
LEMMA SkipUnique ==
  ASSUME NEW buf, NEW n, IsSkip(buf, n)
  PROVE  n = Skip(buf)
<1> DEFINE s == Skip(buf)
<1>1. IsSkip(buf, s)
  BY SkipExists
<1> HIDE DEF s
<1>2. /\ n \in 0 .. Bytes - 1 /\ s \in 0 .. Bytes - 1
      /\ \A i \in 1 .. 2 * n : buf[i] = 0
      /\ \A i \in 1 .. 2 * s : buf[i] = 0
      /\ n < Bytes - 1 => buf[2 * n + 1] # 0 \/ buf[2 * n + 2] # 0
      /\ s < Bytes - 1 => buf[2 * s + 1] # 0 \/ buf[2 * s + 2] # 0
  BY <1>1 DEF IsSkip
<1>3. ~(n < s)
  <2> SUFFICES ASSUME n < s PROVE FALSE
    OBVIOUS
  <2>1. 2 * n + 1 \in 1 .. 2 * s /\ 2 * n + 2 \in 1 .. 2 * s /\ n < Bytes - 1
    BY <1>2, Widths
  <2> QED
    BY <1>2, <2>1
<1>4. ~(s < n)
  <2> SUFFICES ASSUME s < n PROVE FALSE
    OBVIOUS
  <2>1. 2 * s + 1 \in 1 .. 2 * n /\ 2 * s + 2 \in 1 .. 2 * n /\ s < Bytes - 1
    BY <1>2, Widths
  <2> QED
    BY <1>2, <2>1
<1> QED
  BY <1>2, <1>3, <1>4, Widths DEF s

-----------------------------------------------------------------------------
(* What rendering keeps.                                                    *)

LEMMA RenderDigits ==
  ASSUME NEW f \in FileIds
  PROVE  LET buf == Buffer(f)
             s == Skip(buf)
             hex == Render(f).hex
         IN  /\ s \in 0 .. Bytes - 1
             /\ \A i \in 1 .. 2 * s : buf[i] = 0
             /\ s < Bytes - 1 => buf[2 * s + 1] # 0 \/ buf[2 * s + 2] # 0
             /\ hex \in Seq(Digits)
             /\ Len(hex) = Width - 2 * s
             /\ \A i \in 1 .. Width - 2 * s : hex[i] = buf[2 * s + i]
<1> DEFINE buf == Buffer(f)
           s == Skip(buf)
           hex == Render(f).hex
<1>1. /\ s \in 0 .. Bytes - 1
      /\ \A i \in 1 .. 2 * s : buf[i] = 0
      /\ s < Bytes - 1 => buf[2 * s + 1] # 0 \/ buf[2 * s + 2] # 0
  BY SkipExists DEF IsSkip
<1>2. buf \in Seq(Digits) /\ Len(buf) = Width
  BY BufferDigits
<1>3. hex = SubSeq(buf, 2 * s + 1, Width)
  BY <1>2 DEF Render
<1> HIDE DEF buf, s, hex
<1>4. 2 * s + 1 \in Int /\ Width \in Int /\ 2 * s + 1 <= Width
  BY <1>1, Widths
<1>5. \A i \in 2 * s + 1 .. Width : buf[i] \in Digits
  BY <1>1, <1>2, Widths
<1>6. /\ hex \in Seq(Digits)
      /\ Len(hex) = Width - (2 * s + 1) + 1
      /\ \A i \in 1 .. Width - (2 * s + 1) + 1 : hex[i] = buf[(2 * s + 1) + i - 1]
  BY <1>3, <1>4, <1>5, SubSeqProperties
<1>7. /\ Len(hex) = Width - 2 * s
      /\ \A i \in 1 .. Width - 2 * s : hex[i] = buf[2 * s + i]
  <2>1. Width - (2 * s + 1) + 1 = Width - 2 * s
    BY <1>1, Widths
  <2>2. \A i \in 1 .. Width - 2 * s : (2 * s + 1) + i - 1 = 2 * s + i
    BY <1>1, Widths
  <2> QED
    BY <1>6, <2>1, <2>2
<1> QED
  BY <1>1, <1>6, <1>7 DEF buf, s, hex

\* With a non-zero key at least one key byte is kept; without one none is.
LEMMA KeyKept ==
  ASSUME NEW f \in FileIds
  PROVE  HasKey(f) <=> Skip(Buffer(f)) < KeyBytes
<1> DEFINE buf == Buffer(f)
           s == Skip(buf)
<1>1. /\ s \in 0 .. Bytes - 1
      /\ \A i \in 1 .. 2 * s : buf[i] = 0
      /\ s < Bytes - 1 => buf[2 * s + 1] # 0 \/ buf[2 * s + 2] # 0
  BY RenderDigits
<1>2. \A i \in 1 .. KeyDigits : buf[i] = f.key[i]
  BY BufferDigits
<1> HIDE DEF buf, s
<1>3. ASSUME HasKey(f) PROVE s < KeyBytes
  <2>1. PICK i \in 1 .. KeyDigits : f.key[i] # 0
    BY <1>3 DEF HasKey
  <2>2. ~(i \in 1 .. 2 * s)
    BY <1>1, <1>2, <2>1
  <2> QED
    BY <1>1, <2>1, <2>2, Widths
<1>4. ASSUME s < KeyBytes PROVE HasKey(f)
  <2>1. 2 * s + 1 \in 1 .. KeyDigits /\ 2 * s + 2 \in 1 .. KeyDigits
    BY <1>1, <1>4, Widths
  <2>2. s < Bytes - 1
    BY <1>1, <1>4, Widths
  <2> QED
    BY <1>1, <1>2, <2>1, <2>2 DEF HasKey
<1> QED
  BY <1>3, <1>4 DEF buf, s

\* parse accepts what render made of an id exactly when the id has a needle key
\* (entities.rs:80, fileid.go:53, FileId.java:65).
THEOREM RenderedIsAccepted ==
  ASSUME NEW f \in FileIds
  PROVE  Accepts(Render(f)) <=> HasKey(f)
<1> DEFINE s == Skip(Buffer(f))
           hex == Render(f).hex
<1>1. /\ s \in 0 .. Bytes - 1
      /\ hex \in Seq(Digits) /\ Len(hex) = Width - 2 * s
  BY RenderDigits
<1>2. Render(f).volume \in 0 .. MaxVolume
  BY DEF Render, FileIds
<1>3. HasKey(f) <=> s < KeyBytes
  BY KeyKept
<1> HIDE DEF s, hex
<1>4. s < KeyBytes <=> Len(hex) > CookieDigits
  BY <1>1, Widths
<1>5. Len(hex) <= KeyDigits + CookieDigits
  BY <1>1, Widths
<1>6. \A i \in 1 .. Len(hex) : hex[i] \in Digits
  BY <1>1
<1> QED
  BY <1>2, <1>3, <1>4, <1>5, <1>6 DEF Accepts, hex

\* ... and then reads the very id that was rendered: no bit of the key or the
\* cookie is lost, whatever their widths.
THEOREM RoundTrip ==
  ASSUME NEW f \in FileIds, HasKey(f)
  PROVE  IdOf(Render(f)) = f
<1> DEFINE buf == Buffer(f)
           s == Skip(buf)
           hex == Render(f).hex
           split == Len(hex) - CookieDigits
<1>1. /\ s \in 0 .. Bytes - 1
      /\ \A i \in 1 .. 2 * s : buf[i] = 0
      /\ Len(hex) = Width - 2 * s
      /\ \A i \in 1 .. Width - 2 * s : hex[i] = buf[2 * s + i]
  BY RenderDigits
<1>2. s < KeyBytes
  BY KeyKept
<1>3. /\ \A i \in 1 .. KeyDigits : buf[i] = f.key[i]
      /\ \A i \in 1 .. CookieDigits : buf[KeyDigits + i] = f.cookie[i]
  BY BufferDigits
<1> DEFINE key == [i \in 1 .. KeyDigits |->
                     IF i <= KeyDigits - split THEN 0
                     ELSE hex[i - (KeyDigits - split)]]
           cookie == [i \in 1 .. CookieDigits |-> hex[split + i]]
<1>4. IdOf(Render(f)) = [volume |-> f.volume, key |-> key, cookie |-> cookie]
  BY DEF IdOf, Render
<1> HIDE DEF buf, s, hex
<1>5. split = KeyDigits - 2 * s /\ KeyDigits - split = 2 * s
  BY <1>1, Widths
<1>6. key = f.key
  <2>1. \A i \in 1 .. KeyDigits : key[i] = f.key[i]
    <3> SUFFICES ASSUME NEW i \in 1 .. KeyDigits PROVE key[i] = f.key[i]
      OBVIOUS
    <3>1. CASE i <= 2 * s
      <4>1. key[i] = 0
        BY <1>5, <3>1
      <4>2. i \in 1 .. 2 * s
        BY <1>1, <3>1, Widths
      <4> QED
        BY <1>1, <1>3, <4>1, <4>2
    <3>2. CASE ~(i <= 2 * s)
      <4>1. key[i] = hex[i - 2 * s]
        BY <1>5, <3>2
      <4>2. i - 2 * s \in 1 .. Width - 2 * s /\ 2 * s + (i - 2 * s) = i
        BY <1>1, <3>2, Widths
      <4> QED
        BY <1>1, <1>3, <4>1, <4>2
    <3> QED
      BY <3>1, <3>2
  <2> QED
    BY <2>1 DEF FileIds
<1>7. cookie = f.cookie
  <2>1. \A i \in 1 .. CookieDigits : cookie[i] = f.cookie[i]
    <3> SUFFICES ASSUME NEW i \in 1 .. CookieDigits PROVE cookie[i] = f.cookie[i]
      OBVIOUS
    <3>1. cookie[i] = hex[split + i]
      OBVIOUS
    <3>2. split + i \in 1 .. Width - 2 * s /\ 2 * s + (split + i) = KeyDigits + i
      BY <1>1, <1>2, <1>5, Widths
    <3> QED
      BY <1>1, <1>3, <3>1, <3>2
  <2> QED
    BY <2>1 DEF FileIds
<1> HIDE DEF key, cookie
<1> QED
  BY <1>4, <1>6, <1>7 DEF FileIds

\* A text that parses gives an id whose key and cookie are in range.
LEMMA ParsedType ==
  ASSUME NEW t, Accepts(t), Len(t.hex) \in Nat
  PROVE  IdOf(t) \in FileIds
<1> DEFINE len == Len(t.hex)
           split == len - CookieDigits
<1>1. /\ t.volume \in 0 .. MaxVolume
      /\ len \in Nat /\ len > CookieDigits /\ len <= KeyDigits + CookieDigits
      /\ \A i \in 1 .. len : t.hex[i] \in Digits
  BY DEF Accepts
<1> HIDE DEF len
<1>2. ASSUME NEW i \in 1 .. KeyDigits, ~(i <= KeyDigits - split)
      PROVE  t.hex[i - (KeyDigits - split)] \in Digits
  <2>1. i - (KeyDigits - split) \in 1 .. len
    BY <1>1, <1>2, Widths
  <2> QED
    BY <1>1, <2>1
<1>3. ASSUME NEW i \in 1 .. CookieDigits
      PROVE  t.hex[split + i] \in Digits
  <2>1. split + i \in 1 .. len
    BY <1>1, Widths
  <2> QED
    BY <1>1, <2>1
<1> QED
  BY <1>1, <1>2, <1>3, Widths DEF IdOf, FileIds, len

LEMMA TextLength ==
  ASSUME NEW t \in Texts
  PROVE  Len(t.hex) \in Nat
<1>1. PICK n \in 0 .. KeyDigits + CookieDigits + 1 : t.hex \in [1 .. n -> Symbols]
  BY DEF Texts
<1>2. n \in Nat
  BY Widths
<1>3. t.hex \in Seq(Symbols)
  BY <1>1, <1>2
<1> QED
  BY <1>3

-----------------------------------------------------------------------------
(* The life of a stored id.                                                 *)

Identity == Accepts(received) /\ HasKey(IdOf(received))

IdentityKept ==
  /\ received \in Texts
  /\ Identity =>
       /\ Accepts(text) /\ IdOf(text) = IdOf(received)
       /\ stage \in {"text", "parsed"}
       /\ stage = "parsed" => fid = IdOf(received)

LEMMA IdentityStep == IdentityKept /\ [Next]_vars => IdentityKept'
<1> SUFFICES ASSUME IdentityKept, [Next]_vars PROVE IdentityKept'
  OBVIOUS
<1>1. CASE Parse
  BY <1>1 DEF Parse, IdentityKept, Identity
<1>2. CASE Store
  <2>1. received' = received /\ stage = "parsed" /\ stage' = "text"
        /\ text' = Render(fid)
    BY <1>2 DEF Store
  <2>2. CASE ~Identity
    BY <2>1, <2>2 DEF IdentityKept, Identity
  <2>3. CASE Identity
    <3>1. fid = IdOf(received) /\ HasKey(IdOf(received))
      BY <2>1, <2>3 DEF IdentityKept, Identity
    <3>2. fid \in FileIds
      BY <2>3, <3>1, ParsedType, TextLength DEF Identity, IdentityKept
    <3>3. Accepts(text') /\ IdOf(text') = fid
      BY <2>1, <3>1, <3>2, RenderedIsAccepted, RoundTrip
    <3> QED
      BY <2>1, <3>1, <3>3 DEF IdentityKept, Identity
  <2> QED
    BY <2>2, <2>3
<1>3. CASE UNCHANGED vars
  BY <1>3 DEF vars, IdentityKept, Identity
<1> QED
  BY <1>1, <1>2, <1>3 DEF Next

\* An id with a needle key is never rejected and never changes, however often it
\* goes through storage.
THEOREM KeyedIdSurvives == Spec => []KeyedIdSurvivesStorage
<1>1. Init => IdentityKept
  BY DEF Init, IdentityKept, Identity
<1>2. IdentityKept => KeyedIdSurvivesStorage
  BY DEF IdentityKept, Identity, KeyedIdSurvivesStorage
<1> QED
  BY <1>1, <1>2, IdentityStep, PTL DEF Spec

-----------------------------------------------------------------------------
(* The server's own form.                                                   *)

\* Whole bytes with a non-zero first one are rendered again digit for digit.
THEOREM ServerFormRoundTrip ==
  ASSUME NEW t \in Texts, ServerForm(t)
  PROVE  HasKey(IdOf(t)) /\ Render(IdOf(t)) = t
<1> DEFINE f == IdOf(t)
           len == Len(t.hex)
           n == Bytes - len \div 2
           buf == Buffer(f)
<1>1. /\ Accepts(t) /\ len \in Nat /\ f \in FileIds
      /\ t.hex \in [1 .. len -> Digits]
      /\ t = [volume |-> t.volume, hex |-> t.hex]
  <2>1. Accepts(t) /\ len \in Nat
    BY TextLength DEF ServerForm
  <2>2. f \in FileIds
    BY <2>1, ParsedType
  <2>3. PICK k \in 0 .. KeyDigits + CookieDigits + 1 : t.hex \in [1 .. k -> Symbols]
    BY DEF Texts
  <2>4. k \in Nat
    BY Widths
  <2>5. Len(t.hex) = k
    BY <2>3, <2>4
  <2>6. \A i \in 1 .. len : t.hex[i] \in Digits
    BY <2>1 DEF Accepts
  <2>7. t = [volume |-> t.volume, hex |-> t.hex]
    BY DEF Texts
  <2> QED
    BY <2>1, <2>2, <2>3, <2>5, <2>6, <2>7
<1>2. /\ len > CookieDigits /\ len <= Width /\ len % 2 = 0
      /\ t.hex[1] # 0 \/ t.hex[2] # 0
  BY Widths DEF ServerForm, Accepts
<1>3. /\ f.volume = t.volume
      /\ \A i \in 1 .. KeyDigits :
           f.key[i] = IF i <= Width - len THEN 0 ELSE t.hex[i - (Width - len)]
      /\ \A i \in 1 .. CookieDigits : f.cookie[i] = t.hex[len - CookieDigits + i]
  <2>1. KeyDigits - (len - CookieDigits) = Width - len
    BY <1>1, Widths
  <2> QED
    BY <2>1 DEF IdOf
<1>4. /\ \A i \in 1 .. KeyDigits : buf[i] = f.key[i]
      /\ \A i \in 1 .. CookieDigits : buf[KeyDigits + i] = f.cookie[i]
  BY <1>1, BufferDigits
<1> HIDE DEF f, len, buf
<1>5. /\ n \in 0 .. KeyBytes - 1 /\ 2 * n = Width - len
      /\ len \in Nat /\ KeyDigits \in Nat /\ CookieDigits \in Nat
      /\ len > CookieDigits /\ Width = KeyDigits + CookieDigits
  <2>1. len \in Nat /\ len > CookieDigits /\ len <= Width
    BY <1>1, <1>2
  <2>2. PICK h \in Nat : len = 2 * h /\ h = len \div 2
    BY <1>2, <2>1
  <2>3. n = Bytes - h
    BY <2>2
  <2> HIDE DEF n
  <2>4. h > CookieBytes /\ h <= Bytes
    BY <2>1, <2>2, Widths
  <2> QED
    BY <2>1, <2>2, <2>3, <2>4, Widths
<1> HIDE DEF n
<1>6. \A i \in 1 .. 2 * n : buf[i] = 0
  BY <1>3, <1>4, <1>5, Widths
<1>7. \A i \in 1 .. len : buf[2 * n + i] = t.hex[i]
  <2> SUFFICES ASSUME NEW i \in 1 .. len PROVE buf[2 * n + i] = t.hex[i]
    OBVIOUS
  <2>1. CASE 2 * n + i <= KeyDigits
    <3>1. /\ 2 * n + i \in 1 .. KeyDigits
          /\ ~(2 * n + i <= Width - len)
          /\ (2 * n + i) - (Width - len) = i
      BY <1>5, <2>1
    <3> QED
      BY <1>3, <1>4, <3>1
  <2>2. CASE 2 * n + i > KeyDigits
    <3> DEFINE j == 2 * n + i - KeyDigits
    <3>1. /\ j \in 1 .. CookieDigits
          /\ KeyDigits + j = 2 * n + i
          /\ len - CookieDigits + j = i
      BY <1>5, <2>2
    <3> HIDE DEF j
    <3> QED
      BY <1>3, <1>4, <3>1
  <2> QED
    BY <1>5, <2>1, <2>2
<1>8. n = Skip(buf)
  <2>1. 1 \in 1 .. len /\ 2 \in 1 .. len
    BY <1>5, Widths
  <2>2. buf[2 * n + 1] # 0 \/ buf[2 * n + 2] # 0
    BY <1>2, <1>7, <2>1
  <2>3. IsSkip(buf, n)
    BY <1>5, <1>6, <2>2, Widths DEF IsSkip
  <2> QED
    BY <2>3, SkipUnique
<1>9. HasKey(f)
  BY SMTT(30), <1>1, <1>5, <1>8, KeyKept, Widths DEF buf
<1>10. Render(f).hex = t.hex
  <2> DEFINE hex == Render(f).hex
  <2>1. /\ hex \in Seq(Digits) /\ Len(hex) = Width - 2 * n
        /\ \A i \in 1 .. Width - 2 * n : hex[i] = buf[2 * n + i]
    BY <1>1, <1>8, RenderDigits DEF buf
  <2> HIDE DEF hex
  <2>2. Width - 2 * n = len
    <3>1. n \in Nat /\ Width \in Nat /\ len \in Nat
      BY <1>5, Widths
    <3>2. 2 * n = Width - len
      BY <1>5
    <3> QED
      BY <3>1, <3>2
  <2>3. hex \in [1 .. len -> Digits]
    BY <2>1, <2>2
  <2>4. \A i \in 1 .. len : hex[i] = t.hex[i]
    BY <1>7, <2>1, <2>2
  <2> QED
    BY <1>1, <2>3, <2>4 DEF hex
<1>11. Render(f) = [volume |-> t.volume, hex |-> Render(f).hex]
  BY <1>3 DEF Render
<1> QED
  BY <1>1, <1>9, <1>10, <1>11 DEF f

ServerFormKept ==
  /\ received \in Texts
  /\ ServerForm(received) =>
       /\ text = received
       /\ stage = "parsed" => fid = IdOf(received)

\* What the server issued is stored as the text it issued, for ever.
THEOREM ServerFormSurvives == Spec => []ServerFormIsReproduced
<1>1. Init => ServerFormKept
  BY DEF Init, ServerFormKept
<1>2. ServerFormKept /\ [Next]_vars => ServerFormKept'
  <2> SUFFICES ASSUME ServerFormKept, [Next]_vars PROVE ServerFormKept'
    OBVIOUS
  <2>1. CASE Parse
    BY <2>1 DEF Parse, ServerFormKept
  <2>2. CASE Store
    <3>1. ServerForm(received) => Render(IdOf(received)) = received
      BY ServerFormRoundTrip DEF ServerFormKept
    <3> QED
      BY <2>2, <3>1 DEF Store, ServerFormKept
  <2>3. CASE UNCHANGED vars
    BY <2>3 DEF vars, ServerFormKept
  <2> QED
    BY <2>1, <2>2, <2>3 DEF Next
<1>3. ServerFormKept => ServerFormIsReproduced
  BY DEF ServerFormKept, ServerFormIsReproduced
<1> QED
  BY <1>1, <1>2, <1>3, PTL DEF Spec

-----------------------------------------------------------------------------
(* Types.                                                                   *)

\* What render makes of an id is a text.
LEMMA RenderedType ==
  ASSUME NEW f \in FileIds
  PROVE  Render(f) \in Texts
<1> DEFINE hex == Render(f).hex
           len == Len(hex)
<1>1. hex \in Seq(Digits) /\ len = Width - 2 * Skip(Buffer(f))
      /\ Skip(Buffer(f)) \in 0 .. Bytes - 1
  BY RenderDigits
<1>2. Render(f) = [volume |-> f.volume, hex |-> hex]
  BY DEF Render
<1>3. f.volume \in -1 .. MaxVolume + 1
  BY MaxVolumeAssumption DEF FileIds
<1> HIDE DEF hex
<1>4. len \in 0 .. KeyDigits + CookieDigits + 1
  BY <1>1, Widths
<1>5. hex \in [1 .. len -> Symbols]
  BY <1>1 DEF Symbols
<1> HIDE DEF len
<1> QED
  BY <1>2, <1>3, <1>4, <1>5 DEF Texts

\* Every id that is stored is a text, and every one that is parsed has its key
\* and its cookie in range: a short key is padded, never read out of bounds.
THEOREM TypeCorrect == Spec => []TypeOK
<1>1. Init => TypeOK
  <2> SUFFICES ASSUME Init PROVE TypeOK
    OBVIOUS
  <2>1. fid \in FileIds
    BY Widths, MaxVolumeAssumption DEF Init, FileIds
  <2> QED
    BY <2>1, MaxTripsAssumption DEF Init, TypeOK
<1>2. TypeOK /\ [Next]_vars => TypeOK'
  <2> SUFFICES ASSUME TypeOK, [Next]_vars PROVE TypeOK'
    OBVIOUS
  <2>1. CASE Parse
    <3>1. Accepts(text) => IdOf(text) \in FileIds
      BY ParsedType, TextLength DEF TypeOK
    <3> QED
      BY <2>1, <3>1 DEF Parse, TypeOK
  <2>2. CASE Store
    <3>1. Render(fid) \in Texts
      BY RenderedType DEF TypeOK
    <3>2. trips + 1 \in 0 .. MaxTrips
      BY <2>2, MaxTripsAssumption DEF Store, TypeOK
    <3> QED
      BY <2>2, <3>1, <3>2 DEF Store, TypeOK
  <2>3. CASE UNCHANGED vars
    BY <2>3 DEF vars, TypeOK
  <2> QED
    BY <2>1, <2>2, <2>3 DEF Next
<1> QED
  BY <1>1, <1>2, PTL DEF Spec
=============================================================================
