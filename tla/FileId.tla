------------------------------- MODULE FileId -------------------------------
(***************************************************************************)
(* The file identifier of all three clients: FileId::parse and              *)
(* FileId::render of the Rust core (src/src/domain/entities.rs), which      *)
(* clients/go/fileid.go and clients/java/.../FileId.java repeat line by     *)
(* line. A fid is read from a master's reply or from the application's own  *)
(* storage, and written back to storage in canonical form.                  *)
(*                                                                         *)
(* Numbers are sequences of hex digits, most significant first, so that the *)
(* model says which digits are stripped and which are read; a byte is two.  *)
(* The volume id is its value; -1 stands for every text that is no decimal   *)
(* number (no comma, empty, a sign, letters).                               *)
(***************************************************************************)
EXTENDS Integers, Sequences

CONSTANTS Base,         \* 16: values of a hex digit
          KeyBytes,     \* 8
          CookieBytes,  \* 4
          MaxVolume,    \* 2^32 - 1
          MaxTrips      \* bound of the model: times an id is stored

ASSUME BaseAssumption == Base \in Nat /\ Base > 1
ASSUME KeyBytesAssumption == KeyBytes \in Nat \ {0}
ASSUME CookieBytesAssumption == CookieBytes \in Nat \ {0}
ASSUME MaxVolumeAssumption == MaxVolume \in Nat
ASSUME MaxTripsAssumption == MaxTrips \in Nat

Bytes == KeyBytes + CookieBytes
KeyDigits == 2 * KeyBytes
CookieDigits == 2 * CookieBytes

Digits == 0 .. Base - 1
NoDigit == -1                       \* any character that is no hex digit

FileIds ==
  [volume : 0 .. MaxVolume,
   key : [1 .. KeyDigits -> Digits], cookie : [1 .. CookieDigits -> Digits]]

HasKey(f) == \E i \in 1 .. KeyDigits : f.key[i] # 0

-----------------------------------------------------------------------------
(* render                                                                   *)

\* Mistake: a 4-byte needle key, as an earlier version of the core had.
BufferNarrowKey(f) ==
  [i \in 1 .. KeyDigits + CookieDigits |->
     IF i <= KeyDigits \div 2 THEN 0
     ELSE IF i <= KeyDigits THEN f.key[i] ELSE f.cookie[i - KeyDigits]]

\* The big-endian buffer [key | cookie].
Buffer(f) ==
  [i \in 1 .. KeyDigits + CookieDigits |->
     IF i <= KeyDigits THEN f.key[i] ELSE f.cookie[i - KeyDigits]]

\* Bytes skipped: the leading zero bytes, but never the last byte.
IsSkip(buf, n) ==
  /\ n \in 0 .. Bytes - 1
  /\ \A i \in 1 .. 2 * n : buf[i] = 0
  /\ n < Bytes - 1 => buf[2 * n + 1] # 0 \/ buf[2 * n + 2] # 0

Skip(buf) == CHOOSE n \in 0 .. Bytes - 1 : IsSkip(buf, n)

\* Mistake: leading zero digits stripped, not leading zero bytes.
RenderByDigits(f) ==
  LET buf == Buffer(f)
      n == Skip(buf)
      d == IF buf[2 * n + 1] = 0 THEN 1 ELSE 0
  IN  [volume |-> f.volume, hex |-> SubSeq(buf, 2 * n + 1 + d, Len(buf))]

Render(f) ==
  LET buf == Buffer(f)
  IN  [volume |-> f.volume, hex |-> SubSeq(buf, 2 * Skip(buf) + 1, Len(buf))]

-----------------------------------------------------------------------------
(* parse                                                                    *)

\* Mistake: characters that are no hex digits not looked for.
AcceptsAnyHex(t) ==
  /\ t.volume \in 0 .. MaxVolume
  /\ Len(t.hex) > CookieDigits
  /\ Len(t.hex) <= KeyDigits + CookieDigits

\* parse returns a FileId and not InvalidFileId.
Accepts(t) ==
  /\ t.volume \in 0 .. MaxVolume
  /\ Len(t.hex) > CookieDigits
  /\ Len(t.hex) <= KeyDigits + CookieDigits
  /\ \A i \in 1 .. Len(t.hex) : t.hex[i] \in Digits

\* The cookie is the last CookieDigits digits, the key the prefix before them.
IdOf(t) ==
  LET split == Len(t.hex) - CookieDigits IN
  [volume |-> t.volume,
   key |-> [i \in 1 .. KeyDigits |->
              IF i <= KeyDigits - split THEN 0
              ELSE t.hex[i - (KeyDigits - split)]],
   cookie |-> [i \in 1 .. CookieDigits |-> t.hex[split + i]]]

-----------------------------------------------------------------------------
(* An identifier that is received once, and stored and read back again.     *)

VARIABLES received,  \* the text it first arrived as
          text,      \* its latest textual form
          fid,       \* its latest parsed form
          stage,     \* "text", "parsed" or "rejected"
          trips      \* times it was rendered, up to MaxTrips

vars == <<received, text, fid, stage, trips>>

Symbols == Digits \cup {NoDigit}

Texts ==
  [volume : -1 .. MaxVolume + 1,
   hex : UNION {[1 .. n -> Symbols] : n \in 0 .. KeyDigits + CookieDigits + 1}]

Init ==
  /\ received \in Texts
  /\ text = received
  /\ fid = [volume |-> 0, key |-> [i \in 1 .. KeyDigits |-> 0],
            cookie |-> [i \in 1 .. CookieDigits |-> 0]]
  /\ stage = "text"
  /\ trips = 0

\* FileId::parse of the text at hand.
Parse ==
  /\ stage = "text"
  /\ IF Accepts(text)
     THEN stage' = "parsed" /\ fid' = IdOf(text)
     ELSE stage' = "rejected" /\ UNCHANGED fid
  /\ UNCHANGED <<received, text, trips>>

\* The application stores the id as its canonical text.
Store ==
  /\ stage = "parsed"
  /\ trips < MaxTrips
  /\ text' = Render(fid)
  /\ stage' = "text"
  /\ trips' = trips + 1
  /\ UNCHANGED <<received, fid>>

Next == Parse \/ Store

Spec == Init /\ [][Next]_vars

-----------------------------------------------------------------------------
(* Properties                                                               *)

TypeOK ==
  /\ received \in Texts /\ text \in Texts
  /\ fid \in FileIds
  /\ stage \in {"text", "parsed", "rejected"}
  /\ trips \in 0 .. MaxTrips

\* "Parse(Render(f)) == f" (fileid.go:76), as far as it goes: an id with a
\* needle key keeps its identity through any number of trips to storage, over
\* the whole width of the key and the cookie.
KeyedIdSurvivesStorage ==
  (Accepts(received) /\ HasKey(IdOf(received)) /\ stage # "text") =>
    stage = "parsed" /\ fid = IdOf(received)

\* The server's own form: whole bytes, the first one not zero, a key before the
\* cookie.
ServerForm(t) ==
  /\ Accepts(t)
  /\ Len(t.hex) % 2 = 0
  /\ t.hex[1] # 0 \/ t.hex[2] # 0

\* "Byte-stable with the server's own representation" (entities.rs:117): what
\* the server issued is stored as the very text it issued.
ServerFormIsReproduced == ServerForm(received) => text = received

\* "render() must be a fixed point: the canonical form has to parse back to the
\* same value" (tests/conformance.rs:67-68), for every id that parses.
CanonicalFormReparses ==
  (trips > 0 /\ stage # "text") => stage = "parsed" /\ fid = IdOf(received)
=============================================================================
