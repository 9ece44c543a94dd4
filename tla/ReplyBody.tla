----------------------------- MODULE ReplyBody -----------------------------
(***************************************************************************)
(* The reply to one download or delete request, as the volume clients read  *)
(* it: status, advertised length, and a body that comes in pieces and may   *)
(* break off, under the configured cap on downloads.                        *)
(*   rust  src/src/infrastructure/http/volume.rs  download_impl, delete_impl*)
(*   go    clients/go/volume.go                   download, delete          *)
(*   java  clients/java/.../HttpUrlConnectionTransport.java  send, readBody *)
(*         clients/java/.../VolumeClient.java     download, delete          *)
(* The server and the HTTP library under the client are external. A message *)
(* ends where its framing says so: at its Content-Length, or at the last    *)
(* chunk of a message without one. One that ends earlier is an error, but   *)
(* not under java.net.HttpURLConnection where a length was advertised: its  *)
(* stream then ends as if the message were complete.                        *)
(***************************************************************************)
EXTENDS Integers

CONSTANTS Langs,     \* clients: "rust", "go", "java"
          Limits,    \* caps an application may configure
          MaxInt,    \* 2^63 - 1: the largest int64 and long
          MaxBody    \* bound of the model: bytes in a body

None == -1           \* Option::None; in Go and Java any number below 1 is none

ASSUME LangsAssumption == Langs \subseteq {"rust", "go", "java"}
ASSUME SizesAssumption == MaxInt \in Nat /\ MaxBody \in 0 .. MaxInt
ASSUME LimitsAssumption == Limits \subseteq None .. MaxInt

VARIABLES
  lang,        \* the client that makes the request
  kind,        \* the request: "download" or "delete"
  limit,       \* the configured cap
  status,      \* "ok" (2xx), "not_found" (404) or "other"
  body,        \* bytes in the body of the reply
  advertised,  \* Content-Length, None when absent; a server may promise too much
  held,        \* bytes the client has buffered
  phase,       \* "sent", "reading" or "done"
  result

message == <<lang, kind, limit, status, body, advertised>>
vars == <<message, held, phase, result>>

Failures == {"Failed", "TooLarge"}   \* DownloadFailed or DeleteFailed
Results == {"none", "Ok", "FileNotFound"} \cup Failures

\* Mistake: zero, "0 means unlimited" in the native clients, taken for a cap.
CappedAtZero == limit # None

Capped == IF lang = "rust" THEN limit # None ELSE limit > 0

\* Signed 64-bit addition.
Wrap(x) == IF x > MaxInt THEN x - 2 * (MaxInt + 1) ELSE x

\* Mistake: the reader limited to the cap itself.
ReadableExact == IF lang = "go" /\ Capped THEN limit ELSE MaxInt

\* What the io.LimitReader of the Go client lets through; the others read on
\* until a piece takes them over the cap.
Readable == IF lang = "go" /\ Capped THEN Wrap(limit + 1) ELSE MaxInt

\* Mistake: the cap checked only once the body is complete.
OverLimitNever(n) == FALSE

\* A piece of n bytes takes the buffer over the cap.
OverLimit(n) == lang # "go" /\ Capped /\ held + n > limit

\* Mistake: an outcome noted without returning it.
FinishWithoutReturn(r) == result' = r /\ UNCHANGED phase

Finish(r) == phase' = "done" /\ result' = r

\* What the status means to the caller.
ByStatus ==
  CASE status = "ok" -> "Ok"
    [] status = "not_found" -> "FileNotFound"
    [] OTHER -> "Failed"

\* The status line and headers are in. Java's transport reads the body of every
\* reply, and only then is the status looked at.
ReadsBody == lang = "java" \/ (kind = "download" /\ status = "ok")

Reply ==
  /\ phase = "sent"
  /\ IF ~ReadsBody THEN Finish(ByStatus)
     ELSE IF lang = "rust" /\ Capped /\ advertised > limit THEN Finish("TooLarge")
     ELSE phase' = "reading" /\ UNCHANGED result
  /\ UNCHANGED <<message, held>>

\* A piece of the body arrives: response.chunk(), Read, in.read(chunk).
Chunk(n) ==
  /\ phase = "reading"
  /\ held + n <= body /\ held + n <= Readable
  /\ IF OverLimit(n)
     THEN Finish("TooLarge") /\ UNCHANGED held
     ELSE held' = held + n /\ UNCHANGED <<phase, result>>
  /\ UNCHANGED message

\* The message ended where its framing says.
Complete == held = body /\ advertised \in {None, body}

\* The connection closed before the advertised length, and readBody, which does
\* not count, takes what came for the whole.
EndsUnnoticed == lang = "java" /\ advertised # None

\* After the last piece; in Go and Java the size is looked at once more.
AtEnd ==
  IF lang # "rust" /\ kind = "download" /\ status = "ok" /\ Capped /\ held > limit
  THEN Finish("TooLarge") ELSE Finish(ByStatus)

End ==
  /\ phase = "reading"
  /\ Complete \/ EndsUnnoticed \/ held >= Readable
  /\ AtEnd
  /\ UNCHANGED <<message, held>>

\* The request failed, the body broke off, or the request timeout fired.
Break ==
  /\ phase # "done"
  /\ Finish("Failed")
  /\ UNCHANGED <<message, held>>

Init ==
  /\ lang \in Langs /\ kind \in {"download", "delete"} /\ limit \in Limits
  /\ status \in {"ok", "not_found", "other"}
  /\ body \in 0 .. MaxBody
  /\ advertised \in {None} \cup body .. MaxBody
  /\ held = 0 /\ phase = "sent" /\ result = "none"

Next == Reply \/ (\E n \in 1 .. MaxBody : Chunk(n)) \/ End \/ Break

Spec == Init /\ [][Next]_vars

-----------------------------------------------------------------------------
(* Properties                                                               *)

TypeOK ==
  /\ held \in 0 .. body
  /\ phase \in {"sent", "reading", "done"} /\ result \in Results
  /\ phase = "done" <=> result # "none"

\* Whether the application asked for a cap: "None means unlimited" (http/mod.rs:18),
\* "0 means unlimited" (options.go:80, HttpClientConfig.java:8).
CapWanted == limit # None /\ (lang = "rust" \/ limit # 0)

Downloaded == kind = "download" /\ result = "Ok"

\* A download that succeeds returns every byte of the object: the cap refuses, it
\* never cuts ("detect (rather than silently truncate) a body that exceeds the
\* cap", volume.go:104-105), and a body that breaks off is no success. Go
\* breaks it at the largest cap, Java under an advertised length.
SuccessMeansWholeBody == Downloaded => held = body

\* What remains of it below the largest cap: no cap cuts a download, a body that
\* breaks off is an error in Rust and Go (volume.rs:149-154, volume.go:108-111),
\* and in Java where no length was advertised. That readBody does not compare
\* (HttpUrlConnectionTransport.java:86-96) is the only way to a partial file.
CutBodyIsNoSuccess ==
  Downloaded => held = body \/ (lang = "java" /\ advertised # None)

\* "A cap that only trips after the buffer has already grown is not a cap"
\* (volume.rs:133): however the body is cut up and whatever length the server
\* advertises, the buffer stays within the cap. Go reads one byte more.
BufferStaysWithinCap ==
  CapWanted => held <= IF lang = "go" THEN limit + 1 ELSE limit

\* A download of an object that fits is never refused for its size, at the cap
\* exactly and with the cap off included; only a length the server advertised
\* falsely can do that.
FittingBodyIsNotRefused ==
  (result = "TooLarge" /\ kind = "download" /\ status = "ok") =>
    CapWanted /\ (body > limit \/ advertised > limit)
============================================================================
