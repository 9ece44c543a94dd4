# weedforge in TLA+

Weedforge is a client library for the SeaweedFS object store: a Rust core
(`src/src`), Python bindings over it, and two clients written natively in Go and
Java (`src/clients`). This directory holds its TLA+ specifications, the TLC
instances that check them and the TLAPS proofs about them.

## The system

An application calls `write`, `read`, `delete`, `lookup` or `public_url` on a
client. A client has two halves:

| component | state | operations |
|---|---|---|
| HA master client: `infrastructure/ha.rs` over `infrastructure/http/master.rs`; Go `master.go`; Java `MasterClient.java` | list of masters, strategy, retries, and one atomic round-robin counter shared by all callers; per call a start index, round, offset and last error | `assign` (a new file id and a server for it), `lookup` (the servers of a volume) |
| File id: `domain/entities.rs`, `fileid.go`, `FileId.java` | volume id, 64-bit needle key, 32-bit cookie | `parse`, `render` |
| Use cases: `application/{write,read,delete}_file.rs`; Go `client.go`; Java `WeedClient.java` | per call the locations, the replica at hand, the last error | `execute`: a master call, then requests to volume servers |
| Volume client: `infrastructure/http/volume.rs`; Go `volume.go`; Java `VolumeClient.java`, `HttpUrlConnectionTransport.java` | the download cap; per request the bytes buffered | `upload`, `download`, `delete` |
| Public URLs: `application/public_url.rs`, `publicurl.go`, `Urls.java` | none | `public_url`, `public_url_resized`: a lookup, then a URL from its first location |
| Facade and builders: `client.rs` | one master client, one volume client, both shared by the callers | `build`, and the operations above |
| Python bindings: `python/mod.rs` over `BlockingWeedClient` | the client object; the interpreter lock is Python's | `WeedClient(...)`, and the operations above, blocking |
| Option records, JSON reader, multipart bodies | none | encoding and decoding |

They interact by calls only: facade -> use case -> master client -> masters, and
facade -> use case -> volume client -> volume servers; the bindings call the
facade from threads that otherwise hold the interpreter lock. The only shared
mutable state inside a client is the counter. Everything hard comes from outside: many
callers at once, masters and volume servers that are down, slow or wrong, replies
that are lost after the request was carried out, requests that arrive late, replicas
that missed a write or a delete, volumes that move between lookup and download, and
numbers at their limits. Nothing is persisted by the client, so it has no
recovery of its own.

What makes each component correct:

- *HA master client*: a call fails only after complete, even sweeps over all masters;
  one good master suffices; a final answer ends the sweep; the error returned is
  evidence from this call; load is dealt out evenly; every call returns.
- *File id*: an id written to storage and read back is the same id, and the server's
  own text is reproduced.
- *Use cases*: an acknowledged write is everywhere, an acknowledged delete is final,
  a file is never reported absent that is not, and a read succeeds while a replica that
  has the file answers.
- *Volume client*: success means the whole body (with two exceptions the code makes,
  under Divergences); the cap bounds memory and refuses nothing that fits.
- *Public URLs*: absolute, asking the same place for the same image whichever client
  makes them, and where the core itself would read.
- *Facade*: the two halves fit: each operation goes on with the answer of its own sweep,
  and one healthy master and one healthy replica are enough for a read.
- *Python bindings*: no thread waits for the network with the interpreter lock in hand, and
  no accepted configuration panics later.

`PROJECT.json` lists every component with its status, and every hazard at its line.

## Modules

| module | models |
|---|---|
| `MasterCall` | abstract: what an HA master client promises, a budget of attempts at each master and no order |
| `HaMaster` | the Rust master client, shared by several callers, over masters that reply anything |
| `HaMasterProofs` | theorems about it |
| `NativeMaster` | the Go and the Java master client |
| `NativeMasterProofs` | theorems about it |
| `FileId` | `parse` and `render` over hex digits, and an id going to storage and back |
| `FileIdProofs` | theorems about it |
| `FileStore` | abstract: what an application may believe of its files, without servers or messages |
| `FileOps` | write, read, delete, lookup and public URL by several clients against a cluster that crashes, loses and delays |
| `FileOpsProofs` | theorems about it, and that it implements `FileStore` |
| `WeedClient` | the async facade: `HaMaster` and `FileOps` composed, step by step |
| `WeedClientProofs` | theorems about the composition, from those about its halves |
| `ReplyBody` | reading one reply under the download cap, in the three clients |
| `ReplyBodyProofs` | theorems about it |
| `PublicUrl` | the URL each of the three clients makes of a location |
| `PublicUrlProofs` | theorems about it |
| `PyClient` | the Python bindings, the blocking client and the interpreter lock |
| `PyClientProofs` | theorems about it |
| `MCHaMaster`, `MCNativeMaster`, `MCFileOps`, `MCWeedClient`, `MCReplyBody` | instances for TLC (`FileId`, `PublicUrl` and `PyClient` need none) |

`WeedClient` extends `HaMaster` and instantiates `FileOps`; `HaMaster` and `NativeMaster`
instantiate `MasterCall`, `FileOps` instantiates `FileStore`.

An operator whose comment begins with *Mistake:* is a plausible wrong version of the
definition after it. No behaviour uses it; it documents what a property would catch,
and the pairs are listed in `PROJECT.json`.

### HaMaster and MasterCall

`call[c]` is the stack frame of the latest call of caller `c`: `start`, `round`,
`offset` and `last` (`last_error`). `current` is `current_index`. One step runs from
one `.await` to the next: `Begin` takes the index and sends the first request;
`Settle` takes what came back, and `Conclude` or `FailOver` is the arm of the `match`
it meets. `RoundHead` and `NextAttempt` are the two nested loops.
`fetch_add` is atomic, so it is part of one step; its wrap at `CounterMod` is kept.
`Replies` are the ways in which an exchange can end, `Outcome` what `assign_impl` and
`lookup_impl` make of each. `starts`, `failures` and `heard` are history.

Dropping the future of a call is not an action: it only removes the caller.

`MasterCall` forgets indexes and rounds: a refused attempt spends one unit of the
budget of its master, and a call fails exactly when every budget is spent. `HaMaster`
implements it with `allowance = Rounds` and `budget = Rounds - failures`, and so does
`NativeMaster`, where a call that sleeps after its last round counts as failed.

### NativeMaster

One module for both languages, since the loops are the same and the
differences are local. `config` is the configuration of the client at hand (language,
retries, backoff, counter and `int` widths, what its masters are like): a variable that
no step changes, so that one run checks several. The differences: the conversion of the counter to a signed index (`AsInt`,
`Remainder`), backoff (`phase = "sleeping"`), cancellation of a Go context (`Cancel`,
which makes later attempts fail but does not end the loops), in Java an exception
that the loop does not catch (`escaped`), and what ends a request: Go has a timeout for the
whole of it, Java one for each read (`AttemptsEnd`, under Fairness).

### FileId

A text is a volume number and a sequence of hex digits, `NoDigit` for any other
character. Numbers are digit sequences, so that stripping leading zero *bytes*, odd digit
counts and the split before the cookie are what the code does; nothing is
the identity. The state machine receives any text, parses it, stores its canonical
form and parses that again.

### FileOps

`op[c]` is the latest operation of client `c`: its stage, the locations
the master gave, the offset of the replica at hand, and the reply when it has been
served. `Starts` is where a read may start: anywhere in the core (`Random` includes
`First` and `Sticky`), at the first or the sticky replica in the native clients. `lookup` and
`public_url` end with the master's answer. Master calls are one step with any result that `HaMaster` allows (an error, or
an answer). An attempt is three steps: `Send` (part of the step before), `Serve` (the
server acts and replies), and `Receive` or `TimeOut`. A time-out before the server
acted leaves the request in `late`, and `ServeLate` may carry it out at any later
time; a time-out after it acted is a lost reply. `Conclude` is the `match` of the use
case: success and `FileNotFound` return, anything else goes to the next replica
(`NextReplica`). Clients in `Native` have one attempt.

The volume servers are external and modelled from what the code assumes of them
(`delete_file.rs:23-25`): the server that takes a write or delete replicates it to
those it reaches, and reports success only if that is all of them. Servers crash and
restart with their data, and a replica may move to a spare server.

Writes, deletes and reads of one id are started in any order, with the ids that
`write` has returned: those are the only ids an application can have.

### FileStore

Per file what is known of it: unwritten, written, doubtful once its deletion was asked for,
deleted once one succeeded. Per client its latest request. Any request may fail; a read
started after a deletion succeeded never succeeds; only a file that is doubtful or deleted, or
whose volume moved during the request, may be reported absent. `FileOps` implements it
with the mapping at its end, which forgets the whole cluster. `OutcomeIdempotent` shows
what the refinement catches: a delete that took a 404 for done, though other
replicas still serve the file.

### WeedClient

An operation starts as in `FileOps` and in the same step begins a call of `HaMaster`
(`Execute`): that is what the code does up to its first `.await`. `MasterReply` is one
attempt of that call; when it ends the call, `CarryOn` takes its result to the
operation: locations, an assignment, or an error. From there the steps are those
of `FileOps`. `ImplementsFileOps` says that `HaMaster` gives `FileOps` only what it assumed, fairness
included, so that what is checked of `FileOps` holds of the composition.

### ReplyBody

One request and its reply. `Reply` looks at status and advertised length, `Chunk`
takes a piece of any size, `End` is the end of the stream, `Break` any failure. A stream
ends at the end of the message (`Complete`), where Go's limited reader stops (`Readable`), or, in
Java, where the connection closes before an advertised length: `HttpURLConnection` reports
that as an ordinary end, and `readBody` does not compare (`EndsUnnoticed`). Without an advertised
length the body comes in chunks, and all three libraries report a missing last one. `Capped`, `Readable` and `OverLimit` hold the three
ways the cap is applied, 64-bit wrap-around included.

### PublicUrl

A location is a host with or without a scheme and with some closing slashes; its public
form may be empty or missing. `Base` chooses between the two as the three languages do,
`Normalize` treats slashes and schemes (the three agree), `Query` is the sequence of parameters as
written: Go sorts them by name, height before width, and leaves out zeros. All methods are answered by the
same reply, so that the clients are compared on one location; what lookups return is the matter
of `FileOps`. `FileUrl` is
`build_file_url` of the volume client, written a second time in the code and compared
with the first.

### PyClient

`lock` is the interpreter lock. A thread that runs Python code holds it and is made to give it
up now and then (`Yield`); `Call` gives it up for the time of the request (`py.detach`), and
`Attach` needs it back to build the result. A remote server needs no lock; a server in the same
process, such as a test's, runs Python code and does. `New` accepts what the builders accept.

## Runs

`FileOpsFaults` takes about two minutes and `WeedClient` one, on two workers; the others
seconds. `CHECK_DEADLOCK FALSE` where a behaviour ends when the bounded number of calls is
used up.

| run | instance | shows |
|---|---|---|
| `HaRoundRobin` | 2 callers, 3 masters, 2 rounds, counter of 4 values, 5 calls | sweeps are complete (`FailsOnlyAfterFullSweeps`) and even (`SweepsAreEven`), errors are evidence (`ErrorIsEvidence`), final answers end the sweep, shares are balanced across the wrap, calls return, `MasterCall` is implemented |
| `NativeSweep` | 2 callers, 3 masters, 4 calls; Go with 2 rounds and cancellation, Java with `maxRetries = 0`, a signed counter of 4 values, one healthy master and none that dribbles; both with backoff | balance across the overflow, an index in range, one healthy master is enough for an assignment, calls return, `MasterCall` is implemented (which includes complete sweeps: a call fails only when every master's budget is spent) |
| `FileIdRoundTrip` | base 2, key of 2 bytes (4 digits), cookie of 1, all texts up to 7 symbols | identity and server form survive storage |
| `FileOpsFaults` | a core and a native client, 2 replicas and a spare, 3 operations, 1 crash, 1 move | `AckedWriteIsOnEveryReplica`, `DeletedFileIsNeverRead`, `AbsenceIsNeverInvented`, `GivesUpOnlyAfterEveryReplica`, and `FileStore` is implemented (its safety) |
| `WeedClient` | 2 callers, 3 masters of which only the second is healthy, Failover, `max_retries = 0`, 2 replicas of which one is healthy, 3 operations, 1 crash | list order, one healthy master is enough, a written file is served (`WrittenFileIsServed`), every operation ends, `FileOps` is implemented, fairness included |
| `ReplyBodies` | three clients, caps from none and 0 to 6, bodies up to 6 | no cap cuts a body, and one that breaks off is an error but in Java under an advertised length (`CutBodyIsNoSuccess`); the cap holds and refuses nothing that fits |
| `PublicUrls` | 2 hosts, every scheme and up to 2 slashes, dimensions 0, 1 and 2, all methods in any order | URLs of a resized image agree (up to the order of parameters in Go's), are absolute, lead where the core reads |
| `PyClient` | 2 threads and a local server, 0 or 1 master URLs, every strategy name, 4 calls | calls to local servers succeed, return, and hold up nobody; no call panics |

Why these bounds are enough. Callers of a master client share the counter only, so two
show every interleaving of a pair; three masters tell apart first, middle and last, and
are no divisor of the counter's range, so that the wrap is uneven as with 2^64; two
rounds show the passage from one to the next. In `FileId` a digit is half a byte
whatever its base, and two key bytes have a leading, an inner and a last byte. In
`FileOps` three operations are the shortest sequence of write, delete and
read; a crash and a move at any point between the steps cover a replica that missed
a step and a stale lookup. `WeedClient` is about the seam between the two
halves: the volume stays where it is there (`MaxMoves` is 0), since moves are no concern
of the master half and `FileOpsFaults` has them. Two threads in `PyClient` are one that waits
and one that could hold it up. In `PublicUrl` the second closing slash is what tells one
stripped slash from all of them. In `ReplyBody` only the order of sizes matters: bodies below,
at and above the cap, in pieces of every size.

### Divergences

Four runs are expected to find a counterexample; each checks what a comment,
a test or a document says.

| run | what the code does |
|---|---|
| `GoNegativeIndex` | `master.go:82` converts the counter to `int`: with a 32-bit `int` the index is negative after 2^31 calls and the call panics |
| `JavaMalformed` | `MasterClient.java:151`: a location that is no JSON object raises an exception the sweep does not catch, so the other masters are not asked |
| `FileIdZeroKey` | an id with needle key 0 parses, but its canonical form does not (`tests/conformance.rs:67-68` says `render` is a fixed point) |
| `BodyGoMaxInt` | `volume.go:106`: the cap plus one overflows at the largest `int64`, and a download returns no bytes and no error |

Seen while modelling and not run:

- Java takes a body that breaks off before its `Content-Length` for the whole one
  (`HttpUrlConnectionTransport.java:86-96`), where Rust and Go fail, though
  `clients/README.md:3-4` says that the native clients mirror the semantics of the core (a run
  of `SuccessMeansWholeBody` with `Langs = {"java"}` shows it)
- Java's `requestTimeoutMillis` is set as a read timeout (`HttpUrlConnectionTransport.java:49`)
  and bounds no request, where the setting of that name is "for the entire request" in the core
  (`http/mod.rs:14`)
- Go sorts the parameters of a resized URL (`publicurl.go:27`), so that its text differs from
  Rust's and Java's and is another key to a cache
- Both native clients sleep after the last round (`master.go:100`, `MasterClient.java:75`)
  though the comment says "between rounds"
- A lookup all of whose masters say that the volume is absent ends in `AllMastersUnavailable`
  (`master.go:114`), unlike the core
- `clients/README.md:48` names the replica of reads as the one point where the core is ahead,
  but a native delete has one replica too (`client.go:142`)
- A 404 from the first replica ends a delete (`delete_file.rs:47`) though an earlier, partial
  delete may have left the file on another
- Java's transport applies the download cap to every reply
  (`HttpUrlConnectionTransport.java:87`)
- `errors.go:51` says that the core reports failed deletes as `DownloadFailed`, which it no
  longer does (`volume.rs:174`)
- The plain public URL prefers the public host in Rust (`client.rs:224`) and the internal one in
  Go and Java (`client.go:147`), though `client.go:5-6` says that URLs are kept in parity
- Rust takes an empty `publicUrl` for a host, and hands out a URL without one, where Go and Java
  fall back to `url`
- Go leaves out a dimension of zero
- The sticky hash of Java is another function than that of Rust and Go, so clients in different
  languages stick to different replicas

`PublicUrl` and `ReplyBody` have the divergences about URLs and about the body that breaks
off as the code has them, and the properties except these by name.

## Fairness

- `HaMaster`: weak fairness of each caller's attempt. Every request ends, if only by
  reqwest's timeout for the whole of it (30 s by default). Nobody is obliged to begin a call.
- `NativeMaster`: weak fairness of each caller's sleep, which its timer ends, and of its
  attempt where something ends that. In Go it is the timeout of `http.Client` for the whole
  request (`transport.go:26`). In Java there is none: `setReadTimeout` bounds each read, and a master that
  sends a byte within every 30 s keeps the attempt alive for ever. So a Java attempt is fair only
  if the configuration says that no master is `dribbling`, as that of `NativeSweep` does: that Java's calls return
  is shown of masters that finish their replies or fall silent. Go's configurations allow dribbling.
  Nobody is obliged to cancel a context.
- `FileOps`: for clients of the core, weak fairness of the master call and of receiving a reply or timing
  out, and of a *healthy* server serving; none for native clients, for the same reason. Other servers, crashes, restarts and moves owe
  nothing.
- `WeedClient`: the same for the composed steps: a caller's attempt at a master, its volume
  reply or time-out, and a healthy replica serving.
- `PyClient`: weak fairness of a thread's being made to yield (the interpreter's switch
  interval), of a local server's part and of the request timeout, but not of a remote reply; strong fairness of being given
  the lock, for a thread or server that asks for it again and again: the interpreter hands it
  over when its holder yields. A request timeout (30 s) is taken to be long against thread
  switches: a local server misses it only when the lock's holder blocks with it.

With timeouts switched off (0 in Go, Java) the liveness results do not apply.

## Proofs

Every safety property that a passing run checks, invariant or action property, is stated by a
theorem. A theorem holds for every value of the constants under the `ASSUME`s of its
module: any number of callers, masters, servers, files, retries, crashes and moves, any counter
width, any widths of key and cookie, any cap. The assumptions are types and what the code
needs to run (at least one master; the file ids not empty; that the width of the Go counter is a multiple of the
width of an `int`, both powers of two; the lock's free value is no thread). Where
a theorem needs more, its statement says so as a hypothesis.

### The sweeps: HaMasterProofs and NativeMasterProofs

No property of the sweep is inductive: `FailsOnlyAfterFullSweeps` speaks of the end of a call
and says nothing about the middle. `IndInv` adds what the loop indexes mean: a running call in
round `r` at offset `o` has failed `r + 1` times at each master the round has passed and `r`
times at the others (`Swept`), a finished one that gave up has failed `Rounds` times everywhere
(`Settled`), `last` is in `heard`, and nothing heard in a running call is final. `StepInv` has
one step per action; the hard one is the end of a round, where "the masters passed"
becomes "all masters", since `(start + offset) % n` is a bijection of the offsets. From it
follow `TypeCorrect`, `FullSweeps`, `Evidence`, `FinalAnswer`, `OneHealthy`, `ListOrder` and
`EvenSweeps`.

`NativeMasterProofs` follows the same line with a position in the list instead of a remainder,
which covers a start index of either sign, and keeps account of the two ways a call ends early:
a panic takes a counter that overflowed, an escaped exception a malformed location. `NoPanic`,
`OneHealthyAssigns` and `FullSweeps` assume `CountersFit`, that no Go client makes so many
calls that its counter, as an `int`, is negative; without it a call may panic, as `GoNegativeIndex` shows. `FullSweeps` also
assumes `WellFormed`, that no master sends Java a malformed location; without it `JavaMalformed` is the counterexample. The configurations of
`NativeSweep` satisfy both.

*Round robin* (`RoundRobin` in both modules, no hypotheses). The invariant `Balanced` says
that the counter is the number of calls modulo its range, and that two masters' shares
differ at most by the number of wraps so far plus what the deal under way has given to the one and not yet
to the other (`Dealt`). A deal that reaches the end of the list leaves the shares even; one
that a wrap cuts short leaves them one apart, which is where the unit per wrap comes
from. For the native clients what wraps is the counter as a signed `int` (`Overflowed`); that
passing from -1 to 0 skips no master is part of the proof.

*Refinement* (`SweepKeepsPromise` in both modules): initial states map to initial states of
`MasterCall`, and each attempt to spending one unit of a master's budget or to an end that `MasterCall`
allows. The native theorem needs `CountersFit` and `WellFormed`, since a panic and an escaped exception
are ends that `MasterCall` does not have. What is proved is `MasterCall`'s `Safety`; its fairness is
left to the runs.

### The files: FileOpsProofs and WeedClientProofs

`AckedWriteIsOnEveryReplica` and `DeletedFileIsNeverRead` depend on requests that
nobody waits for any more, so the invariant is about those. A late write is of a file id whose upload was not
acknowledged and never will be, a late delete is of a file whose deletion was asked for (`Placed`);
the id of an upload under way is nobody else's (`Upload`), so no late request can disturb
it; an operation of another kind is on an acknowledged file (`Named`). A reply on its way is evidence: a
delete's "ok" that no replica has the file, a read's "ok" that it was not deleted before the read
began, a read's 404 that it was, that somebody is deleting it or that the volume moved (`Evidence`); `Verdict` and `Served` say what
remains of that evidence at the end. `Sweep` says that the replicas asked are those from
the start to the present offset, cyclically: at the last offset these are all of them
(`AsksEveryReplica`), whatever the start and the length of the list. From `IndInv`:
`TypeCorrect`, `AckedWriteStays`, `DeletedStaysDeleted`, `AbsenceIsReal`.

`ImplementsFileStore` maps each step: starting a request, ending one (with the case
distinction on success, absence and failure that `FileStore` makes), and a move; all that crashes,
is served, times out or comes late is a stutter. That is all of `FileStore`, which promises safety only.

`WeedClientProofs` reuses both invariants. Every step of the composition is a step of
`HaMaster` or leaves it alone (`MasterSteps`), and a step of `FileOps` or leaves that alone
(`FileSteps`), so `ClientInv` is their conjunction and the link between them: an operation that
reports a failed master call belongs to a call that ended without `Ok` (`Linked`).
`ReadsAreServed` is the end-to-end promise: with one healthy master and one healthy replica a
written file is read, unless its deletion was asked for or a master denied its volume. Masters are
trusted in this: one that answers with locations names the healthy replica (`Listings`).
`FilePromisesHold` and `ClientKeepsStorePromise` carry the promises about files over to the
composition, `ClientListOrder` and `ClientOneHealthy` those about the sweep.
`ImplementsFileOpsSafely` is the refinement step by step.

### The others

`FileIdProofs`. `RenderedIsAccepted`: the canonical form of an id parses if and only if
its key is not zero, which says exactly how far the fixed point claimed by the tests goes.
`RoundTrip` and `ServerFormRoundTrip` are about the operators, and `KeyedIdSurvives` and
`ServerFormSurvives` lift them to the state machine by invariants that relate text and
id at each stage.

`ReplyBodyProofs`. `CapHolds`: the buffer stays within the cap for every cap, size and
advertised length. `WholeBody`: success means the whole body (`CutBodyIsNoSuccess`, so not in Java under an
advertised length), provided that no Go client
is configured with the largest integer, the case of `BodyGoMaxInt`. `FittingPasses`: only a
cap that was asked for, and a body or an advertised length beyond it, make a refusal, at the cap exactly included.

`PublicUrlProofs`. The invariant is that what a method returned is what it assembles from the
master's reply; the lemmas say what `Normalize` keeps of a location, for any number of closing
slashes, that the core's two copies of it are one function (`SameScheme`), and what each
client's query holds (`ResizedQuery`). `ClientsAgree` is about base and set of parameters, and about
the text of Rust's and Java's URLs.

`PyClientProofs`. The invariant says who may hold the interpreter lock: only a thread that
runs Python code, never one that waits for a server. `LocalCalls` and `NoPanics` follow.

### Only model-checked

Liveness (`EveryCallReturns`, `EveryOperationEnds`, `EveryThreadGetsOn`) and the fairness part of
`KeepsPromise` and `ImplementsFileOps`: they need ENABLED and liveness rules, which the prover
does not have. Their safety parts are the theorems above. The properties of the runs that expect a violation are
false of the code; where a hypothesis excludes the case, the theorem that then holds is named above
(for `CanonicalFormReparses` it is `RenderedIsAccepted`).

## Not modelled

File contents, names and content types; resize modes; query and multipart encoding; Java's
JSON reader (its outcomes are replies); TLS; dropped futures and Java's thread
interrupts; a blocking call made inside an async runtime, which tokio refuses; a native
call as a whole, whose halves are in `NativeMaster` and `FileOps`, and so what a null `url` in a
reply does to it; builds, tests and releases.

## Plan

The modelling of the core is complete, and so are the proofs of what the runs check of
safety. Left: the native clients composed as `WeedClient` is, with a context that is cancelled in
either half, interrupts and null locations.
