----------------------------- MODULE PublicUrl -----------------------------
(***************************************************************************)
(* The URL that each of the three clients hands to an application for a     *)
(* file, from the first location of a lookup reply:                         *)
(*   rust  WeedClient::public_url, public_url_resized (src/src/client.rs)   *)
(*         over src/src/application/public_url.rs                           *)
(*   go    PublicURL, PublicURLResized (client.go) over publicurl.go        *)
(*   java  publicUrl, publicUrlResized (WeedClient.java) over Urls.java     *)
(* The file id in the URL is the same for all (FileId) and left out. All    *)
(* methods are answered by one reply: the module compares what the clients  *)
(* make of the same location, not what several lookups return.              *)
(***************************************************************************)
EXTENDS Naturals, Sequences

CONSTANTS Hosts,     \* hosts, with their ports and paths
          Sizes      \* widths and heights an application may ask for

ASSUME HostsAssumption == "" \notin Hosts
ASSUME SizesAssumption == Sizes \subseteq Nat

Langs == {"rust", "go", "java"}
Methods == {"plain", "resized"}
Schemes == {"http", "https"}

\* The text of a location: a host, bare or with a scheme, and closing slashes.
\* A reply may have an empty publicUrl, or none.
Texts == [scheme : {"none"} \cup Schemes, host : Hosts, slashes : 0 .. 2]
Empty == [scheme |-> "none", host |-> "", slashes |-> 0]
Missing == [scheme |-> "missing", host |-> "", slashes |-> 0]

VARIABLES
  url, publicUrl,   \* the first location of the file's volume
  width, height,    \* the arguments of publicUrlResized
  built             \* what each method of each client returned, if called

vars == <<url, publicUrl, width, height, built>>

NotBuilt == <<>>

\* Mistake: a location without a scheme is used as it is.
NormalizeBare(t) == [t EXCEPT !.slashes = IF @ > 0 THEN @ - 1 ELSE 0]

\* Mistake: every closing slash goes.
NormalizeTrimmed(t) ==
  [t EXCEPT !.slashes = 0, !.scheme = IF @ = "none" THEN "http" ELSE @]

\* One closing slash goes, and http:// goes before a text without a scheme.
Normalize(t) ==
  [t EXCEPT !.slashes = IF @ > 0 THEN @ - 1 ELSE 0,
            !.scheme = IF @ = "none" THEN "http" ELSE @]

\* Where the volume client of the core reads the file (build_file_url).
FileUrl(t) ==
  LET base == [t EXCEPT !.slashes = IF @ > 0 THEN @ - 1 ELSE 0]
  IN  IF base.scheme \in Schemes THEN base ELSE [base EXCEPT !.scheme = "http"]

\* Mistake: the native clients name the internal host.
PreferPublicRust(lang, method) == lang = "rust"

\* prefer_public, as the methods set it.
PreferPublic(lang, method) == lang = "rust" \/ method = "resized"

\* publicUrl if it is preferred and there is one: an empty one is one in Rust.
Base(lang, method) ==
  IF /\ PreferPublic(lang, method)
     /\ publicUrl # Missing
     /\ lang = "rust" \/ publicUrl # Empty
  THEN publicUrl ELSE url

\* One parameter; Go leaves out a dimension of zero.
Param(lang, name, value) ==
  IF lang = "go" /\ value = 0 THEN <<>> ELSE << <<name, value>> >>

\* The query as it is written: url.Values.Encode sorts by name, the others keep
\* the order of their code.
Query(lang, method) ==
  CASE method = "plain" -> <<>>
    [] lang = "go" -> Param(lang, "height", height) \o Param(lang, "width", width)
    [] OTHER -> Param(lang, "width", width) \o Param(lang, "height", height)

\* A client looks the file up and assembles its URL.
Build(lang, method) ==
  /\ built[lang][method] = NotBuilt
  /\ built' = [built EXCEPT ![lang][method] =
                 [base |-> Normalize(Base(lang, method)),
                  query |-> Query(lang, method)]]
  /\ UNCHANGED <<url, publicUrl, width, height>>

Init ==
  /\ url \in Texts
  /\ publicUrl \in Texts \cup {Empty, Missing}
  /\ width \in Sizes /\ height \in Sizes
  /\ built = [l \in Langs |-> [m \in Methods |-> NotBuilt]]

Next == \E lang \in Langs, method \in Methods : Build(lang, method)

Spec == Init /\ [][Next]_vars

-----------------------------------------------------------------------------
(* Properties                                                               *)

Built(lang, method) == built[lang][method] # NotBuilt

\* What a server takes from a query: parameters have names, their order is nothing.
Params(query) == {query[i] : i \in DOMAIN query}

\* "Public-URL construction [is] kept in parity with the Rust core"
\* (client.go:5-6): of one location every client makes a URL that asks the same
\* place for the same image. As text, Rust's and Java's are one; Go writes the
\* parameters in the other order (publicurl.go:27), so its URLs are other keys to
\* a cache. Dimensions of zero, which Go leaves out, and an empty publicUrl, which
\* Rust takes for a host, are set apart.
ResizedUrlsAgree ==
  (width # 0 /\ height # 0 /\ publicUrl # Empty) =>
    \A l, m \in Langs :
      (Built(l, "resized") /\ Built(m, "resized")) =>
        LET u == built[l]["resized"]
            v == built[m]["resized"]
        IN  /\ u.base = v.base /\ Params(u.query) = Params(v.query)
            /\ {l, m} \subseteq {"rust", "java"} => u = v

\* Where the masters name no public host, the URL a client hands out is the one the
\* core itself reads the file from: "the scheme handling cannot drift"
\* (public_url.rs:165) between the places that turn a location into a URL.
UrlIsWhereTheCoreReads ==
  publicUrl = Missing =>
    \A l \in Langs, m \in Methods :
      Built(l, m) => built[l][m].base = FileUrl(url)

\* Whatever form the location has, the URL is absolute: one scheme, the location's
\* own if it has one, and a host. An empty publicUrl is set apart as above.
UrlIsAbsolute ==
  \A l \in Langs, m \in Methods :
    (Built(l, m) /\ publicUrl # Empty) =>
      LET base == built[l][m].base IN
      /\ base.scheme \in Schemes /\ base.host \in Hosts
      /\ \E t \in {url, publicUrl} :
           t.host = base.host /\ t.scheme \in {"none", base.scheme}
=============================================================================
