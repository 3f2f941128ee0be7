------------------------------ MODULE Serving ------------------------------
(***************************************************************************)
(* The gateway's HTTP requests for one hash and one Pkarr key that names   *)
(* it or another (iroh-link-gateway/src/lib.rs, pkarr_redirect.rs): the    *)
(* rewrite of subdomains, the routes, collections with their directories,  *)
(* listings and index files, and the body that is streamed from the        *)
(* provider range by range. A browser (external) gets URLs that are typed, *)
(* follows the links of listings and the redirects, and resolves "." and   *)
(* ".." in all of them.                                                    *)
(*                                                                         *)
(* A path is the sequence of its segments between slashes: <<"">> is the    *)
(* empty path, <<"a", "">> is a/. Blobs are their hashes; a byte is its     *)
(* offset. What the provider sends is checked by Bao (external): a chunk    *)
(* decodes only if it is of the blob, and the last one only under the       *)
(* blob's own size. Finding the provider is the subject of Gateway.         *)
(***************************************************************************)
EXTENDS Ranges, Functions

CONSTANTS Blob,         \* the hashes of all blobs
          Size,         \* the size of each
          Names,        \* of a blob that is a collection's root: its names, with their blobs,
                        \* the first one if files share a name
          MetaSize,     \* and the size of its list of names
          Label,        \* the root blob of the URLs that name a hash
          Targets,      \* blobs that the Pkarr key may name, or None
          Typed,        \* URLs that a user types
          Headers,      \* Range headers that a client sends, or None
          CHUNK,        \* bytes of a chunk
          SNIFF_CHUNKS, \* chunks read to guess the content type
          HASH,         \* bytes of a hash
          MAX_ROOT,     \* MAX_COLLECTION_ROOT_BYTES
          META_HEADER,  \* bytes of the list of names before the first one
          MAX_NAME,     \* and for each file
          None

Sizes == 0 .. U64Max - 1
IsCollection(b) == Names[b] # None

\* A path has at least one segment.
Segment == STRING
Paths == Seq(Segment) \ {<<>>}

\* What stands after the last slash of a directory's path, and the path without a slash.
Blank == ""
EmptyPath == <<Blank>>
Dot == "."
DotDot == ".."

\* True of every string, but not known to the provers.
ASSUME StringsAssumption == Blank \in Segment \ {Dot, DotDot} /\ Dot \in Segment
ASSUME SizesAssumption == Size \in [Blob -> Sizes] /\ CHUNK \in Nat \ {0} /\ HASH \in Nat \ {0}
ASSUME BlobsAssumption ==
  /\ Label \in Blob
  /\ Targets \subseteq Blob \cup {None}
  /\ \A b \in Blob :
       IsCollection(b) => DOMAIN Names[b] \subseteq Paths /\ Names[b] \in [DOMAIN Names[b] -> Blob]
ASSUME HeadersAssumption == Headers \subseteq {None} \cup Seq(Parts)

VARIABLES
  target,   \* the blob that the Pkarr key names now, or None for another host
  request,  \* the request under way, with what the link it comes from is to show, and whether
            \* that and the link's listing are at Plain paths
  response, \* its response
  body,     \* what was sent of the body: offsets of bytes, and what stands between parts
  parts,    \* the ranges of the body that are not sent yet
  at        \* stream_content's offset in the first of them, and the chunk it waits for

vars == <<target, request, response, body, parts, at>>

----------------------------------------------------------------------------
(* URLs. The hash of a URL is its label, or what the key names.            *)

Flags == {"download", "listing", "sizes", "tree"}
Hosts == {"path", "subdomain"}
URL(route, host, tail, flags) ==
  [route |-> route, host |-> host, tail |-> tail, flags |-> flags]
URLs == [route : {"blake3", "pkarr"}, host : Hosts, tail : {None} \cup Paths, flags : SUBSET Flags]

ASSUME TypedAssumption == Typed \subseteq URLs
ASSUME NoneAssumption == None \notin Blob \cup Nat \cup Seq(Segment) \cup URLs

\* rewrite_subdomain: the root of a subdomain becomes the bare route.
rewrite(url) ==
  IF url.host = "subdomain" /\ url.tail = EmptyPath THEN [url EXCEPT !.tail = None] ELSE url

\* Root::link: the same base, and the path after it. On a subdomain a path that begins with a
\* slash would name another host: `/.` goes before it.
link(url, path, flags) ==
  [url EXCEPT !.tail = IF url.host = "subdomain" /\ Len(path) > 1 /\ path[1] = Blank
                       THEN <<Dot>> \o path ELSE path,
              !.flags = flags]

\* What a browser makes of a path: "." goes away, and ".." with the segment before it. On a
\* subdomain nothing is before the path; elsewhere its base is, and a path that drops
\* some of that is no URL of this hash or key any more: None.
Step(host, before, segment, last) ==
  LET left == IF segment = DotDot /\ before # <<>> THEN Front(before) ELSE before
  IN  IF before = None \/ (segment = DotDot /\ before = <<>> /\ host = "path") THEN None
      ELSE IF segment \notin {Dot, DotDot} THEN Append(before, segment)
      ELSE IF last THEN Append(left, Blank)
      ELSE left

Resolve(host, path) ==
  LET kept[n \in 0 .. Len(path)] ==
        IF n = 0 THEN <<>> ELSE Step(host, kept[n - 1], path[n], n = Len(path))
  IN  kept[Len(path)]

\* The URL that a browser asks for, or None for another site's, hash's or key's.
Browsed(url) ==
  IF url.tail = None THEN url
  ELSE IF Resolve(url.host, url.tail) = None THEN None
  ELSE [url EXCEPT !.tail = Resolve(url.host, url.tail)]

\* Mutant: a name's content is as permanent as a hash's.
CachingForever(url) == "immutable"

\* Root::new and Root::at with Caching::header.
Caching(url) == IF url.route = "blake3" THEN "immutable" ELSE "revalidate"

----------------------------------------------------------------------------
(* Reading from the provider.                                              *)

Chunks(n) == (n + CHUNK - 1) \div CHUNK
LastChunk(n) == IF n = 0 THEN 0 ELSE Chunks(n) - 1

\* Bao (external): whether a chunk that came under a size decodes for a blob.
Decodes(b, size, chunk) ==
  size = Size[b] \/ (chunk < LastChunk(size) /\ chunk < LastChunk(Size[b]))

\* sniff and verified_size, if they succeed: the prefix and the last chunk decode under the
\* size that the provider sent.
sniff(b) == {n \in Sizes : \A c \in (0 .. SNIFF_CHUNKS - 1) \cup {LastChunk(n)} :
                             c <= LastChunk(n) => Decodes(b, n, c)}

\* chunks_for: the chunks that cover a range.
chunks_for(range) == range.start \div CHUNK .. Chunks(range.end) - 1

\* read_collection: the root is a sequence of hashes within its limit, the first one that of
\* a list of as many names as there are links, some of them perhaps the same, within theirs.
read_collection(b) ==
  /\ IsCollection(b)
  /\ Size[b] <= MAX_ROOT /\ Size[b] % HASH = 0 /\ Size[b] >= HASH
  /\ LET links == Size[b] \div HASH - 1
     IN  MetaSize[b] <= META_HEADER + links * MAX_NAME /\ Cardinality(DOMAIN Names[b]) <= links

----------------------------------------------------------------------------
(* Collections.                                                            *)

\* Whether `name` starts with the path and a slash.
Below(path, name) == Len(name) > Len(path) /\ SubSeq(name, 1, Len(path)) = path

\* Entries::new: the names inside a directory, whose path ends with a slash or is empty.
Inside(b, dir) ==
  {name \in DOMAIN Names[b] : Len(name) >= Len(dir) /\ SubSeq(name, 1, Len(dir) - 1) = Front(dir)}

\* Mutant: a directory is named by the last segment before the file.
DirsLast(b, dir) == {name[Len(name) - 1] : name \in {n \in Inside(b, dir) : Len(n) > Len(dir)}}

Dirs(b, dir) == {name[Len(dir)] : name \in {n \in Inside(b, dir) : Len(n) > Len(dir)}}
Files(b, dir) == {Last(name) : name \in {n \in Inside(b, dir) : Len(n) = Len(dir)}}

\* The directory that a path names, and the file in a directory or a directory in it.
AsDir(path) == IF Last(path) = Blank THEN path ELSE Append(path, Blank)
Child(dir, segment) == Append(Front(dir), segment)

\* The parent that `../` links to.
parent(dir) == IF Len(dir) <= 2 THEN EmptyPath ELSE Append(SubSeq(dir, 1, Len(dir) - 2), Blank)

\* A path that its URL names: no segment but the last is empty, and none is for a browser to
\* resolve.
Plain(path) ==
  \A i \in DOMAIN path : path[i] \notin {Dot, DotDot} /\ (i < Len(path) => path[i] # Blank)

\* The segments of a path that are not empty.
Segments(path) ==
  LET kept[n \in 0 .. Len(path)] ==
        IF n = 0 THEN <<>>
        ELSE IF path[n] = Blank THEN kept[n - 1] ELSE Append(kept[n - 1], path[n])
  IN  kept[Len(path)]

\* listing: its links, with what each is to show.
Links(url, b, dir) ==
  LET flags == url.flags \cap {"sizes", "listing"}
      crumbs == Segments(dir)
      up == {Append(SubSeq(crumbs, 1, n), Blank) : n \in 1 .. Len(crumbs) - 1}
              \cup {d \in {EmptyPath, parent(dir)} : dir # EmptyPath}
      down == {Append(Child(dir, s), Blank) : s \in Dirs(b, dir)}
      files == {Child(dir, s) : s \in Files(b, dir)}
  IN  {[url |-> link(url, d, flags), shows |-> d] : d \in up \cup down}
      \cup {[url |-> link(url, f, g), shows |-> f] : f \in files, g \in {{}, {"download"}}}
      \cup IF "sizes" \in flags THEN {}
           ELSE {[url |-> [url EXCEPT !.flags = flags \cup {"sizes"}], shows |-> dir]}

----------------------------------------------------------------------------
(* Responses.                                                              *)

Error(status) == [status |-> status, kind |-> "error", cache |-> "no-store", about |-> "transfer"]
\* "path not found in collection", the one error about what a collection holds.
NoPath == [Error(404) EXCEPT !.about = "path"]
\* No provider or no packet was found, reading or looking up failed, or took too long.
Unavailable == {Error(404), Error(502), Error(504)}
Redirect(url, to) == [status |-> IF Caching(url) = "immutable" THEN 301 ELSE 302,
                      kind |-> "redirect", cache |-> Caching(url), to |-> to]
Listing(b, dir) == [status |-> 200, kind |-> "listing", cache |-> "no-cache", blob |-> b,
                    dir |-> dir]
\* A blob that goes on to serve_blob.
Found(url, b) == [status |-> 0, kind |-> "blob", cache |-> Caching(url), blob |-> b]

\* collection_entry: a directory comes before the file of the same name; the URL of a
\* directory that has an index file ends with a slash.
collection_entry(url, b, url_path) ==
  LET slash == url_path # None /\ Last(url_path) = Blank
      path == IF url_path = None THEN EmptyPath ELSE url_path
      dir == AsDir(path)
      index == Child(dir, "index.html")
  IN  IF path \in DOMAIN Names[b] /\ ~ \E name \in DOMAIN Names[b] : Below(path, name)
      THEN Found(url, Names[b][path])
      ELSE IF dir # EmptyPath /\ Inside(b, dir) = {} THEN NoPath
      ELSE IF "listing" \in url.flags \/ index \notin DOMAIN Names[b] THEN Listing(b, dir)
      ELSE IF slash THEN Found(url, Names[b][index])
      ELSE Redirect(url, link(url, dir, url.flags))

\* serve_root. No provider may be found, reading may fail, and the probe for a collection may
\* take too long.
serve_root(url, b, slash) ==
  LET entry == collection_entry(url, b, IF slash THEN EmptyPath ELSE None)
      tree == "tree" \in url.flags /\ "download" \notin url.flags
  IN  Unavailable \cup {IF tree THEN Error(422) ELSE Found(url, b)}
      \cup IF read_collection(b) /\ "download" \notin url.flags THEN {entry} ELSE {}

\* serve_path: one leading slash of the path is dropped.
serve_path(url, b, path) ==
  LET url_path == IF Len(path) > 1 /\ Head(path) = Blank THEN Tail(path) ELSE path
  IN  Unavailable \cup {Error(422)}
      \cup IF read_collection(b) THEN {collection_entry(url, b, url_path)} ELSE {}

\* trim_start_matches('/'), if something is left.
Trimmed(path) ==
  LET first == CHOOSE i \in DOMAIN path : path[i] # Blank /\ \A j \in 1 .. i - 1 : path[j] = Blank
  IN  SubSeq(path, first, Len(path))

\* blob, collection_root and collection_path for a hash, or redirect for a key, if it finds
\* the key's packet: nothing that it can serve, another host, or the content that it names.
\* That drops all leading slashes of the path, and serves the root if nothing is left.
Route(url, named) ==
  LET to == rewrite(url)
      bare == to.tail = None
      root == url.route = "pkarr" /\ ~bare /\ \A i \in DOMAIN to.tail : to.tail[i] = Blank
      b == IF url.route = "pkarr" THEN named ELSE Label
  IN  Unavailable \cup
      IF b = None THEN {Error(422), [Error(307) EXCEPT !.kind = "elsewhere"]}
      ELSE IF bare \/ root THEN serve_root(to, b, root \/ url.host = "subdomain")
      ELSE serve_path(to, b, IF url.route = "pkarr" THEN Trimmed(to.tail) ELSE to.tail)

----------------------------------------------------------------------------
(* The browser and the server.                                             *)

Pending == [status |-> 0, kind |-> "pending", cache |-> "no-store"]
\* What answers a URL that is not of this hash or key.
Elsewhere == [Pending EXCEPT !.kind = "elsewhere"]

Init ==
  /\ target \in Targets
  /\ request = [url |-> None, from |-> "none", shows |-> None, plain |-> TRUE, blob |-> None,
                same |-> TRUE]
  /\ response = Elsewhere
  /\ body = <<>> /\ parts = <<>> /\ at = [offset |-> 0, chunk |-> None]

Ask(new) ==
  /\ request' = [new EXCEPT !.url = Browsed(new.url)]
  /\ response' = IF Browsed(new.url) = None THEN Elsewhere ELSE Pending
  /\ body' = <<>> /\ parts' = <<>> /\ at' = [offset |-> 0, chunk |-> None]
  /\ UNCHANGED target

\* A URL is typed once the last response has ended.
Type(url) ==
  /\ response.kind \notin {"pending", "blob", "sending"}
  /\ Ask([url |-> url, from |-> "typed", shows |-> None, plain |-> TRUE, blob |-> None,
          same |-> TRUE])

Follow(l) ==
  /\ response.kind = "listing"
  /\ l \in Links(request.url, response.blob, response.dir)
  /\ Ask([url |-> l.url, from |-> "link", shows |-> l.shows,
          plain |-> Plain(response.dir) /\ Plain(l.shows), blob |-> response.blob,
          same |-> request.same])

FollowRedirect ==
  /\ response.kind = "redirect"
  /\ Ask([request EXCEPT !.url = response.to, !.from = "redirect"])

\* The key's record changes.
Retarget(b) ==
  /\ b # target
  /\ target' = b
  /\ request' = [request EXCEPT !.same = FALSE]
  /\ UNCHANGED <<response, body, parts, at>>

Respond(r) ==
  /\ response.kind = "pending"
  /\ r \in Route(request.url, target)
  /\ response' = r
  /\ UNCHANGED <<target, request, body, parts, at>>

\* multipart_length, where a part's header, its end and the closing line have length 1.
multipart_length(ranges) ==
  LET total[n \in 0 .. Len(ranges)] ==
        IF n = 0 THEN 1 ELSE total[n - 1] + 1 + (ranges[n].end - ranges[n].start) + 1
  IN  total[Len(ranges)]

\* The headers that serve_blob sends before the body.
Reply(status, kind, cache, size, asked, length) ==
  [status |-> status, kind |-> kind, cache |-> cache, blob |-> response.blob, size |-> size,
   asked |-> asked, length |-> length]

\* serve_blob up to the body: a client that has it already, HEAD or a range that is for
\* another version, and the ranges. `header` is None without one usable Range header.
ServeBlob(size, method, has, header) ==
  /\ response.kind = "blob"
  /\ size \in sniff(response.blob)
  /\ LET selection == IF method = "HEAD" \/ header = None THEN Full ELSE select(header, size)
         ranges == IF selection = Full THEN <<[start |-> 0, end |-> size]>>
                   ELSE selection.ranges
         asked == IF method = "HEAD" \/ has THEN None ELSE header
         multi == Len(ranges) > 1
         length == IF multi THEN multipart_length(ranges) ELSE ranges[1].end - ranges[1].start
         bodiless == method = "HEAD" \/ (selection = Full /\ size = 0)
     IN  IF has
         THEN /\ response' = Reply(304, "head", response.cache, size, asked, size)
              /\ UNCHANGED parts
         ELSE IF selection = Unsatisfiable
         THEN /\ response' = Reply(416, "head", "no-store", size, asked, size)
              /\ UNCHANGED parts
         ELSE IF multi /\ length > U64Max
         THEN response' = Error(400) /\ UNCHANGED parts
         ELSE /\ response' = Reply(IF selection = Full THEN 200 ELSE 206,
                                   IF bodiless THEN "head" ELSE "sending",
                                   response.cache, size, asked, length)
              /\ parts' = IF bodiless THEN <<>> ELSE ranges
  /\ UNCHANGED <<target, request, body, at>>

\* What stands between the bytes of a multipart body.
PartHeader == -1
Crlf == -2
Closing == -3

Multi == Len(parts) > 1 \/ (body # <<>> /\ body[1] = PartHeader)

\* start: the provider answers the request for the next range, with the size expected. A
\* part's header is sent then.
StartPart ==
  /\ response.kind = "sending" /\ parts # <<>> /\ at.chunk = None
  /\ at' = [offset |-> parts[1].start, chunk |-> parts[1].start \div CHUNK]
  /\ body' = IF Multi THEN Append(body, PartHeader) ELSE body
  /\ UNCHANGED <<target, request, response, parts>>

\* stream_content gets a leaf: what of it is in the range is sent if it is what comes next.
Leaf(c) ==
  /\ response.kind = "sending" /\ parts # <<>> /\ at.chunk # None
  /\ c \in chunks_for(parts[1]) /\ c >= at.chunk
  /\ Decodes(response.blob, response.size, c)
  /\ LET start == larger(c * CHUNK, parts[1].start)
         end == smaller(smaller((c + 1) * CHUNK, response.size), parts[1].end)
     IN  /\ start = at.offset
         /\ body' = body \o [i \in 1 .. end - start |-> start + i - 1]
         /\ at' = [offset |-> end, chunk |-> c + 1]
  /\ UNCHANGED <<target, request, response, parts>>

\* Mutant: the end of the provider's answer is the end of the range.
EndPartEarly ==
  /\ response.kind = "sending" /\ parts # <<>> /\ at.chunk # None
  /\ body' = IF Multi THEN Append(body, Crlf) ELSE body
  /\ parts' = Tail(parts)
  /\ at' = [at EXCEPT !.chunk = None]
  /\ UNCHANGED <<target, request, response>>

\* The provider's answer ends, and with it the range, if all of it was sent.
EndPart ==
  /\ response.kind = "sending" /\ parts # <<>> /\ at.chunk # None
  /\ at.offset = parts[1].end
  /\ body' = IF Multi THEN Append(body, Crlf) ELSE body
  /\ parts' = Tail(parts)
  /\ at' = [at EXCEPT !.chunk = None]
  /\ UNCHANGED <<target, request, response>>

\* The last range was sent.
EndBody ==
  /\ response.kind = "sending" /\ parts = <<>>
  /\ response' = [response EXCEPT !.kind = "sent"]
  /\ body' = IF Multi THEN Append(body, Closing) ELSE body
  /\ UNCHANGED <<target, request, parts, at>>

\* The provider fails, sends another size, ends early or takes too long. Before the first
\* byte of a single range that is an error; later the connection is cut.
Fail ==
  /\ response.kind = "sending"
  /\ IF body = <<>> /\ Len(parts) = 1 /\ at.chunk = None
     THEN response' \in {Error(502), Error(504)}
     ELSE response' = [response EXCEPT !.kind = "cut"]
  /\ UNCHANGED <<target, request, body, parts, at>>

Next ==
  \/ \E url \in Typed : Type(url)
  \/ \E l \in IF response.kind = "listing" THEN Links(request.url, response.blob, response.dir)
              ELSE {} : Follow(l)
  \/ FollowRedirect
  \/ \E b \in Targets : Retarget(b)
  \/ \E r \in IF response.kind = "pending" THEN Route(request.url, target) ELSE {} : Respond(r)
  \/ \E size \in Sizes, method \in {"GET", "HEAD"}, has \in BOOLEAN, header \in Headers :
       ServeBlob(size, method, has, header)
  \/ StartPart \/ EndPart \/ EndBody \/ Fail
  \/ \E c \in 0 .. U64Max : Leaf(c)

Spec == Init /\ [][Next]_vars

----------------------------------------------------------------------------
(* Properties.                                                             *)

\* The bytes that the Range header of a request named.
Asked(r, size) == UNION {Named(r.asked[i], size) : i \in DOMAIN r.asked}
Bytes(ranges) == UNION {r.start .. r.end - 1 : r \in {ranges[i] : i \in DOMAIN ranges}}

\* What a Range header gets is what it names of the blob, whatever overlaps, is open, goes
\* beyond the end or beyond 64 bits, and of a size that was verified (ranges::select, sniff):
\* the bytes of its parts, each once and in order, and 416 only if it names none.
RangesAreExact ==
  response.kind \in {"sending", "sent", "head", "cut"} =>
    LET size == Size[response.blob] IN
        /\ response.size = size
        /\ response.status = 206 /\ body = <<>> /\ at.chunk = None =>
             /\ \A i \in DOMAIN response.asked : WellFormed(response.asked[i])
             /\ Bytes(parts) = Asked(response, size)
             /\ \A i \in 2 .. Len(parts) : parts[i - 1].end < parts[i].start
        /\ response.status = 416 => Asked(response, size) = {}

\* What of the body is bytes of the blob.
Content == {i \in DOMAIN body : body[i] >= 0}
Sent == {body[i] : i \in Content}

\* A body is what its headers promise: its bytes are in order and at every moment the first
\* of those that were asked for, however the provider's answers are cut, and all of them when
\* it ends by itself; then it is as long as Content-Length says (stream_content,
\* multipart_content).
BodyIsPromised ==
  response.kind \in {"sending", "sent"} =>
    LET size == Size[response.blob]
        all == IF response.status = 200 THEN 0 .. size - 1 ELSE Asked(response, size)
    IN  /\ \A i, j \in Content : i < j => body[i] < body[j]
        /\ Sent \subseteq all
        /\ \A b \in Sent, a \in all \ Sent : b < a
        /\ response.kind = "sent" => Sent = all /\ Len(body) = response.length

\* Whether the key still names what it did when the URL was typed.
Unchanged == request.same \/ (request.url # None /\ request.url.route = "blake3")

\* The links of a listing lead to what they show: the directory, its index file or the file,
\* the first of them if several have the name, unless the key was changed, no provider or
\* packet was found or reading failed, and for the root the blob itself if the probe was
\* slow; a redirect leads to no other redirect (listing, Root::link, collection_entry). This
\* leaves out what a collection's names can do to its links: an empty segment, "." or ".." in
\* the path shown or in the listing's own, and a file whose name is that of a directory with
\* its slash. Such links may lead to another place in the collection, to none or out of it.
LinksLead ==
  /\ request.from = "redirect" /\ Unchanged => response.kind # "redirect"
  /\ request.blob # None /\ Unchanged =>
       LET names == Names[request.blob]
           dir == AsDir(request.shows)
           index == Child(dir, "index.html")
       IN  request.plain /\ dir \notin DOMAIN names =>
             /\ response.kind # "elsewhere" /\ response # NoPath
             /\ response.kind = "listing" => response.dir = dir
             /\ response.kind = "blob" =>
                  \/ request.shows \in DOMAIN names /\ response.blob = names[request.shows]
                  \/ index \in DOMAIN names /\ response.blob = names[index]
                  \/ dir = EmptyPath /\ response.blob = request.blob

\* The response to the URL is the only one that it has, whatever the key names and the
\* provider does, but for errors, which no one keeps.
OneResponse ==
  \A named \in Targets : \A r \in Route(request.url, named) : r.kind = "error" \/ r = response

\* The response is kept for good.
Kept == response.cache = "immutable" /\ response.kind \in {"blob", "redirect"}

\* What a browser may keep for good never changes (Caching::Immutable, "the response can
\* never change"): whatever the key names and the provider does, the URL has no other
\* response than this one. This leaves out the URLs of a root, where a slow probe for a
\* collection shows the blob itself.
ImmutableNeverChanges == Kept /\ rewrite(request.url).tail # None => OneResponse
============================================================================
