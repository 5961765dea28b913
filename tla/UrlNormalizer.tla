--------------------------- MODULE UrlNormalizer ---------------------------
(***************************************************************************)
(* normalize_url.  A URL is the record of its parts as urlparse and        *)
(* parse_qs split it: the labels of its host, its port (NoPort: not        *)
(* named), what stands between the slashes of its path, and its query as   *)
(* pairs of a key and a value.  "" is no path, <<"">> is "/", and          *)
(* <<"a", "">> is "/a/".                                                   *)
(*                                                                         *)
(* Operators named Fault... are not part of the specification.             *)
(***************************************************************************)
EXTENDS Naturals, Sequences, SequencesExt

CONSTANTS
  Lower,     \* labels of hosts in lower case
  Params,    \* keys of queries, sorted
  Tracking   \* the keys of _STRIP_PARAMS, in whatever case

NoPort == 0

Lowered(host) == [i \in DOMAIN host |-> Lower[host[i]]]

(* The first www. of a host goes. *)
Bare(host) == IF Len(host) > 1 /\ Head(host) = "www" THEN Tail(host) ELSE host

NamesDefaultPort(u) == u.port = IF u.scheme = "https" THEN 443 ELSE 80

Segments(path) == SelectSeq(path, LAMBDA s : s # "")

(* Slashes are not doubled, and the last one goes, unless it is the path. *)
Path(path) == IF Segments(path) = <<>> /\ path # <<>> THEN <<"">> ELSE Segments(path)

ValuesOf(query, key) == SelectSeq(query, LAMBDA p : p[1] = key)

FaultQuery(query) == SelectSeq(query, LAMBDA p : p[1] \notin Tracking)

(* By key; the values of one key stay in order. *)
Query(query) ==
  FlattenSeq([i \in DOMAIN Params |-> IF Params[i] \in Tracking THEN <<>> ELSE ValuesOf(query, Params[i])])

Normalize(u) ==
  [scheme |-> u.scheme,
   host |-> Bare(Lowered(u.host)),
   port |-> IF NamesDefaultPort(u) THEN NoPort ELSE u.port,
   path |-> Path(u.path),
   query |-> Query(u.query),
   fragment |-> ""]

-----------------------------------------------------------------------------
(* What two spellings of one page have in common.                          *)

Port(u) == IF u.port # NoPort THEN u.port ELSE IF u.scheme = "https" THEN 443 ELSE 80

SamePage(u, v) ==
  /\ u.scheme = v.scheme /\ Port(u) = Port(v)
  /\ Bare(Lowered(u.host)) = Bare(Lowered(v.host))
  /\ Segments(u.path) = Segments(v.path)
  /\ \A key \in Range(Params) \ Tracking : ValuesOf(u.query, key) = ValuesOf(v.query, key)

=============================================================================
