------------------------------ MODULE ApiRoutes ------------------------------
(***************************************************************************)
(* Four GET endpoints of this slice served by one router:                  *)
(*   get_state_event_for_key  rooms/{room_id}/state/{event_type}/{state_key} *)
(*   get_room_event           rooms/{room_id}/event/{event_id}  ?include_unredacted_content *)
(*   initial_sync             rooms/{room_id}/initialSync       ?limit     *)
(*   federation get_event     federation/v1/event/{event_id}    ?include_unredacted_content *)
(* A client turns a Request into a path and a query string                 *)
(* (try_into_http_request); the router splits the path, finds the          *)
(* endpoint whose path template it matches and hands its handler the       *)
(* percent-decoded captures; try_from_http_request rebuilds the Request    *)
(* from them and the query string.  Clients following MSC2815 send the     *)
(* query flag under its unstable name, which the Request also accepts.     *)
(*                                                                         *)
(* Texts are sequences of characters; literal path words ("rooms",         *)
(* "state", ...) are single elements, since they contain no "/".           *)
(***************************************************************************)
EXTENDS Naturals, Sequences, SequencesExt, TLC

CONSTANTS
  RoomIds,          \* room id texts of the client's OwnedRoomId values
  EventIds,         \* event id texts of its OwnedEventId values
  EventTypes,       \* event type texts
  StateKeys,        \* state key texts, the empty one included
  Limits,           \* usize values of initial_sync's limit
  VersionSets,      \* SupportedVersions the client may be considering
  ValidRoomId(_),   \* the RoomId grammar, run when OwnedRoomId is deserialized
  ValidEventId(_),  \* the EventId grammar
  None              \* no request in flight / no result yet

VARIABLES
  wire,     \* the HTTP request in flight: the client's Request (a history
            \* field), the method, the URI's path text and the query
            \* pairs; or None
  args,     \* the endpoint the router chose and the path arguments; or None
  result    \* the last request served: the client's Request and what
            \* try_from_http_request returned
vars == <<wire, args, result>>

NoneV == [some |-> FALSE]
Some(v) == [some |-> TRUE, val |-> v]
Flags == {NoneV} \cup {Some(b) : b \in BOOLEAN}
\* Err(FromHttpRequestError).
Failed == [error |-> "FromHttpRequestError"]
IsError(x) == "error" \in DOMAIN x

\* The Request type of each endpoint, and its Request::new.
StateRequests ==
  [ep : {"get_state_event_for_key"}, room_id : RoomIds, event_type : EventTypes,
   state_key : StateKeys]
RoomEventRequests ==
  [ep : {"get_room_event"}, room_id : RoomIds, event_id : EventIds,
   include_unredacted_content : Flags]
InitialSyncRequests ==
  [ep : {"initial_sync"}, room_id : RoomIds, limit : {NoneV} \cup {Some(n) : n \in Limits}]
FederationEventRequests ==
  [ep : {"federation_get_event"}, event_id : EventIds, include_unredacted_content : Flags]
Requests == StateRequests \cup RoomEventRequests \cup InitialSyncRequests \cup FederationEventRequests
Endpoints == {"get_state_event_for_key", "get_room_event", "initial_sync",
              "federation_get_event"}

\* The query field of the two event endpoints and its serde alias.
FlagName == "include_unredacted_content"
FlagAlias == "fi.mau.msc2815.include_unredacted_content"

\* Path templates: literal words and named captures.
L(w) == [lit |-> w]
C(n) == [cap |-> n]
ClientPath(p) == <<L("_matrix"), L("client"), L(p), L("rooms"), C("room_id")>>
\* The path template of each endpoint's metadata! history, for the path
\* prefix p of one of its versions.
StateTemplate(p) == ClientPath(p) \o <<L("state"), C("event_type"), C("state_key")>>
RoomEventTemplate(p) == ClientPath(p) \o <<L("event"), C("event_id")>>
InitialSyncTemplate(p) == ClientPath(p) \o <<L("initialSync")>>
FederationEventTemplate(p) == <<L("_matrix"), L("federation"), L(p), L("event"), C("event_id")>>
Template(ep, p) ==
  CASE ep = "get_state_event_for_key" -> StateTemplate(p)
    [] ep = "get_room_event" -> RoomEventTemplate(p)
    [] ep = "initial_sync" -> InitialSyncTemplate(p)
    [] ep = "federation_get_event" -> FederationEventTemplate(p)

\* metadata! history of each endpoint: version => path prefix.
History(ep) ==
  IF ep = "federation_get_event" THEN [v1_0 |-> "v1"] ELSE [v1_0 |-> "r0", v1_1 |-> "v3"]
PathPrefixes(ep) == {History(ep)[v] : v \in DOMAIN History(ep)}

\* make_endpoint_url's choice of path: the path of the newest stable
\* version of the history that the client supports; none when the client
\* supports no version of it.
SelectPrefix(ep, vs) ==
  IF "1.1" \in vs /\ "v1_1" \in DOMAIN History(ep) THEN History(ep).v1_1 ELSE History(ep).v1_0
Supported(vs) == vs \cap {"1.0", "1.1"} # {}

\* Path-segment percent-encoding of make_endpoint_url: "/", "%" and "?"
\* are escaped, every other character of the model passes unchanged.
Reserved == {"/", "%", "?"}
EscapeOf(c) == CASE c = "/" -> <<"2", "F">> [] c = "%" -> <<"2", "5">> [] c = "?" -> <<"3", "F">>
EncodeChar(c) == IF c \in Reserved THEN <<"%">> \o EscapeOf(c) ELSE <<c>>
Encode(s) == FlattenSeq([i \in DOMAIN s |-> EncodeChar(s[i])])

\* The router's percent-decoding of one captured segment.
RECURSIVE Decode(_)
Decode(s) ==
  IF s = <<>> THEN <<>>
  ELSE IF s[1] = "%" /\ Len(s) >= 3 /\ \E c \in Reserved : EscapeOf(c) = <<s[2], s[3]>>
       THEN <<CHOOSE c \in Reserved : EscapeOf(c) = <<s[2], s[3]>>>> \o Decode(SubSeq(s, 4, Len(s)))
       ELSE <<s[1]>> \o Decode(Tail(s))

\* http's Uri::path: the URI up to its first "?", which starts the query.
UriPath(u) ==
  IF \A i \in DOMAIN u : u[i] # "?" THEN u
  ELSE SubSeq(u, 1, (CHOOSE i \in DOMAIN u : u[i] = "?" /\ \A j \in 1..(i - 1) : u[j] # "?") - 1)

\* The path split at every "/".
RECURSIVE Split(_)
Split(s) ==
  IF \A i \in DOMAIN s : s[i] # "/" THEN <<s>>
  ELSE LET k == CHOOSE i \in DOMAIN s : s[i] = "/" /\ \A j \in 1..(i - 1) : s[j] # "/"
       IN <<SubSeq(s, 1, k - 1)>> \o Split(SubSeq(s, k + 1, Len(s)))

\* make_endpoint_url: the template with each capture replaced by the
\* encoded path argument of that name, joined by "/".
EndpointPath(ep, p, r) ==
  LET t == Template(ep, p)
      Item(x) == IF "lit" \in DOMAIN x THEN <<x.lit>> ELSE Encode(r[x.cap])
  IN FlattenSeq([i \in DOMAIN t |-> IF i = 1 THEN Item(t[i]) ELSE <<"/">> \o Item(t[i])])

\* The query string, as its key/value pairs: serde_html_form of the
\* Request's query fields, each skip_serializing_if = "Option::is_none".
BoolText(b) == IF b THEN "true" ELSE "false"
QueryOf(r, name) ==
  CASE r.ep \in {"get_room_event", "federation_get_event"} ->
         IF r.include_unredacted_content.some
         THEN <<[key |-> name, val |-> BoolText(r.include_unredacted_content.val)]>>
         ELSE <<>>
    [] r.ep = "initial_sync" ->
         IF r.limit.some THEN <<[key |-> "limit", val |-> ToString(r.limit.val)]>> ELSE <<>>
    [] OTHER -> <<>>

-----------------------------------------------------------------------------
(* The server side.                                                        *)

\* The captures of path segments seg for a template t of the same length
\* whose literal words they match, in template order.
MatchesTemplate(seg, t) ==
  Len(seg) = Len(t) /\ \A i \in DOMAIN t : "lit" \in DOMAIN t[i] => seg[i] = <<t[i].lit>>
Captures(seg, t) ==
  FlattenSeq([i \in DOMAIN t |-> IF "cap" \in DOMAIN t[i] THEN <<Decode(seg[i])>> ELSE <<>>])

\* Every (endpoint, path arguments) the router may pick for a path: a
\* matching template's captures, and, when its last segment is an empty
\* capture, the captures without it, as routers that drop an empty last
\* segment do.
RouteChoices(path) ==
  LET seg == Split(path)
      hits == {[ep |-> e, t |-> Template(e, p)] : e \in Endpoints, p \in UNION {PathPrefixes(x) : x \in Endpoints}}
      ok == {h \in hits : MatchesTemplate(seg, h.t)}
  IN {[ep |-> h.ep, args |-> Captures(seg, h.t)] : h \in ok}
     \cup {[ep |-> h.ep, args |-> Front(Captures(seg, h.t))] :
             h \in {x \in ok : "cap" \in DOMAIN Last(x.t) /\ Last(seg) = <<>>}}

\* The derived Deserialize of a query field (serde_html_form): absent is
\* None; the field under its name or an alias is parsed; a second
\* occurrence is a duplicate field.  Unknown keys are ignored.
QueryField(q, names) ==
  LET at == {i \in DOMAIN q : q[i].key \in names}
  IN IF at = {} THEN NoneV
     ELSE IF \E i, j \in at : i # j THEN Failed
     ELSE Some(q[CHOOSE i \in at : TRUE].val)
\* bool's Deserialize from a query value.
ParseBool(s) ==
  IF s = "true" THEN Some(TRUE) ELSE IF s = "false" THEN Some(FALSE) ELSE Failed
\* usize's FromStr, over the texts of the model's limits.
ParseUsize(s) ==
  IF \E n \in Limits : ToString(n) = s THEN Some(CHOOSE n \in Limits : ToString(n) = s) ELSE Failed

\* A present field's text parsed as a bool or a usize; an absent field or
\* an error is kept.
ParseField(v, ty) ==
  IF IsError(v) \/ ~v.some THEN v
  ELSE IF ty = "bool" THEN ParseBool(v.val) ELSE ParseUsize(v.val)
\* include_unredacted_content: Option<bool> with
\* alias = "fi.mau.msc2815.include_unredacted_content".
FlagField(q) == ParseField(QueryField(q, {FlagName, FlagAlias}), "bool")

\* limit: Option<usize>, a query field.
LimitField(q) == ParseField(QueryField(q, {"limit"}), "usize")

\* Plausible fault: without the FIXME's else branch, the handler always
\* deserializes three path arguments.
TryFromHttpRequestThreeOnly(m, a) ==
  IF m # "GET" \/ Len(a) # 3 \/ ~ValidRoomId(a[1]) THEN Failed
  ELSE [ep |-> "get_state_event_for_key", room_id |-> a[1], event_type |-> a[2],
        state_key |-> a[3]]
\* get_state_event_for_key's try_from_http_request: check_request_method,
\* then three path arguments deserialized as (OwnedRoomId, StateEventType,
\* String), or otherwise two deserialized as (OwnedRoomId, StateEventType)
\* with state_key "".  The SeqDeserializer fails on too few or too many
\* arguments; OwnedRoomId's Deserialize runs the validator; any string is a
\* StateEventType.
TryFromHttpRequest(m, a) ==
  IF m # "GET" \/ Len(a) \notin {2, 3} \/ ~ValidRoomId(a[1]) THEN Failed
  ELSE [ep |-> "get_state_event_for_key", room_id |-> a[1], event_type |-> a[2],
        state_key |-> IF Len(a) = 3 THEN a[3] ELSE <<>>]

\* The try_from_http_request #[request] derives for the other endpoints:
\* check_request_method, the path fields from exactly as many path
\* arguments, each id validated, then the query fields.
RequestFromHttp(ep, m, a, q) ==
  CASE m # "GET" -> Failed
    [] ep = "get_room_event" ->
         IF Len(a) # 2 \/ ~ValidRoomId(a[1]) \/ ~ValidEventId(a[2]) \/ IsError(FlagField(q))
         THEN Failed
         ELSE [ep |-> ep, room_id |-> a[1], event_id |-> a[2],
               include_unredacted_content |-> FlagField(q)]
    [] ep = "initial_sync" ->
         LET lim == LimitField(q)
         IN IF Len(a) # 1 \/ ~ValidRoomId(a[1]) \/ IsError(lim) THEN Failed
            ELSE [ep |-> ep, room_id |-> a[1], limit |-> lim]
    [] ep = "federation_get_event" ->
         IF Len(a) # 1 \/ ~ValidEventId(a[1]) \/ IsError(FlagField(q)) THEN Failed
         ELSE [ep |-> ep, event_id |-> a[1], include_unredacted_content |-> FlagField(q)]
    [] ep = "get_state_event_for_key" -> TryFromHttpRequest(m, a)

-----------------------------------------------------------------------------

Init == wire = None /\ args = None /\ result = None

\* A client sends Request r, considering the versions vs, with the query
\* flag under the name flagKey: ruma's try_into_http_request uses the field
\* name, an MSC2815 client the unstable alias.  With no supported version
\* make_endpoint_url fails and nothing is sent.
Send(r, vs, flagKey) ==
  /\ wire = None /\ args = None
  /\ Supported(vs)
  /\ wire' = [req |-> r, method |-> "GET", path |-> EndpointPath(r.ep, SelectPrefix(r.ep, vs), r),
              query |-> QueryOf(r, flagKey)]
  /\ UNCHANGED <<args, result>>

\* The router picks an endpoint whose template the path matches and hands
\* its handler the path arguments.
Route ==
  /\ wire # None /\ args = None
  /\ \E c \in RouteChoices(UriPath(wire.path)) : args' = c
  /\ UNCHANGED <<wire, result>>

\* The server runs the endpoint's handler on the routed request.
Serve ==
  /\ args # None
  /\ result' = [sent |-> wire.req, got |-> RequestFromHttp(args.ep, wire.method, args.args, wire.query)]
  /\ wire' = None /\ args' = None

Next ==
  \/ \E r \in Requests, vs \in VersionSets, k \in {FlagName, FlagAlias} : Send(r, vs, k)
  \/ Route
  \/ Serve

Spec == Init /\ [][Next]_vars

-----------------------------------------------------------------------------

\* Every request reaches the handler of the endpoint it was sent to, and
\* the server reads back exactly the Request the client sent: ids and keys
\* holding "/" or "%", the empty state key whichever argument list the
\* router hands over, the query flag under either of its names, and an
\* absent limit or flag.
RoundTrip == result # None => result.got = result.sent

=============================================================================
