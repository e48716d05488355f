# TLA+ models of ruma: identifiers, server ACLs and endpoints

This directory holds TLA+ specifications of this repository's code, and the TLC
configurations that check them. The repository is a slice of ruma: the
`ruma_id` procedural macro that generates identifier types
(`src/crates/ruma-macros/src/identifiers.rs`), the `m.room.server_acl` event
content (`src/crates/ruma-events/src/room/server_acl.rs`), and some client and
federation endpoint definitions.

## The system and its parts

| Part | Source | State and operations | Module |
|---|---|---|---|
| Identifier ownership forms | `identifiers.rs` `expand_id_dst`, `expand_owned_id` | For each identifier kind `Id`, the macro generates `OwnedId` (a `SmallVec<[u8; inline_bytes]>`, inline or spilled to the heap), plus conversions between `Box<Id>`, `Rc<Id>`, `Arc<Id>`, `String` and `Box<str>`. These use unsafe pointer casts (`from_box`, `from_rc`, `from_arc`, `into_owned`, `into_box`). | `IdHandles` |
| Checked entry points | `expand_checked_impls` | `parse`, `parse_box`, `parse_rc` and `parse_arc` run the grammar validator and then construct the id. `Deserialize`, `FromStr` and `TryFrom` call them. `Deserialize for &Id` and the `TryFrom` impls for JSON values build borrowed views of the input. | `IdHandles`, `IdJson` |
| Unchecked entry points | `expand_unchecked_impls` | `From<&str>`, `From<String>` and `From<Box<str>>`, `Box<Id>` into `Box<str>`, and `Deserialize` (for `&Id` without validation). | `IdHandles`, `IdJson` |
| Wildcard matching | the `wildmatch` crate, called by `server_acl.rs` `matches` | A pure function: `*` matches any run and `?` matches one character. Outside `src/`. | `WildMatch` (its documented rule) |
| Server ACL | `server_acl.rs` | The content (`allow_ip_literals`, `allow`, `deny`) with serde defaults and skip rules, and `is_allowed` with `allow_matches`, `deny_matches` and `matches`. | `ServerAcl` |
| Comparison, hashing and serialization | `identifiers.rs` 216-242, 385-477, 792-845 | Read-only. `PartialEq`, `Ord` and `Hash` all work on `as_str()`; `Display` and `Debug` only format it; `Serialize` writes it as a JSON string. | `IdJson` (`Serialize`); the rest not modelled |
| `ruma_id` attribute parsing | `identifiers.rs` 26-57, 847-899 | Compile time: each `#[ruma_id(...)]` is parsed as a list of `IdDstMeta`, the metas are merged (a repeated argument is an error), and the kind's validator and `inline_bytes` are read off. | `IdDstMeta` |
| Sharing an `Arc<Id>` between threads | `identifiers.rs` `From<&Id> for Arc<Id>`, `from_arc`, `From<Arc<Id>> for OwnedId` | An owner creates the Arc and hands clones to threads; each holder copies the bytes into an `OwnedId` or drops its clone; std's `Arc` drop frees the buffer on the last decrement. | `IdArcShare` (detailed), `SharedId` (abstract) |
| GET endpoint routing | `get_state_event_for_key.rs`, `get_room_event.rs`, `initial_sync.rs`, federation `get_event.rs` | The client builds each endpoint's path and query string; the server's router picks the endpoint whose path template matches, and the endpoint's `try_from_http_request` rebuilds the request. The state endpoint takes 3 path arguments, or else 2 with an empty state key. The event endpoints accept the MSC2815 query flag under its stable name or its alias. | `ApiRoutes` |
| Signing-key upload body | `upload_signing_keys.rs` | The `Request` serde, where `or_empty` is an untagged deserializer that maps `{}` to `None`. | `UploadSigningKeys` |
| Endpoint responses, benches | the `Response` types, `benches/event_serde.rs` | Body wrappers, or a benchmark harness. | not modelled |

The parts interact in one direction only. Endpoints carry identifiers (`OwnedRoomId` and `OwnedEventId` in paths, validated when the server deserializes them). Server names in an ACL are
`ServerName` identifiers, but the ACL module only needs their host and
whether they are IP literals. Those come from `ruma-common`, which is outside
`src/`, so they are modelled from the spec.

## Modules

### `IdHandles`: the generated identifier code

**State.**

- `heap` is an append-only sequence of allocations. Each record has:
  - `kind`: `buf`, `rc` or `arc`;
  - `live`, `bytes` and `cap`;
  - `strong`, the Rc/Arc count;
  - `frees`, the number of times it was freed.

  Freed allocations stay in the sequence, so a dangling pointer or a double
  free remains visible.
- `hold` maps a set `Slots` of program variables to the value each holds:
  - `form`: `Owned`, `Box`, `Rc`, `Arc`, `Str` (a `String` or `Box<str>`) or `none`;
  - `ptr`: an allocation, or 0 for an inline `OwnedId`;
  - `inl`: the inline bytes;
  - `len`: the length;
  - `origin`: a history variable with the text the value was first made from.

**Helpers.** Each one is what the code does:

- `FromSlice` is `SmallVec::from(&[u8])` (smallvec is outside `src/`, so it is modelled from its documentation): inline when the length is at most `InlineBytes`, otherwise a heap buffer.
- `FromVec` is `SmallVec::from_vec`: inline when the *capacity* is at most `InlineBytes`; then the Vec is freed.
- `IntoOwned` is `Id::into_owned`.
- `FromShared` is `from_rc`/`from_arc`, a cast that keeps the count.
- `ViewIn` is `as_str()`, which reads the bytes through the pointer. A freed allocation reads as junk.

**Actions.** There is one action per generated function, and each action models the whole function:

- validation;
- the copy or cast;
- dropping the consumed argument at the end of the function.

The caller's own steps are actions too: `MakeString` (a `String` of some capacity), `CloneShared` and `Drop`.

### `IdDstMeta`: the `ruma_id` attribute

Pure operators over token sequences (identifiers, `=`, `,` and integer literals):

- `ParseMeta` is `Parse for IdDstMeta`: `validate = Path`, then an optional `,`, an optional `inline_bytes` keyword, an optional `=` and an optional literal, which is parsed with `expect` (a literal beyond `usize` is `Panicked`).
- `ParseTerminated` is `Punctuated::parse_terminated`.
- `MergeArg` and `Merge` are `IdDstMeta::merge`; a repeated argument is an error. `MergeAll` and `ExpandMeta` are `expand_id_dst`'s `try_fold`s over metas and attributes. `KindConfig` is the configuration read off the result: the validator and `inline_bytes`, defaulting to 32.

`MC_IdDstMeta` enumerates every attribute of up to 7 tokens, built one token at a time, and lists of two attributes drawn from longer samples. `ExpandHonoursArguments` compares what expansion configures with the metas of a reference set of attribute texts. The parse is not checked on its own: its only statement is the parser itself.

### `IdArcShare`: one `Arc<Id>` shared between threads

**State.** The strong `count`, whether the buffer is `live`, the number of `frees`, and per thread: whether it `holds` a handle, its program `prog`, its `pc`, and the value `old` its `fetch_sub` returned.

**Actions.**

- `Create`: `From<&Id> for Arc<Id>`; `Arc::<str>::from` allocates with count 1 and `from_arc` moves the pointer (`FromArc`).
- `Clone(t, w)`: a holder clones its handle and hands the clone to worker `w` (spec section 8: threads clone concurrently). The owner clones while it shares; a worker clones before its own first step. The new holder will run `IntoOwnedSteps` (`From<Arc<Id>> for OwnedId`: copy the bytes, then drop) or `DropSteps`. `EndShare`: the owner stops sharing.
- `Copy`, `Dec` (`fetch_sub`) and `Release` (free when `fetch_sub` returned 1, `LastHolder`) are the steps of a holder; a drop is split in two so that other threads interleave between the decrement and the test.

`Arc`'s drop is std's code, outside `src/`, and is modelled from its documented behaviour.

### `SharedId`: what a shared `Arc<Id>` promises

The abstract specification has the set of `holders`, whether the text is `alive`, how many times it was `freed`, and the threads that `copied` it. `Make`, `Share`, `Read` and `Drop` are atomic, and the `Drop` of the last holder frees the text in the same step.

`IdArcShare` implements it under the mapping `Abstract`: holders are the threads with `holds`, `copied` the threads past their copy step, and a thread whose `fetch_sub` returned 1 (`PendingFree`) counts as having freed the text already. So `Dec` of the last holder is the abstract `Drop` that frees, and the later `Release` is a stuttering step.

### `IdJson`: identifiers in and out of JSON

A pure module: every operator takes a JSON value and gives a result, `Ok(text)` or `Err(...)`. The ownership side of the same calls is in `IdHandles`. A JSON value is a record: a string token has its `text` and whether its source spells any character `escaped`; `null`, a number, an object and, for the `Option` impls, `missing` have only a `kind`.

- `StringDe` and `BorrowedStrDe` are serde_json's `String` and `&'de str` deserializers. They live outside `src/`. The borrowed one fails on a token with escapes, because the text is then unescaped into a scratch buffer and cannot be borrowed from the input. `Serialize` is `serialize_str(self.as_str())`, with serde_json escaping the characters in `EscapedChars`.
- `DeserializeOwning` (`Box<Id>`, `OwnedId`), `DeserializeRef` (`&Id`, validated through `Validated`), `TryFromStr`, and `TryFromValue` (the four `TryFrom` impls for `&Value`, `&CanonicalJsonValue` and their `Option`s, via `AsStr`, which is `as_str().unwrap_or_default()`) are the checked kind's impls. `DeserializeRefUnchecked` is the unchecked `&Id` impl.

`MC_IdJson` has one variable, `input`. `Init` holds `null`, a number, an object, no value and the empty string token. `AddChar` appends a character, written escaped when serde_json must escape it and optionally otherwise (`\/`, `\uXXXX`).

### `UploadSigningKeys`: the signing-key upload body

**Values.** JSON values are model values from four sets:

- objects that `AuthData` accepts;
- other objects, including `{}`;
- scalars;
- `null`.

A missing field is `Absent`.

**Operators.**

- `OrEmpty` is `or_empty`. `null` gives `None`. Otherwise the untagged variants are tried in order: `NotEmpty(AuthData)` first, then `Empty {}`, which accepts any object.
- `DeserializeRequest` and `SerializeRequest` are the derived serde impls of `Request`, with its `default` and `skip_serializing_if` attributes.
- `MC_UploadSigningKeys` checks every request and every body of the model.

### `WildMatch`: the wildcard matcher

`Glob(p, s)` is the rule of the `wildmatch` crate, which is outside `src/`, as `server_acl.rs` 30-33 documents it: `*` matches any run, `?` one character, a literal itself. `ServerAcl` uses it; nothing checks it on its own, since it is not code of this repository.

### `ServerAcl`: the server ACL event

**State.**

- `acl` is the current content.
- `last` is the last `is_allowed` decision: the server and the result.

**Actions.**

- `ReceiveAcl(j)` deserializes a JSON object `j`.
  - Each field may be absent (model value `Absent`), so the serde defaults apply.
  - It clears `last`.
- `CheckServer(sn)` calls `is_allowed` for a server name that has a host and, optionally, a port.

## Runs

| Run | Module / cfg | Expect | Properties | What it shows |
|---|---|---|---|---|
| `id_checked` | `MC_IdHandles` / `MC_IdChecked.cfg` | pass | `MemorySafe`, `ContentPreserved`, `ValidIds`, `StorageModeByLength` | Covers a checked RoomId-like kind (validator in `MCValidate`): every sequence of parses, conversions, clones and drops over three slots. No use after free, no double free, and an Rc/Arc count equal to its holders. Every value reads as the text it was made from, and every held id is valid. An `OwnedId` is inline exactly when its length is at most `InlineBytes`. |
| `id_unchecked` | `MC_IdHandles` / `MC_IdUnchecked.cfg` | pass | `MemorySafe`, `ContentPreserved` | The same for an unchecked kind, including the `String`/`Box<str>` hand-overs. |
| `id_storage_mode` | `MC_IdHandles` / `MC_IdStorageMode.cfg` | violation | `StorageModeByLength` | The steps are `MakeString(<<a,a>>, cap 3)` and then `From<String>`. With `InlineBytes = 2`, this stores a 2-byte `OwnedId` on the heap. |
| `api_routes` | `MC_ApiRoutes` / `MC_ApiRoutes.cfg` | pass | `RoundTrip` | Every request of the four endpoints reaches its own endpoint's handler, and the server rebuilds exactly the client's request, whichever argument list the router produces. This includes the empty state key, ids and keys that contain `/` or `%` or look like an escape (`%2F`), the query flag under either name, and absent query fields. |
| `id_meta` | `MC_IdDstMeta` / `MC_IdDstMeta.cfg` | pass | `ExpandHonoursArguments` | Across every attribute of up to 7 tokens and lists of several attributes, expansion fails exactly when an argument is repeated, and otherwise configures the kind as written. |
| `id_meta_unchecked` | `MC_IdDstMeta` / `MC_IdDstMetaUnchecked.cfg` | violation | `UncheckedInlineBytes` | `#[ruma_id(inline_bytes = 8)]` alone is a parse error, so an unchecked kind cannot set its inline capacity. |
| `id_arc_share` | `MC_IdArcShare` / `MC_IdArcShare.cfg` | pass | `TypeOK`, `FreedOnceWhenUnheld`, `EventuallyFreed`, `ImplementsSharedId` | With an owner and three workers, in every interleaving: the threads' steps implement `SharedId` (a thread reads the bytes only while it holds a handle, so never after the free; the last drop frees exactly once), the count equals the holders while the buffer lives, it is freed at most once and only when nobody holds it, and it is eventually freed. |
| `upload_signing_keys` | `MC_UploadSigningKeys` / `MC_UploadSigningKeys.cfg` | pass | `RequestRoundTrip`, `EmptyAuthIsNone` | Every request round-trips. A missing, `null` or `{}` auth reads as `None`, not as an error. |
| `id_json` | `MC_IdJson` / `MC_IdJson.cfg` | pass | `OnlyValidStringsBecomeIds`, `EntryPointsAgree` | Over every JSON value (all string tokens of up to 5 characters, escaped or not, and every other kind), a checked entry point yields an id only from a string token, with exactly its text, and only when it validates; null, numbers, objects and missing values become `""` and are refused by the validator. On a token without escapes the owned, borrowed and `TryFrom<&Value>` entry points give the same result as `TryFrom<&str>`. |
| `id_json_borrowed` | `MC_IdJson` / `MC_IdJsonRoundTrip.cfg` | violation | `SerializedIdsDeserialize` | The valid id `!a:"` is serialized as `"!a:\""`, and `Deserialize for &Id` refuses that token. |
| `server_acl` | `MC_ServerAcl` / `MC_ServerAcl.cfg` | pass | `AclTypeOK`, `SerdeRoundTrip` | The defaults of `Deserialize` give a well-formed content for every event JSON, and `Serialize` then `Deserialize` gives back every content. |

**Finding.** `id_meta_unchecked` checks what the spec says (sections 3 and 4.6): every kind has an inline capacity that defaults to 32 and can be overridden. `Parse for IdDstMeta` (`identifiers.rs:886`) requires `validate = ...` first in every meta, so only checked kinds can set `inline_bytes`.

**Finding.** `id_json_borrowed` checks what the spec says (section 6): deserializing a checked kind re-runs the validator and fails only when it does. `Deserialize for &Id` (`identifiers.rs:582`) reads the text with `<&'de str>::deserialize`, which serde_json can give only for a token without escapes. A valid id containing a quote or a backslash (a RoomId's local part may), or any valid id a producer wrote with `\/` or `\u` escapes, fails with "expected a borrowed string". The `Box` and `OwnedId` impls accept it. The unchecked `&Id` impl has the same limit, against the spec's "accepts any UTF-8 text as-is".

**Finding.** `id_storage_mode` checks a property that the code does not have.

- The spec says an owned identifier is stored inline exactly when its length is at most the threshold.
- The unchecked `From<String>` (`identifiers.rs:727`) hands the String's buffer to `SmallVec::from_vec`. That keeps it on the heap whenever its *capacity* is above the threshold.
- Content and memory safety are not affected (`id_unchecked` passes); only the storage mode is.
- Checked kinds never take this path: they always copy, through `parse`. So `StorageModeByLength` holds in `id_checked`.

## Bounds and why they are enough

- **Identifier runs.**
  - `InlineBytes` is 4 for checked kinds and 2 for unchecked ones. The inputs include texts of exactly `InlineBytes` bytes and of `InlineBytes + 1` bytes, so both storage modes and the boundary between them are reached.
  - `MaxStrCap` gives a `String` spare capacity above the threshold.
  - Three slots are enough for an Arc with two holders plus a third value. That is the smallest setting in which "last holder" and "not last holder" both occur for `From<Arc>`, and in which a copy outlives its source.
  - `MaxAllocs = 3` bounds the heap. Every action that allocates checks this bound, so no action fires past it.
  - `SYMMETRY` on `Slots` is sound because no property or definition names a particular slot.
  - The checked inputs include one invalid text. It has no sigil, so `TryFrom<String>`'s error path is taken.
- **`api_routes`.** There are two room ids (one whose local part contains `/`), two event ids (one with `/`), two event types (one with `%`), five state keys (empty, plain, ending in `/`, holding `?`, and the literal text `%2F`), limits 0 and 10, and every value of the query flag. Each request is sent under r0-only, v3-only and r0+v3 version sets, with the flag under each name, and with a set that has no stable version, in which case nothing is sent. So both router behaviours meet both kinds of last segment, every reserved character passes through encoding once (the encoding and the router's decoding are outside `src/` and modelled as an inverse pair, so these cases check the endpoints' use of them, not the escaping itself), and every endpoint's paths meet every other endpoint's templates. Deadlock is checked: a path no template matches would stop the run.
- **`id_meta`.** Tokens are the two keywords, one other identifier `f`, `=`, `,`, and two literals (`8` and one beyond `usize`). Seven tokens hold a full meta (`validate = f, inline_bytes = 8`); the samples add two metas in one attribute, two attributes, and the overflowing literal.
- **`id_arc_share`.** An owner and three workers: enough for the last decrement to be any thread's, for two drops to interleave between decrement and test, and for a copy to race every other drop.
- **`upload_signing_keys`.** The model has two `AuthData` objects, `{}`, an object `AuthData` rejects, a scalar, `null` and a missing field. Those are all the cases `or_empty` and the `Option` fields tell apart.
- **`id_json`.** Characters `!`, `:`, `a` and the quote, up to 5 of them: the shortest valid texts have 4, a quote can sit in the local part or the server part, and every string has both an escaped and an unescaped spelling where serde_json allows it. The other JSON kinds are one value each, since the code only asks `as_str()`.
- **`server_acl`.**
  - Lists have up to 2 patterns: `*`, `*.b`, `a`, and the IP `1`.
  - The hosts are a plain name (`a`), two dotted names, and an IP literal, each with and without a port.
  - So allow-only, deny-only and both-match cases all occur, and so do the IP-literal rule and the default of every field.

## Fairness

Only `IdArcShare` checks liveness. Its specification has weak fairness for each thread's own steps (`WF_vars(Run(t))`): none of those steps blocks (a copy, an atomic `fetch_sub`, a free), so a thread that has a step left gets to run it. Handing out clones is the holders' choice, so `Clone` is not fair.

The other modules check safety only.

- Each of their operations is a synchronous function call made by the program. Nothing in this code waits or retries.
- In `IdHandles`, the `Arc` count is atomic (`std::sync::Arc`), so modelling each call as one atomic step, interleaved in any order between slots, covers threads that hold clones. `IdArcShare` splits the drop to show that this is enough.
- `Rc` is `!Send`, so its holders are all on one thread.

## What is not modelled, and why

- **Borrowed views (`&Id`).** They change no state. The model reads them inside the actions as `as_str()`.
- **Comparison, ordering and hashing.** Every `PartialEq`, `Ord` and `Hash` impl works on `as_str()`. A model of them is a function of the same text, so any property about them holds by the definitions' shape; they are left out. `Display` and `Debug` only write `as_str()` for people to read. `Serialize` is an operator of `IdJson`.
- **An abstract spec for `IdHandles`.** Seen through `as_str()`, the only promises are that a value's text is the caller's text and that a checked id is valid; `ContentPreserved` and `ValidIds` state them directly, so a refinement would repeat them.
- **The attribute parse on its own.** The intended grammar is stated nowhere but in the parser, so a reference would agree by construction.
- **The `is_allowed` decision rule.** It is three guards of one function; a model of it restates them, and the crate's `acl_ignores_port` test already covers the port.
- **serde_json.** It lives outside `src/`; `IdJson` keeps the two rules the impls depend on (only a string token deserializes as a string, and only an unescaped one can be borrowed) and which characters its serializer escapes.
- **The grammar validators.** They live outside `src/`. `MCValidate` is a RoomId-like grammar taken from the spec.
- **`allow_contains`, `deny_contains`, `allow_is_empty`, `deny_is_empty` (`server_acl.rs` 79-110).** Read-only list queries that nothing in `src/` calls and no decision depends on; `is_allowed`, which is the ACL's logic, is modelled.
- **Endpoint `Response` types and the benchmark.** They wrap bodies (raw JSON, `single_element_seq` for `pdus`) and have no logic of their own.
- **`AuthData`'s own deserializer, `make_endpoint_url`, the router and `serde_html_form`.** They live outside `src/`. Each is reduced to what the modules above need: a set of accepted objects, path choice with percent-encoding, segmentation with decoding, and query pairs.
- **A malformed `auth` object.** `or_empty` reads it as `None`, because `Empty {}` accepts any object. This is a hazard without a property, since neither the code nor the spec says what should happen.

## Plan

1. `IdHandles`. Done.
2. `WildMatch` and `ServerAcl`. Done.
3. `StateKeyRoute` (since generalised into `ApiRoutes`), `UploadSigningKeys`, and cross-form comparison in `IdHandles`. Done.
4. `IdDstMeta` parsing and merge, checked against a reference grammar. Done.
5. `IdArcShare`, concurrent `Arc` holders with a split drop and liveness. Done.
6. `ApiRoutes`, all four GET endpoints behind one router (replacing the state-event-only model). Done.
7. `SharedId` and the refinement of `IdArcShare`. Done.
8. `IdJson`, the JSON entry points of both kinds, and the `&Id` round-trip finding. Done.
9. Properties that held by their definitions' shape were removed: `ContentOnlyComparison`, `Refines` (and `IdValues`), `ParseAgreesWithGrammar`, `GlobAgreesWithRule` (and its run), `DecisionFollowsRule` and `PortIgnored`. Done.
10. Next: larger router bounds.
