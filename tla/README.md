# MESHWARDEN in TLA+

MESHWARDEN is a mesh of nodes that identify each other by Ed25519 keys. The code
present in this repository is its lowest layer: a frame envelope and payload
codec (`mw-proto`), framed transport over a TLS 1.3 stream (`mw-transport`),
identity-bound capability certificates (`mw-identity`) and the crypto boundary they
stand on (`mw-crypto`). Everything above it
(sessions, trust, tasks, ...) is a stub or a scaffold so far. This directory holds
TLA+ models of that layer, the TLC runs that check them and TLAPS proofs of every
invariant and action property the runs check.

Contents: [inventory](#inventory), [modules](#modules-and-code),
[runs](#runs), [bounds](#bounds), [fairness](#fairness), [proofs](#proofs),
[limits](#what-is-only-model-checked-and-what-is-not-modelled), [plan](#plan).

## Inventory

| part | state it keeps | operations | talks to |
|---|---|---|---|
| frame envelope, `mw-proto/frame.rs` | none | `encode`, `decode`, `decode_prefix` | the channel |
| framed channel, `mw-transport/channel.rs` | `stream`, `read_buf`; a future per running call | `send`, `recv`, `into_inner` | the envelope, an async byte stream |
| violation channel, `mw-proto/bounded.rs` | thread-locals `VIOLATION`, `SCOPE_DEPTH` | `record_violation`, `ViolationScope`, `decode_exact` | the visitors of the bounded types |
| bounded types, `mw-proto/bounded.rs` | none | constructors, serde impls | postcard, the violation channel |
| messages, `mw-proto/hello.rs`, `auth.rs` | none | `to_bytes`, `from_bytes`; the lists of a `Hello`; `AuthTranscriptV1` | bounded types, algorithm registry |
| certificate, `mw-identity/cert.rs` | its fields, all public | `sign`, `verify`, `to_wire_bytes`, `from_wire_bytes`, capability queries | keys, node ids, `decode_exact` |
| node id, `mw-identity/node_id.rs` | 16 bytes | digest of a key; text form | certificate |
| keystore, `mw-identity/keystore.rs` | a key pair | `sign` and accessors | `mw-crypto` |
| algorithms, keys, signatures, `mw-crypto` | a key | `sign`, `verify`, `AlgId` codes | certificate, messages |
| TLS establishment, `mw-transport` | the provider of the process | `install_default_provider`, configurations, `connect`, `accept`, the verifier | rustls, the channel |
| session, `mw-session` | none yet | none yet (documentation only) | |
| task loop, `scripts/mw-loop.sh` | `ops/loop/STATUS`, HEAD, an iteration | one session per task | git, the sessions |

How they interact: an application gives a `Frame` to `FramedChannel::send`, which
encodes it and writes it to a stream; the peer's `recv` reads portions, finds the
frame with `decode_prefix` and returns it. The payload of a frame is one of the
messages, decoded with `decode_exact`; the certificates in them are opaque there and
decoded, again with `decode_exact`, and verified by `mw-identity`.

What is hard in each, and what makes it correct:

* **Channel.** Both operations are futures with awaits in the middle; the caller may
  drop them, the stream cuts bytes as it likes, it buffers, the peer may leave.
  Correct is: a FIFO of whole frames, in which a dropped `recv` loses nothing and a
  dropped `send` can spoil only what follows it; no frame is withheld, the buffer is
  bounded, a rejected header is final, and two peers that both send may wait for each
  other but nobody else does.
* **Establishment.** One side may be done before the other, may use the channel at once,
  and either may leave or lose the connection at any point; the peer may be any TLS
  program. Correct is: TLS 1.3 and a server that holds the key it shows, nothing sent
  early is lost, and neither call waits for a peer that is gone.
* **Envelope.** One representation per frame; a verdict once given is never revised as
  bytes arrive; both sides use the same limits.
* **Violation channel.** An out-of-band slot per thread carries the reason of a
  failure past postcard. Correct is: it never reports another decode's reason, through
  nesting, errors, leftovers and panics.
* **Codec and messages.** Whatever is accepted was the canonical encoding of itself
  (a `Hello` excepted); encoding and decoding accept the same; the limits agree; memory
  follows what was decoded, not what was declared. Between builds with different
  registries a `Hello` loses no code, and what is derived from it no known one.
* **Certificate.** Acceptance means that the owner of the issuer's key signed every
  field; the lifetime bound holds for every accepted certificate whoever made it;
  verdicts come in the normative order; the wire form is canonical and symmetric;
  capability queries answer from what was signed, unknown codes or not.
* **Node id.** A node has one text, whatever the base32 decoder tolerates.
* **Task loop.** Sessions are outside programs that may die at any point, and so may the
  script. It must not spin, not start a session after DONE or BLOCKED, and end with a
  status that is true.

The hazards of the code, each at its line with the properties about it, are listed in
`PROJECT.json`.

## Modules and code

| module | models | of |
|---|---|---|
| `Frame` | the envelope as total functions on sequences of bytes | `frame.rs`, `version.rs` |
| `FramedChannel` | two channels over a byte stream | `channel.rs` |
| `FrameTransport` | abstract: a FIFO of whole frames per direction, that may tear | what `FramedChannel` promises |
| `ViolationChannel` | the thread-local slot and the decodes around it | `bounded.rs` |
| `NodeCertificate` | a certificate from issuer to verifier, holder and wire in between | `cert.rs`; signatures of `ed25519.rs` |
| `NodeIdText` | the text form of a node id, bit by bit | `node_id.rs` |
| `Session` | two endpoints from configuration to exchanged hellos | `mw-transport`, `hello.rs`, `alg.rs` |
| `BoundedDecode` | the steps and the memory of a bounded decode | `bounded.rs` |
| `MwLoop` | the task loop and its sessions | `scripts/mw-loop.sh` |
| `WireCodec` | postcard under the bounded types, `decode_exact` | `bounded.rs` |
| `AuthMessages` | the four messages and the transcript | `hello.rs`, `auth.rs`, `bounds.rs` |
| `WireValue` | a sender that builds one of them, field by field | `auth.rs`, `bounds.rs` |
| `AlgId`, `Checks` | algorithm codes; "the first failing check decides" | `mw-crypto/lib.rs` |
| `MC...` | instances for TLC | |
| `InductionProofs` | lemmas: induction over numbers, lists and checks | |
| other `...Proofs` | theorems | |

`FramedChannel` extends `Frame`, so its channel decodes real bytes with the envelope's
functions, and instantiates `FrameTransport`, which it is proved to implement. `Session`
instantiates `FrameTransport` too, for the frames its endpoints exchange, and extends
`AuthMessages`, whose codec makes and reads their payloads byte for byte: it composes
establishment, channel and advertisement.
`WireValue` and `MCWireInput` extend `AuthMessages`, and that `WireCodec`.

**FramedChannel.** `op[e]` is where the future of endpoint `e` waits: in `write_all`
("write"), in `flush`, in `read` ("recv"), or nowhere ("idle"); both operations take
`&mut self`, so there is at most one. One step goes from one await to the next:
`Send` is the synchronous part of `send()` up to `write_all`; `Write` is one accepted
portion; `SendDone` the end of `flush`; `Recv` and `RecvRead` run the loop of `recv()`
from its head (`LoopHead`: decode, drain, return) to the next `read`. Error returns are
actions (`SendRefused`, `SendFails`, `RecvEof`, `RecvFails`), as are the drop of a
future (`SendCancelled`, `RecvCancelled`) and of a channel (`Close`). `Rewrap` is
`into_inner()` followed by a new channel on the same stream; what was read ahead is then
missing, and `lost[e]` records that the reader no longer knows where a frame begins. The stream is
external: `wire[e]` logs every byte it accepted, `pushed` and `taken` are how far it has
moved them into the pipe and handed them over. `torn[e]` marks the point from which
`wire[e]` need not be a sequence of frames of this build; `done[e]`, `got[e]` are history
variables.

**ViolationChannel.** `calls[t]` is the stack of decodes open on a thread; `Begin` is
`ViolationScope::enter`, `EndFailed` the `Err` arm with `take` and the guard's drop,
`EndDecoded` both outcomes of the check for leftover bytes, `Panic` an unwinding through
all of them. `decode_exact` is generic: if `Swallowing`, a visitor may ignore the failure
of a nested decode. No type of the repository does, and `ReportIsTheCause` is claimed
without it; the other two properties hold either way.

**NodeCertificate.** Cryptography is symbolic. `Issue` is `sign()`; `Mint` an issuer whose
build does not make the checks of `sign()`; `Tamper` writes one public field, with any
signature in existence; `Send`, `Disturb`, `Receive` are the wire; `Accept` is a
`verify()` that returned `Ok`. The order of checks is a sequence of `Check`s of which the
first that fails is the verdict. A byte string on the wire is the record it would decode
to, with what is wrong with it, and its exact size.

**Session.** `stage[e]` is how far an endpoint has come: `Install` and `Configure` are
the two steps of a configuration, `Connect` and `Accept` the beginnings of the two calls,
`Verified` and `Finish` their success, `Fail` their error. An endpoint is a program of
this build, of a newer build with more codes in its registry, a TLS 1.2 or TLS 1.2/1.3
program of someone else, or an imposter. `Generate` is `devcert::generate`: a certificate of
the key it returns with it; an imposter shows the certificate of another's key
(`Credentials`). rustls is external (`Answer`): highest common version, the certificate and a
signature by the key the server has, which `VerifySignature` compares. `Advertise` and
`Respond` use the hello as `tests/tls_channel.rs` and the accessors' documentation do; its
payload is `ToBytes("Hello", ..)` of `AuthMessages`, `Receive` takes `FromBytes` of the
payload that arrived, and a foreign peer also sends lists that are too long, or cut short or
with a byte behind.

**NodeIdText.** Base32 is computed; `decoder` chooses between a library that refuses
lower case and spare bits and one that does not, since `from_str` says it does not depend
on that. `Replace`, `Shorten`, `Lengthen`, `LoseScheme` are edits made between `Display`
and `FromStr`.

**BoundedDecode.** One step per element; `capacity` and `copied` are the memory taken. The
count is visible (`opaque`) or not, as postcard decides from what is left of the input.

**MwLoop.** `Iterate` and `Judge` are the two halves of the loop's body, around the
session it waits for, which is external.

**WireCodec, AuthMessages.** Byte-exact: a message is the sequence of its fields,
`ToAllocVec` and `DecodeExact` are driven by a description of the fields' types, and
`Holds` says what the constructors of a bounded type let pass. In `MCWireInput` a payload
grows byte by byte, `verdict` being what `from_bytes` says of it. In `WireValue` a sender
sets the fields of a message or a transcript one at a time, to any of `Settings`, which
are values the types can hold; the arguments of `AuthTranscriptV1::new` may be any byte
vectors.

## Runs

| run | what it asks |
|---|---|
| `channel_faults` | Every fault and every kind of frame, one sender, streams that are unwrapped and wrapped again: are frames delivered whole, once, in order up to a tear or the bytes lost with a stream; is `read_buf` exactly the bytes not returned, and bounded; does `recv()` wait only for bytes it lacks and report the end of file last; is a rejection final; is the FIFO implemented? |
| `channel_duplex` | Both endpoints send and may leave, over a connection that holds less than a frame: does every frame arrive, does every `send()` return, unless the peer left or both are caught in `send()` with the connection full both ways? |
| `frame_envelope` | On every input of up to ten bytes: does `decode_prefix` take a frame out exactly where `encode` would have put it, and is its verdict final? |
| `violations_any` | Does the slot leak, and is the first violation the one reported, under swallowing visitors and panics? |
| `violations_passed_on` | Does every decode report its own cause when visitors pass failures on? |
| `certificate` | The seven properties of certificates, under changes of fields and bytes. |
| `wire_input` | The decoders on every input of up to eight bytes: canonical, the same limits on both sides, prefix-free, exceeded bounds final. |
| `wire_value` | Messages and transcripts at the edges of the real bounds: round trip, limits that agree, unambiguous signing bytes. |
| `session` | Whatever the peer is and whenever the connection breaks: version, possession of the key, hellos that arrive, an answer that is the common part, an end to every establishment? |
| `node_id_text` | Is a text accepted exactly if it is the one its node displays, over either decoder? |
| `bounded_decode` | Does memory follow the input at every step, is excess refused early? |
| `mw_loop` | Does the loop end, start no session after an idle one or a verdict, and report truly, whatever dies? |

All runs pass; no disagreement between the code and what its documents or tests say
was met while modelling. Two observations are worth a reader's time. A `send()` that is
dropped after its first bytes leaves the stream torn for good, and nothing in the
channel notices: the model says exactly what still holds then (all earlier frames
arrive, nothing is returned before them). And two endpoints that both send more than
the connection buffers wait for each other for ever; `SendReturnsUnlessWedged` states
that this is the only such case, and `EveryFrameArrives` that nothing else is lost to it. A third: a stream taken back by `into_inner()` and
wrapped again starts behind what had been read ahead; `BufferIsTheUnreturned` says how
much that is, and `DeliveredInOrder` that what was returned before it stands.

`SigningBytesAreUnambiguous` is shown by a left inverse: the decoder of the transcript's
field types gives back every field. The code has no such decoder, on purpose
(`auth.rs:294-298`); the property is about the encoding alone.

## Bounds

* Frames: `MAX_PAYLOAD_LEN` is 1 or 2 instead of 16 MiB. The instances have an empty
  frame, one of the maximum size whose payload can pass for a header after a tear, one
  over the limit and one of another version: every branch of `encode` and
  `decode_prefix` and both sides of the limit.
* `Chunk` (4096 in the code) is smaller than a header in `channel_duplex`, so that a
  header takes several reads, and larger than two frames in `channel_faults`, so that one
  read brings several.
* `PipeCapacity`, `StreamBuffer`: less than a frame in `channel_duplex`, so that two
  senders can fill the connection; two frames in `channel_faults`, so that reads coalesce.
  `Portions` caps the sizes in which the stream moves bytes: one that divides neither a
  header nor a frame, and one larger than a frame. The proofs lift all of these bounds.
* `MaxSends` is 2 per endpoint: a frame behind a torn one. `Writers` and `Faults` choose
  who sends and what may go wrong.
* `MaxInput`, `Alphabet`: long enough for a header, a maximal payload and a byte after
  it; for the messages, an alphabet with a continuation byte of varints. In `wire_input`
  a length has at most `LenWidth` = 3 bytes instead of 10, and the bounds of the fields
  are 1 or 2, and the limits on the whole message are such that an `AuthInit` reaches its own
  and an `AuthResponse` exceeds it. `wire_value` has the real constants and values one below
  and at each bound; there the field bounds keep every message below the limit on the whole,
  which is what `FieldBoundsSuffice` says.
* `MaxNesting` = 3: an outermost decode, one in the middle, an innermost one; two threads
  and two violations, under symmetry.
* `Times` 0..3 with a maximum lifetime of 2; `MaxSigned` = 2 signatures and `MaxChanges`
  = 1 change to a certificate or its bytes. One change reaches every field and every
  defect; the proofs lift this bound.
* `session`: every pair of kinds of which at least one is this code, one frame in each
  direction, lists of codes up to one past a bound of 3, with a code only the newer build
  knows and one nobody knows. Establishment has no counters: the instance is complete. Of the
  constants of `AuthMessages` only `MAX_HELLO_ALGS` and `LenWidth` play a part there.
* `node_id_text`: three prefixes that differ in every bit of the last group; edits of an
  inner and of the last symbol, which alone holds the spare bits; two edits, so that one
  can undo the other.
* `bounded_decode`: bounds 5 and 2, so that a list outgrows the first capacity of a `Vec`, and
  declared values on both sides of each. `mw_loop`: five tasks, three iterations, three
  starts: the limit is reached with tasks left, and the queue ends within a run.
* Deadlock is not checked where an instance really ends (`MaxSends`, `MaxInput`,
  `MaxSigned`, the last of `Times`, closed channels, a session or a loop that is over). The
  violation channel never stops, and deadlock is checked there.

## Fairness

`FairSpec` of `FramedChannel` has weak fairness of each continuation of a pending
operation: the async runtime polls a future that was woken, and the stream wakes it when
bytes can move. The stream pushes accepted bytes for certain only while a write or flush
is pending, which is what a TLS stream does: without `flush`, `EveryFrameArrives` is
violated. An idle application eventually calls `recv`; nobody is made to send, to close
or to drop a future. No strong fairness is used.

In `Session` each endpoint of this code is weakly fair, again because a woken future is
polled; other peers, the connection, `Leave` and `Break` are not. `EstablishmentEnds` is
therefore claimed between two endpoints of this code: neither call has a time limit, and a
peer that says nothing holds it for ever. In `MwLoop` the shell goes on and a session
ends, by itself or by dying; it has no time limit either, and `LoopEnds` says only that
the loop ends if its sessions do.

## Proofs

The provers are TLAPS with Z3, Zenon and LS4. Every theorem holds for all values of the
constants that satisfy the named assumptions, which TLC evaluates in the runs. Most give
a constant its type. These say more:

* `MaxPayloadAssumption`, `ChannelAssumption`: a payload's length fits the four bytes of its
  field; buffers, pipes and chunks are not empty.
* `DomainAssumption`, `BoundsAssumption` of `AuthMessages`, `WidthAssumption`: the domain
  string has its declared length; no bound of a field takes more than two bytes of varint
  (the largest is 2048), and a length is read from up to three at least, as a `u16` is.
* `BudgetAssumption`: the sum of the largest encodings of a message's fields is within the
  message's own bound, the arithmetic of `bounds.rs:47-55` done for each kind of message;
  `wire_value` evaluates it for the real values.
* `SettingsAssumption`: a field is set to what its type can hold.

An invariant of a list or of bytes needs induction over data, whose library theorems the
provers cannot instantiate. `InductionProofs` derives, from the well-foundedness of `<`,
the least-number principle and induction with a set in the place of the predicate. With
it, a recursive function is shown to exist on `0..k` for every `k`, and so to satisfy its
equation; `FlattenSeq` is a run of concatenations, and a list of `Check`s of any length passes
if and only if each check holds (`VerdictIsPass`).

* `FrameProofs`
  * `EncodedFrameDecodes`: what `encode` gives for a frame, with anything behind it, decodes to
    that frame and is all that is consumed, by the inverse of the big-endian encoding
    (`DecodeWhole`); a proper beginning of it decodes to nothing yet (`DecodePart`).
  * `DecodeOutcomes`: of any bytes, when `decode_prefix` asks for more, when it fails with
    which error, and that a frame it gives is of the type, within the limit, and re-encodes to
    the bytes consumed (`DecodeType`, `DecodedReencodes`).
  * `EnvelopeCanonical`, the two together for every beginning of an input;
    `PrefixIsUnique`, `VerdictsAreFinal`, which follow from what is read of the header being
    kept when bytes arrive behind it.
* `FramedChannelProofs`
  * `TypeCorrect`: `TypeOK`, with `Fits(frame[e])` for the frame being written as the
    strengthening (a frame must fit its length field for its layout to be bytes).
  * `BufferBounded` and `RejectionLasts`, from one invariant: a waiting `recv` holds a
    buffer on which `decode_prefix` says `None`, such a buffer is shorter than header plus
    payload, and after a rejection the buffer still starts with the rejected header.
  * `DeliveryInOrder`, `BufferIsExact`, `WaitsOnlyForBytes`,
    `EofComesLast`, `ChannelsImplementTransport`, from one invariant. On the writing side: every
    completed frame lies in `wire[e]` as its layout, ending where `done[e]` records, behind the one
    before it, and until a tear what follows the last is the beginning of the frame in
    hand. On the reading side: until its place is lost, `read_buf` is exactly
    `wire[Peer(e)]` from the end of the last returned frame to `taken`, and `got[e]` is a
    prefix of the frames completed. `DecodeWhole` turns "the buffer begins
    with the next layout" into "the next frame is returned"; the refinement then is one
    step per action: `Write` completes a frame or stutters, `LoopHead` delivers or misreads,
    `EndSend` tears, `Rewrap` loses.
* `BoundedProofs`
  * `ChannelIsClean`, `FirstViolationWins`: the depth is the number of open decodes, and
    while one is open the slot is the first violation since the outermost began.
  * `CauseIsReported`: if failures are passed on, all but the innermost open decode are
    running, and an innermost one that fails does so because of what is in the slot.
  * `MemoryIsBounded`, `ExcessIsRefused`, from an invariant that ties `items`, `decoded` and
    `capacity` of a decode together.
* `IdentityProofs`
  * `AcceptanceIsAuthentic`, `AcceptanceAgesOut`: every signature in the certificate at
    hand or on the wire that names a maker was made by that maker over what it is
    recorded to be over, and every acceptance was a `verify()` of `Ok` at its time.
    `VerifyOk` states what such a verdict has established; ageing out follows from the
    lifetime check inside `verify()`, not from who signed.
  * `CapabilitiesAreSigned`: `has_capability` reads the list an accepted signature covers.
  * `TemporalVerdictsComeLast`: `verify()` is the first failing of eight checks
    (`VerifyIsEightChecks`), so a verdict of the seventh or eighth has passed the six before:
    capability count, key, subject, issuer, signature (by the owner of the key, from the
    invariant) and lifetime.
  * `SignAndVerifyAgree`, `EncodingsDecode`, `EncodingIsUnique`: two verdicts agree if their
    lists of checks do. `AgreeInv` adds to the invariant the shapes of certificates and of
    byte strings, and that what `sign()` issued passed its checks and is signed over its own
    fields.
  * `ParsedExactly`: a text is accepted if and only if it is the one displayed. `from_str`
    compares with the re-encoding, so a text that is accepted is the encoding of the prefix
    returned, whatever the decoder did (`AcceptedIsDisplayed`). The digits of a prefix and the
    bits of its digits are inverse to each other (`ByteOfBits`, `Digits`), so
    `from_str` finds the prefix again in a text nobody changed (`DisplayedIsParsed`).
* `SessionProofs`
  * `EstablishmentIsConfidential`: a handshake message says what its sender does
    (`FlightInv`), an endpoint has settled only for a version it offers (`AgreedInv`), and
    nobody is established or exchanges frames before it has settled (`StageInv`).
  * `AnswersAreTheKnownPart`, from `HInv`: what is heard is what the first frames of the peer
    decode to, in order; our client's frame is the encoding of a list it advertised, and our
    server's that of the known part of the hello it heard. A list that fits decodes from its
    encoding (`HelloDecodes`, from `EncodedDecodes` of `WireProofs`), and so does its known
    part, which is no longer. The filter of the accessors keeps a code if it is in the
    registry, and the order of what it keeps (`KnownPart`).
* `LoopProofs`: `SessionsArePaidFor`, `StatusIsTrue`. Every iteration before the present one
  has made a commit (`Paid`), and a session leaves DONE behind only when nothing is open
  (`Truthful`), wherever the session or the script is cut off.
* `WireProofs`: what a writer and a reader have to do with each other is stated once, as
  `Codec`: results have their types, what is written is read back with anything behind it,
  what has been read does not change when bytes are added, and a value read from another
  string than the writer's was read from a longer one. A varint has it, bytes have it, and
  sequencing (`Chain`) and counting (`CountedCodec`) keep it, so that structs, lists of
  structs and messages have it.
  * `OneStringIsAccepted`, `AcceptedCanBeSent`, `ExcessIsRefused`, for every payload over any
    alphabet of bytes (`ReceiveInv`): an authentication message is compared with its
    re-encoding, and a `Hello`, which is not, has besides its own string only longer ones.
    Both sides compare one length with one limit, and what is encoded is read back, so they
    agree on what may be sent. That no accepted payload is accepted again with bytes behind
    it, and that an exceeded bound stays one, follow from what has been read not changing.
  * `WhatIsSentIsReceived`, for every value its types let be constructed (`BuildInv`).
  * `FieldBoundsAreEnough`: an encoding's size is at most the sum of its fields' largest,
    which `BudgetAssumption` compares with the bound of the message.
  * `SignedOnce`: `Codec` of the transcript's fields gives back each of them.

## What is only model-checked, and what is not modelled

Model-checked only: the liveness properties (`EveryFrameArrives`, `SendReturnsUnlessWedged`,
`EstablishmentEnds`, `HelloIsHeard`, `LoopEnds`), which rest on fairness and on which actions
are enabled; the provers do not reason about ENABLED. They hold for the bounds of their runs.

Not modelled: TLS itself (rustls: key exchange, records, alerts), randomness and the
arithmetic of signatures; the accessors of `Keystore` and of the key types, which pass
values on (`NodeCertificate` names a key by its public bytes and lets only its owner sign); the incremental hasher, a pass-through to `sha2`; what `Debug`
and `Display` print, node ids apart; visitors that a format other than postcard would
call; `mw-session`, which has no code yet; the generated stubs of the other crates; the
gate and the textual checks, straight-line scripts that keep no state. Nothing in the
repository exchanges authentication messages yet, so there is no protocol above the codec
to model. The clock of `NodeCertificate` does not run backwards.

## Plan

Done: all components that have control of their own, each with its runs; every invariant
and action property of the runs, and the refinement of the FIFO, proved.

Open:

1. The part of `LoopEnds` that is not fairness: a measure that every step of the script and
   its sessions decreases.
2. `mw-session`, once its machine has code: `AuthMessages` has its messages and transcript,
   `Session` the channel it will run on.
