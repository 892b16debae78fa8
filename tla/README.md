# A TLA+ model of cA2A

cA2A makes a call from one agent to another carry evidence: a chain of signed
delegation credentials, a proof that the caller holds the key the chain ends at,
attested channel keys on both sides, a payload sealed to the callee's key, and
linked records of what was decided. This directory models those protocols in
TLA+, checks them with TLC on small instances, and proves most of what is checked
with TLAPS for every instance.

- `Delegation`, `ChainVerify`, `ChainVerifyProofs`: credentials, revocation, `verify_chain`
- `NodeBoot`, `PeerChecks`, `PeerCall`, `PeerCallProofs`: from a configuration to a
  node, and the call to it, from `send_task` to `handle_peer_request`
- `ResponseOutcome`, `ResponseAuth`, `TransportCut`, `TransportCutProofs`:
  authenticated responses, what they promise, and an application that crashes
- `Metadata`, `AgentCard`, `SdkLoopback`, `SdkLoopbackProofs`, `EnvelopeAttach`:
  calls as A2A metadata, the SDK binding
- `Provenance`, `ProvenanceProofs`, `TraceDag`, `TraceDagProofs`: the records of a
  workflow and their offline audit
- `EvidenceVerify`, `TsmCollect`, `TsmCollectProofs`, `TpmCollect`,
  `TpmCollectProofs`: collecting hardware evidence and appraising it offline
- `MC*`: the instances for TLC

To check: `tlc -config <run>.cfg <MC module>`; to prove: `tlapm <module>Proofs.tla`.

## The system and its hard behaviours

| Part | State it keeps | Operations | What is hard |
|---|---|---|---|
| `delegation/credential.py` | the locals of two loops | `sign`, `verify_chain`, `_check_revocation` | one evaluation time for all hops, inclusive bounds, who may revoke what |
| `delegation/revocation.py` | a snapshot, immutable | `revoke`, snapshot construction, `effective_revocation` | damaged fetches, late statements, audits at an earlier time |
| `challenge.py`, `delegation/holder.py` | none (stateless challenges) | issue, verify, build, verify | expiry while a call is handled, repeats within the window |
| `attestation.py` | none | offer, appraise, prove possession | roles, binding of report and key |
| `config.py`, `bootstrap.py`, `agent_manifest.py` | the node they build | `from_dict`, `load_policy`, `select_provider`, `build_peer_node` | a setting that is present and unusable, a restart with another configuration |
| `peer.py`, `node.py` | channel key and secret per process | `handle`, `offer`, `issue_challenge` | handler threads, restarts, requests mixed on the way |
| `transport/client.py`, `server.py` | a pending call | `handshake`, `send_task`, GET and POST | loss, repetition, timeouts |
| `transport/a2a_adapter.py`, `a2a_sdk.py` | the message, the Agent Card | attach, parse, merge, inspect | reused messages, stripped keys and headers, stale declarations |
| `response.py` | `_used`, the key, the lock | `PendingResponse.verify`, `ResponseProducer.finish` | concurrent verifies, deadline, unknown outcomes |
| `experiments/transport_cut.py` | a journal | `caller`, `relay`, `recover` | a kill between journal, call and outcome |
| `provenance.py`, `cli.py` | the auditor's loop | `record_for`, `verify_dag`, `cross_check_chain` | altered, exchanged and missing records, refusals |
| `trace_binding.py`, `ca2a_verify/dag.py` | the verifier's loop | `emit_dag`, `verify_trace_dag`, `cross_check_trace_dag` | trusted keys in the wrong position, other digests |
| `tee/tsm.py`, `sev_snp.py`, `tdx.py` | configfs entries | `collect_report`, `attest` | name collisions, kills, cleanup |
| `tee/tpm.py` | TPM slots, PCRs, NV | `attest` | PCRs that move, a certificate renewed while read, slots |
| `ca2a_verify/sev_snp.py`, `tdx.py`, `tpm.py` | none | the offline verifiers | relabelled reports, parts of two quotes |

They meet in this order: a node is built from a configuration; a caller
handshakes (`attestation`, `challenge`) and builds a request (`holder`, sealed
channel), directly or as metadata of an A2A message; the callee's pipeline
verifies the chain, the proof and the offer, decides under its policy, emits a
record and opens the payload; the response travels back, authenticated when
asked for; the records and the evidence are audited later. `Delegation` is the
part most of them share: `PeerChecks`, `Provenance` and `TraceDag` extend it and
use `VerifyChain`, the one-step verdict that `ChainVerify` shows the code's loops
to compute.

## Abstractions

Signatures, MACs, digests and encryption are modelled by what they guarantee: a
signature is the key that signed exactly this body (`None` once the body
changed), a digest is the value it is taken of, a sealed payload opens under the
key it was sealed to. Nothing forges one. Canonical JSON is therefore an
injective record, except where the difference matters: in `Metadata` an integer
and a float of the same value differ, because a protobuf `Struct` holds only
floats and a credential is signed over integers. Beyond `MaxSafeInteger` (2^53 - 1
in `canonical.py`) a float may hold another number (`Double`), but `sign` signs no
such number, since `canonicalize` raises. Names, payloads and texts are
model values. What may be missing from a record that is itself hashed (a parent
link, a delegation block) is a set of at most one element; elsewhere an absent
value is `None`. What is kept is control: each check, its order, each early return
and each state change.

## Modules

**Delegation** has the constant-level operators of `credential.py` and
`revocation.py`: credentials and their windows, `HopError` (the checks of one
hop in the code's order), revocation lookup by the authorities of the hops so
far, the staleness test and `VerifyChain`. The `ValueError`s of `verify_chain` for
an evaluation time or a staleness bound that is no natural number are left out:
`Bound` and the callers admit nothing else.

**ChainVerify** runs `verify_chain` in several threads. `Call` reads the
snapshot (as `node.py` does before the pipeline), `Enter` does the checks before
the loop and fixes the time, `VerifyHop` is one turn of the first loop,
`NoSnapshot` and `LookUpRevocation` are `_check_revocation`, `Return` ends the
call. `Tick`, `Revoke` and `RefreshFeed` are the clock, any key signing a
statement with any claimed date, and the supplier replacing its snapshot by a
later one; a damaged statement makes the constructor raise and the old snapshot
stays. The supplier behind `revocation_source` is outside the code; that what it
holds only grows is assumed of it. `decisions` and `known` are history.

**NodeBoot** is `Ca2aConfig.from_dict`, `load_policy`, `select_provider`,
`build_caller_verifier`, the Agent Manifest binding and `build_peer_node` as
operators from a configuration and a host to a node or `Refused`. Absent keys,
values of the wrong type and Python's `True` in the place of an integer are
told apart, since the code does. A file that is missing, blank or unreadable is
refused, as is malformed content of a manifest; a malformed policy bundle or a
malformed root starts a node, since Cedar and the verifier meet it only at a call:
the first then permits nothing, the second endorses nobody.

**PeerChecks** has challenges, offers, holder proofs and possession proofs as
operators. A verifier is the set of pairs of platform and root that it takes; it
raises for every other hardware report (`Appraised`), which refuses an attested
caller even where the node requires no attestation. A payload may be `"damaged"`:
bytes the caller commits to and that open under no key. **PeerCall** composes them with `NodeBoot`: `ca2a start` or an
embedding application starts the callee, and may start it again with other
settings, which replaces the channel key and the challenge secret and drops the
handlers; callers take the steps of `send_task` (handshake, build and post), a
network loses, delays, repeats and reorders requests, middleware assembles a
request from the fields of two others, and handler threads take the steps of
`handle_peer_request` in order: verify the chain, verify the holder proof,
appraise the offer, decide and record, open the payload.

**ResponseAuth** is the authenticated path: `PendingResponse` with its lock,
deadline and one-shot key, `handle_authenticated`, a lossy and altering network,
a callee that restarts. It has no next-state relation of its own; **TransportCut**
adds the application of the transport-cut experiment, which journals an
operation, sends it, journals the outcome, may be killed anywhere, and is
followed by a process that reads the journal and presents the reply the relay
kept to a pending response of its own. **ResponseOutcome** is the promise: a call
settles once, as accepted or denied only if the peer reached that result for this
request, else as unknown. `KeepsPromise` is the refinement, an `INSTANCE` that
maps `outcome` to itself and `reached` to the results in `executed`.

**Metadata** has attaching and parsing on plain envelopes and on SDK messages as
operators, **AgentCard** cA2A's declaration in a card: building it, merging it into
the operator's card, inspecting it. **SdkLoopback** is `examples/a2a-sdk/loopback.py`: a client that reads
the Agent Card, asks for a channel, attaches calls to new or reused messages, an
intermediary that strips or garbles, with what it took from a message kept as
history (`lost`), and the executor, whose `reply` has no await
in it and is therefore one step. **EnvelopeAttach** attaches calls to a plain
envelope.

**Provenance** emits records along a chain, keeps paths, alters one and runs
`verify_dag` record by record, then `cross_check_chain`, as `ca2a verify-dag`. The
hops that `cross_check_chain` filters out of the records are the positions of the
records that are no denials (`Hops`), numbered in order (`HopNumber`).
**TraceDag** does the same for signed TRACE records and `ca2a verify-lineage`,
which verifies the chain first and takes the trusted keys from its subjects.

**EvidenceVerify** has the checks of the three offline verifiers as operators.
**TsmCollect** is `collect_report` with one system call per step, around it the
checks of both `attest` methods. **TpmCollect** is `TpmProvider.attest` with one
TPM command or fetch per step; PCRs are extended and the certificate in NV is
renewed meanwhile, and the TPM is behind a resource manager or bare. A chain is its
leaf, its length and what breaks it: bytes torn by a renewal may load as a
certificate, and a fetched certificate may be one that did not sign the last. Both apply
the verifiers to what they collected, as it is, relabelled and spliced. A device
that exists and cannot be opened makes `attest` raise an error of the TPM binding
(`TSS2_Exception` in `Open`), which is neither of the two its docstring names.

## Runs

| Run | Checks | Distinct states |
|---|---|---|
| `chain_faults` | every single alteration of a three-hop chain, live and audited: `AcceptedChainAuthorizes`, `TypeOK` | 146 k |
| `chain_revocation` | two threads, two hops, a statement signed at any time, a staleness bound: `RevocationByIssuersOnly`, `RevokedStaysRevoked`, `AuditNotRewritten`, `StatusKnownWhenRequired`, `LoopComputesVerdict` | 1.4 M |
| `peer_mix` | restarts and mixed requests: `RecordedCallWasMade`, `AllowRecordTellsRuntime`, `ProofIsFresh`, `OpensAsCommitted` | 326 k |
| `peer_boot` | nineteen configurations, two handlers, revocation: `AllowedAsConfigured`, `OfferedAsConfigured`, `OpenedWhereRequired`, `GrantedCapabilityDelegated`, `HonestRefusalHasReason` | 676 k |
| `transport_cut` | two racing verifies, a caller killed anywhere: `OneResponsePerRequest`, `NoLateResponse`, `KeepsPromise` (refinement), `RestartKnowsItsOperation`, `TypeOK`, and `EveryCallSettles` under fairness | 559 k |
| `sdk_loopback` | reused messages, stripped messages, cards: `AttachThenParse`, `LookupWasAuthorized`, `NoSilentFallback`, `CardTellsNode` | 416 k |
| `provenance_audit` | `VerifiedPathIsUnaltered`, `CrossCheckedFollowsChain`, `FullWorkflowVerifies` | 161 k |
| `trace_lineage` | `VerifiedLineageWasMade`, `LeafCommitsToPath`, `EmittedDagVerifies` | 1.33 M |
| `tsm_collect` | `ReportIsOwn`, `OnlyExpectedProviderSigns`, `NoEntryLeaks`, `VerifiedAsCollected` | 1.2 M |
| `tpm_collect` | `MeasurementIsSteady`, `NoKeyLeaks`, `TpmVerifiedAsCollected`, and `AttestReturns` under fairness | 400 k |
| `provenance_denial` | `RefusalIsCheckable` is violated | |
| `envelope_attach` | `EnvelopeRoundTrip` is violated | |

All properties of the first ten hold. The last two runs show a disagreement
between a text and the code:

- `provenance_denial`: a denial record is said to be checkable against the
  signed chain; `cross_check_chain` counts allowed hops only and refuses it.
- `envelope_attach`: attach then parse is said to be a round trip for every
  accepted shape. `attach_ca2a_metadata` clears absent optional keys in one map
  only and `collect_metadata` merges two, so an envelope that carried a call
  before its message was added gives keys of that call back with the next one.

What holds is not at-most-once execution: challenges are stateless, so a request
repeated inside its window to the same process is accepted again. `ProofIsFresh`
and `LookupWasAuthorized` bound a repeat by the window and the process, and no
property claims more.

### Bounds

Each bound is a constant of its module and sits in a guard. Three hops with a
depth limit of two reach the limit, a neighbour and a non-neighbour; one more
chain exceeds it. Clocks run at least to the first instant outside each
window, lifetime or deadline, so both sides of every boundary occur; in
`transport_cut` the clock also goes back. Two actors race wherever code runs
concurrently and shares state; TPM collectors share only the device and its
slots, which can only make another one fail, as it may anyway, so `tpm_collect`
has one. `peer_mix` has one handler because its subject is the request and not
the race; `peer_boot` has two. Of the nineteen configurations of `peer_boot` two
are sound, one has a malformed policy and malformed roots and still starts, and
sixteen have one fault each, every one refused for a reason of its own. In `transport_cut` one handler runs at a time, one message is altered, the
statuses are an acceptance and a denial, and there are the operation and the
occurrence opened after the crash. In `sdk_loopback` an intermediary loses one key
or all of them, or garbles one, in addition to the header and the declaration, so
a call is left with any one of its marks and with none. `MaxSafeInteger` is 1000 there, above every number of the
plans. A key can sign two different root TRACE records, so two
lineages can differ above the same leaf. One restart separates two epochs. One
alteration per path or message is enough to tell whether a single field is
protected; combinations of alterations are not explored. The chunks of NV reads
include one that does not divide the size and 0, and the certificate path (`PathLength`) is
shorter than the limit of the walk, so complete and incomplete chains occur.
Symmetry is used over threads, identifiers and entry names, and in no run with a
liveness property.

Deadlock checking is off where a bound on calls or deliveries lets a finished run
stop (`tsm_collect`, `tpm_collect`, `sdk_loopback`, `envelope_attach`).

### Fairness

`transport_cut`: weak fairness of the give-up step, because every socket
operation of `_post_authenticated` has a timeout, and of the steps of a running
`verify`, which takes a lock only for a few statements. Nothing is assumed of
the network or the peer. `tpm_collect`: weak fairness of a collector's own steps,
because a TPM command answers, fails or ends at the driver's timeout; that an NV
read fails is not counted on, so the loop has to end by itself. Nothing is assumed
of a fetch, whose timeout is one of each socket operation and not of the whole, nor
of the NV buffer limit, for which the code takes what the TPM says, 0 included.
`AttestReturns` therefore says what is left: `attest` comes back unless one and the
same fetch never does, or the TPM reports a limit of 0 (`Stuck`).

## Proofs

Eight modules prove 42 theorems for every value of the constants that satisfies
the named assumptions. All properties that the passing runs check are among them
but the two liveness properties. Each rests on an inductive invariant.

**ChainVerifyProofs**: any number of threads, chains of any length, any keys and
bounds. Assumed: `None` is none of the other values, trusted roots are keys, the
depth limit is a natural number, the staleness bound is one or absent, chains are
sequences of credentials.

- `TypeCorrect`. `TypeOK` is not inductive: a hop is indexed by `i`. `TypeInv`
  adds `Control`, which says where `i` may be at each label.
- `ChainAuthorizes` and `LoopIsVerifyChain`. The code compares neighbours and
  keeps a set of identifiers; the property is about all pairs. `WalkInv` says
  that the hops before `i` authorize (`AuthorizesUpTo`), that `seen_ids` and
  `authorities` are what they contribute, and that the verdict still open is
  that of the rest. `HopExtends` carries it over one hop.
- `StatusKnown`, from `WalkInv`.
- `OnlyIssuersRevoke`, `RevocationIsMonotonic`, `AuditRepeatsDecision`. These
  relate a decision to earlier ones. `HistoryInv` adds that each recorded
  decision is the verdict of its inputs and that the snapshot of a call is no
  older than those of the decisions it knows.

**PeerCallProofs**: any number of callers, handler threads, restarts,
configurations and mixed requests, chains of any length. It states `Inv`, proves
that the environment, the callers and the handlers preserve it (`Invariance`), and
has a theorem for each of the nine properties. Assumed: `None` is none of the values a
field may hold (`NoneIsNoValue`); an embedding application passes arguments of the
annotated types (`EmbeddedAssumption`); numbers in a configuration are integers,
absent or of the wrong type, and a host detects hardware of the three known kinds
(`ConfiguredAssumption`); a challenge lifetime is positive, as `issue_challenge`
demands, or no handshake succeeds (the guard of `ServeHello`); plans and snapshots
have their types.

None of the nine properties is inductive, because a handler holds a request that
middleware may have put together from two. `Inv` therefore has six parts.
`NodeOK`: a node started from a configuration is the one `StartFromConfig` builds
of it. `HellosOK`: every handshake answer is the key and a challenge of one epoch
up to this one. `SentOK`: a request a caller made is what `Built` makes of one
plan and one handshake, and a record id belongs to one request. `WireOK`: each
field of a request on the way is that of some request a caller made, though its
fields may come from different ones. `FunctionsOK`: the functions over threads
have their domains. `ThreadOK`: what each check of `handle_peer_request`
established stays true until the handler answers, since a new node or key comes
only with a new process, which has no handlers of the old one. From there
`EveryRecordedCallWasMade` follows as the code intends: the proof is one that some
caller signed, its body names each field the record shows, and `VerifyHolderProof`
compared them. `EveryAllowRecordTellsRuntime` adds that the body names the offered
key and that a channel key belongs to one call. `EveryCallAllowedAsConfigured` and
`EveryOfferAsConfigured` go through `NodeBoot`: what `BuildPeerNode` returns for
each kind of setting, the verifier's platform and roots among them
(`ConfiguredVerifier`). `EveryCallOpensAsCommitted` needs that the payload in a
proof is the one its caller sealed (`ProvedPayload`) and that the proof names the
key of this process: an allowed call fails to open only for bytes the caller damaged
before it signed.

**TransportCutProofs**: any number of calls of `verify`, of altered messages,
restarts and handlers, any statuses, any timeout and clock; one operation and one
occurrence opened after the crash (`OpAssumption`), as in the experiment. Also
assumed (`NoneAssumption`, `VerifierAssumption`): `None` is no MAC, no pending
response, no outcome and no call of `verify`.

- `ResponseIsUsedOnce`, `RestartKnows`, `ResponseIsInTime`.
- `PromiseKept`, the refinement: initial states map to initial states and each
  step to a settling, a reached result, the opening of a call or a stutter
  (`StepRefines`).

That a caller learns only what the peer reached is not inductive. `CutInv` adds
that every MAC in a reply, or in the hands of a `verify`, is over a result reached
for the envelope it names (`Genuine`), that an unused pending response has the key
of its own envelope, that a `verify` past the lock has used it up and is alone
with it (`OneVerifier`), and that nothing travels that was not journaled.
`AuthenticIsReached` joins them: the key is derived from the envelope, so a MAC
that checks under it is over a result for exactly that request.

`LockIsDisciplined` is `TypeOK`, which says more than types: who holds the lock at
which label, and that a caller waits exactly while its occurrence is unused or
being verified. It needs `LockInv`, which ties the lock, `_used` and the labels of
all calls of `verify` together, and `ClockInv`, the range of the clock.

**TsmCollectProofs**: any number of processes, names, keys and nonces; `None` is no
entry name (`NamesAssumption`). `ReportsAreOwn`, `ExpectedProviderSigns` and
`EntriesDoNotLeak` from `Ownership`: between `mkdir` and `rmdir` a process has an
entry that exists and that no other process has, `inblob` holds what it wrote, and
the provider was confirmed before `outblob` is read.
`EveryReportVerifiesAsCollected` joins collector and offline verifier: from
`Returned` (a process that returned has the report of its own request) each check
of the verifier is evaluated for the report as it is, relabelled, from a guest the
policy refuses, and spliced. Assumed (`EvidenceAssumption`): `None` is no part of
the evidence, and a failed appraisal is no measurement.

**TpmCollectProofs**: any number of collectors, slots, extensions and renewals;
`None` and the platform key's handle are no slots (`SlotsAssumption`).
`MeasurementsAreSteady` and `KeysDoNotLeak` from `CollectInv`: PCR values read are
not newer than those now, and older than those quoted when a PCR moved between;
a handle is held only between its creation and its flush.
`EveryTpmReportVerifiesAsCollected` needs `SignerInv`: whatever way the key was
found, created or given up, the leaf of the chain a collector carries has the key
that signs its quote. A chain read from NV that a renewal tore may ship, since
`_certifies` compares the key alone; the theorem says that such a report is refused,
like one whose chain is incomplete or strays, and that a read of NV as it stood
tears nothing. Assumed
(`EvidenceAssumption`): `None` is no part of the evidence, and the nonce of a later
request is none of those collected for.

**TraceDagProofs**: chains and paths of any length, any keys, bodies and emitted
forms. Assumed: chains are sequences of credentials, forms have their types, the
bounds are natural numbers. `TraceInv` says that what was signed has the form
`emit_dag` gives it, that the records before `i` are signed and linked,
that `seen_hashes` is exactly their hashes, and the same of every verified lineage,
which also lines up with its chain.
`EveryVerifiedLineageWasMade` follows. `EveryLeafCommitsToItsPath` walks back from
the common leaf: at the least distance at which two lineages parted they would
have the same successor, whose block determines its predecessor, and neither is
longer, since a root has no block. A least counterexample, from the well-founded
order of the naturals, stands in for the induction the prover cannot do. `EveryEmittedDagVerifies` has to show that no record of an emitted path
has the hash of an earlier one, although records are not numbered: a root has no
block, and two equal later records would make their predecessors equal.

**ProvenanceProofs**: chains and paths of any length, any decisions, one
alteration. Assumed (`ChainAssumption`): the chain is not empty and its credential
identifiers are distinct, as `verify_chain` demands of every chain it accepts.
`ProvenanceInv` says that emitted paths are linked to their roots and that what
`verify_dag` has passed is linked and continues no denial, that `seen_ids` is
exactly its identifiers, and that no full workflow has been refused.
`EveryVerifiedPathIsUnaltered` walks back from the last record as above.
`EveryCrossCheckedPathFollowsItsChain` and `EveryFullWorkflowVerifies` need that
`HopNumber` numbers the hops of a path whose only denial is its last record by
their positions.

**SdkLoopbackProofs**: any number of calls, plans, messages and restarts, chains and
cards of any length. Assumed: plans have their types, and the numbers of their
signed credentials are at most `MaxSafeInteger` (`PlanAssumption`); `None` and
`Rubbish` are none of the values that metadata holds (`NoneIsNoValue`,
`RubbishIsNoValue`); the operator's cards are lists of extensions and the node's
requirement is one of the three (`CardsAssumption`); bounds are natural numbers
and a challenge has a positive lifetime (`NumbersAssumption`).

- `EveryAttachParses`. The property is about the message last attached to; `MessageOK`
  says what it is, `Carrier(attached)`, the message a fresh one becomes. It is
  inductive because attaching forgets whatever call the message carried before
  (`AttachAgain`). `CarrierParses` is the round trip: out to a `Struct`, whose numbers
  are floats, and back to the integers the credential was signed over.
- `EveryLookupWasAuthorized` and `NoCallFallsBack`. `WireOK` says of every message on
  its way that each of its keys is as it set out or rubbish, and that each mark of
  the opt-in it is without is recorded as lost. A damaged message that still parses
  gives the chain and the capability of the request it set out as, and its proof and
  payload unless they are gone (`DamagedParses`), and the executor serves none
  without them; `AcceptedChainGrants` carries the capability from the leaf up the
  chain. An ordinary message has no mark, and a call without any has lost all.
- `EveryCardTellsNode`. `Collapse` deletes in a loop and `OfOthers` walks the list, so
  both are recursive functions. `Recursion` shows that such a recursion has a
  solution; `CollapseKeeps` that after each turn the list is the operator's up to the
  position reached, has no declaration of ours above it and every extension of
  others (`SeenDownTo`). Least counterexamples stand in for induction here too. The
  invariant (`CardOK`) covers cards that were merged and served before.

Only model-checked:

- `EveryCallSettles` and `AttestReturns`: liveness under fairness is out of the
  prover's reach.
- The two findings, which are violated.

## Not modelled

- The hardware acceptance run (`hardware_acceptance.py`): a log of observations around a
  provider, a verifier, a node and a client that are each modelled.
- The bytes of canonical JSON, of quotes and of certificates, error classes and
  benchmarks: without state.
- The Cedar engine: a bundle is the permits and forbids it comes to.
- HTTP parsing, body limits, the JSON codecs of `wire.py`, the argument parser.
- `require_holder_proof=False`, which is for offline replay, and relative paths in
  a configuration.
- The cross-operator demonstration and the other experiments, which run the
  modelled parts one after another.

`PROJECT.json` lists each part with its reason.

## Plan

1. `wire.py`: encoding and decoding of requests as operators, as `Metadata` has
   them for the adapter.
2. A workflow of two calls in a row: `PeerCall` emitting the records that
   `Provenance` audits.
