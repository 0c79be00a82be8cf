# Decky My Rig: TLA+ models and proofs

Decky My Rig wakes and shuts down Windows PCs from a Steam Deck. A plugin on the
Deck (Python backend, React view) talks over HTTP to a host service on the PC
(Rust); a control application on the PC (C#) talks to the service over a local
pipe. This directory models the parts of that system that keep state, checks
them with TLC on small instances and proves the most important properties with
TLAPS for every value of the constants.

## The system and its parts

| Part | Source | State | Module |
|---|---|---|---|
| Pairing code and exchanges | `host/src/pairing.rs` | code, its age, failures per source, pending and completed exchanges | `PairingCode` |
| Pairing endpoint, stored identity, service life cycle | `host/src/server.rs` (`pair`), `management.rs`, `storage/`, `service/windows.rs` | identity in memory and on disk, clocks, process | `HostPairing`, implements `PairingContract` |
| Request authentication, status, shutdown | `host/src/auth.rs`, `host/src/server.rs` (`authenticate`, `shutdown`) | nonces in memory and on disk, failures, handlers in flight | `RequestAuth` |
| Device store of the Deck | `decky/py_modules/decky_my_rig/store.py` | two files and a transaction | `DeckStore` |
| Controller and view of the Deck | `controller.py`, `client.py`, `useDevices.ts`, `DeviceRow.tsx`, `main.py` | state and deadline of a device, lock, polls, actions, shown status | `DevicePower` |
| Host control application and management pipe | `host/control/`, `host/src/management_ipc.rs`, `service/windows.rs` | view model, requests in flight, accept loop | `HostControl` |
| Clients of the protocol: the Deck and the test client | `client.py`, `tools/decky-my-rig-test` | operation in progress, saved credential | `PairingExchange`, together with the endpoints of several hosts |
| Start of the host and its stores | `host/src/main.rs`, `config.rs`, `storage/`, `service/windows.rs` | progress of the start, identity file and its temporary, log, configuration | `HostStartup` |
| Signed messages | `auth.rs`, `pairing.rs` (`credential_aad`), `auth.py` | none (pure) | `WireMessages` |
| Versions | `versioning.rs`, `versioning.py` | none (pure) | `Versioning` |
| Validation, discovery, forms, updates, installer, scripts | see `PROJECT.json` | none, or I/O only | not modelled |

How they interact: the control application generates a code on the host
(`generate_pairing_code`), the user types it into the Deck, the Deck runs a
two-request exchange (`start_for_source`, then `finish` and `commit`) and stores
the credential it is given (`mark_paired`). From then on it signs status and
shutdown requests with the credential, and the controller turns the answers into
the state that the view shows.

`PROJECT.json` lists every component, the source lines behind each definition,
the hazards of the code at the lines where they bite, and what covers each.

## Modules

**`PairingCode`** has one action per method of `PairingCode` and per way it can
end. The server calls each with the pairing mutex held, `finish` and `commit`
without a gap, so each is one step. Cryptography is reduced to what the code
decides on: is the message well formed, does the confirmation verify. Instants
are kept as ages, because the code only compares ages with the lifetime; ages
stop counting at `Horizon`, beyond every comparison. `uptime` is the monotonic
clock counted from boot: subtracting more than it from an `Instant` panics, in
`from_code_with_age` (no step: the start fails) and in `commit`
(`commit_panicked`). `panicked` remembers that the code of the last commit was
not backdated; a new code or the end of the process clears it.

**`HostPairing`** extends it with the handler of `/v1/pair`, whose first phase
releases the identity mutex between the AlreadyPaired test and the start
(`pair_admitted`, then `pair_start`), and whose final phase is one step per
outcome: rejected, repeated, not saved, succeeded, panicked, or crashed between
save and answer. `crash`, `reboot` and `run_service` model the process;
`code_age` is the wall clock minus `pairing_created_at`, so that `second` and
`clock_adjusted` move it. A request that changes nothing (malformed bytes, a
wrong version) is a stutter.

**`PairingContract`** says what pairing promises: the durable credential changes
only by using an outstanding code, once, and an answer holds the durable
credential. It names the one exception that the code leaves: a use that panics
may leave its code usable. `HostPairing` implements it with
`credential <- disk.credential` and `offered <- disk.pairing_code # NoCode`.

**`RequestAuth`** has a program counter per handler, with one step per mutex the
handler waits for: copy the credential, read the clock and check
(`verify_checks`); count a failure (`failed`); consult the nonces in memory
(`verify_nonce`); consult and save the list of accepted shutdowns (`record_*`);
record the client's version; shut down. The network may delay and duplicate
requests, axum may drop a waiting handler, saves may fail, the service may
restart, and a pairing may replace the credential. The clock is the wall clock:
it advances (`second`) and may be set back (`clock_set_back`); `latest` is the
latest time it has shown.

**`DeckStore`** runs an operation as a chain of stages, each an `_atomic_write`
or `_remove_transaction`: first the directory changes (`replace`), then it is
synced (`sync`). Each half may fail, the plugin may be killed and the power may
fail between any two steps. The file system is external: renames in one
directory reach the disk in order, as a journal keeps them, so power loss leaves
the directory as it was at some moment since its last sync (`survivors`).

**`DevicePower`** is one PC as the Deck sees it. A poll copies the credential,
waits, lets `_status` change the controller's state, and hands its result to the
view that asked, if that is still mounted; `asked` holds the requests of the
mounted view. An action takes the device's lock in FIFO order (`asyncio.Lock`).
Re-pairing takes two steps, because `pair_device` awaits the host before it
stores the credential (`mark_paired`): in between, the host and the Deck
disagree. The steps between two awaits are one step. Devices
share no state, so one is modelled. `Answers` is what the client can make of a
reply: refusals of `authenticate` are not signed, so a Deck with a credential
sees them as integrity errors.

**`HostControl`** has the window of the control application with several requests
in flight: activation and timer start a refresh without waiting for another,
only the button looks at `IsBusy`. A request connects to an instance of the
pipe, is answered by its own handler, breaks, or times out while connecting.
Once it is connected nothing bounds its wait: those in `MayHang` may wait for
ever.
`serve` counts failures of creating and of connecting together; the last one ends
the service, with exit code 0. The host itself is reduced to the displayed code
and its remaining time.

**`PairingExchange`** composes the two kinds of client with the endpoints of
several hosts over a network that loses, delays and misdelivers. A request goes
to whichever PC has the address when it arrives, a reply stays around and may be
taken for any reply that is waited for, a host may crash between the save and
the answer, and its commit may panic (`pair_panicked`), which leaves the used
code to the starts that are on the way. Cryptography is symbolic: a confirmation
verifies if both ends used the same messages and the same code, a reply decrypts
under the key of its exchange, and what a signature covers is compared field by
field. That this is what comparing the bytes comes to is proved about
`WireMessages`. The locks, clocks and limits of a host are in `HostPairing` and
`RequestAuth`; here a host answers in one step and may refuse anything. The
client of the Deck repeats its final request once (`pair_retried`), the test
client does not, but it truncates its credential file before it writes
(`pair_saved`).

**`HostStartup`** is the process from start to listening, as a service and in
portable mode, one step per system call that can fail: rotating the log in two
steps, loading the configuration, `load_or_create`, choosing a code, binding.
A process that crashes or loses power is down; one that was stopped, or whose
start or pipe failed, has ended, and nothing has to start it again.
`save` is a sequence of its own (truncate, write, move). The service writes a
temporary and moves it over the file; the development store truncates the file
itself. The file system is external: `files` is what a process reads back,
`disk` what power loss leaves. A move is written through, the data of the moved
file is not, because nothing flushes it.

**`WireMessages`** and **`Versioning`** are operators only: the bytes that are
signed or authenticated, and the comparison of versions in both languages.
`MCPairingExchange` evaluates them on examples of the repository's tests.

The `MC*` modules give the constants their values; a definition whose comment
begins with "Faulty variant" is a plausible bug, used to show that a property
would notice it, and is never part of a specification.

## Runs

| Run | Instance | Result |
|---|---|---|
| `pairing_failure_limit` | 1 source and none, 6 exchanges, the limits of the code | `FailuresLimited` is violated |
| `host_pairing` | 3 sources and none, 2 exchanges, 2 codes, 3 credentials, limits 2/2/2/1, uptime from 0, clock forward | passes |
| `host_early_boot` | 1 source, 1 exchange, uptime from 0, clock both ways, fairness | passes |
| `host_single_use` | uptime from 0 | `CodeIsSingleUse` is violated |
| `request_auth` | 1 nonce, 3 handlers, 2 credentials, window 1, times 0 to 2, clock both ways | passes |
| `request_replay` | 1 request, 1 handler, times 0 to 3 | `ShutdownAtMostOnce` is violated |
| `deck_store` | 2 devices, 2 pairings | passes |
| `deck_store_half_applied` | 1 device, 2 pairings | `NoHalfApplied` is violated |
| `device_power` | 1 poll, 1 action, 1 credential besides none, timeout 1, fairness | passes |
| `pairing_exchange` | 2 PCs, a Deck, a test client, 2 exchanges, 2 codes, 2 credentials, 2 nonces | passes |
| `host_startup` | both modes, 2 host ids, 2 codes, 4 configuration files, fairness | passes |
| `host_control` | 2 requests, one of which may hang, 2 codes, 3 failures, fairness | passes |

What the passing runs show is stated above each property in its module, and per
run in `PROJECT.json`. The four violations are places where the code does less
than its documentation says:

- `finish` does not look at the failures of a source, only `start_for_source`
  does. A source that holds several exchanges when it reaches the limit of five
  can fail each of them. `FailureBudget` is the bound that does hold, and it is
  proved: with the limits of the code, twelve.
- Within a lifetime of boot, `commit` panics after the identity was saved and
  before the code is backdated. A start that passed the AlreadyPaired test
  earlier can then pair again with the used code. `PairingContract` has this
  exception by name and `HostKeepsContract` shows that it is the only one;
  `CodesAreSingleUse` proves that without a panic a code is single-use.
- `authenticate` reads the clock twice. A duplicate that is verified in the last
  second of its window, after a restart, and recorded in the next second is
  accepted again. So is one whose window the clock had passed before it was set
  back. `AcceptedAgainOnlyLate` says what must have happened: the clock has
  shown a time past the window, or the credential was replaced.
  `ShutdownsRunOnce` proves that without either a shutdown is executed at most
  once.
- When the sync of the directory fails after the credentials were replaced,
  `_commit` removes the transaction without restoring them. Until a sync fails,
  `AtomicOperation` and `OutcomesCoherent` hold.

### Bounds

- `Horizon` and the lifetime: the code tells apart ages up to the lifetime, just
  past it, and up to twice the lifetime for an exchange. `Horizon` is past all of
  them.
- The limits of `start_for_source` are so small that each refuses someone, and
  there are more sources than `TrackedSourcesBounded` allows to be tracked.
  Three credentials are enough for one on disk, one in the last answer and a
  fresh one.
- `MaxTime` 2 with a window of 1 lets a timestamp be in the future, in the
  window, on its last second and past it. `executed` counts up to two. One
  nonce is enough, because a nonce is only compared with itself and the queue of
  failures counts its duplicates as well; three handlers let two duplicates
  overlap the original. The theorems are about any number.
- One poll: a view has at most one refresh at a time. A poll left over by an
  unmounted view keeps the next view's poll waiting in this instance; it still
  changes the controller's state at any time before it ends. One action: with
  two, the liveness properties are out of TLC's reach. That shutdowns which
  queue for the lock never overlap is proved for any number of them
  (`OneStopAlways`), and so is that an action is in the queue only until its
  outcome (`LockFollowsActions`); that each of several waiting actions ends is
  not checked. A timeout of 1 tells a wake before its deadline from one past it.
- Two PCs, two exchanges and two credentials let each client pair, with one PC or
  with both, a second pairing replace the first, and a request reach the wrong
  PC. Two nonces let an answer to one request arrive while another waits.
- Two host ids are enough to see an id change. The configuration files are a
  missing one, a malformed one, the largest port and port 0.
- Symmetry is used in safety runs only, over sets whose members the modules never
  tell apart.

### Fairness

- `HostFairSpec`: time passes, and the service is started again after a boot or
  a crash. The installer configures an automatic start and recovery actions
  (`host/installer/DeckyMyRigHost.iss`), the last of which the service control
  manager repeats.
- `FairSpec` of `DevicePower`: `useDevices` polls on an interval while it is
  mounted, a request ends at the client's timeout of four seconds, the event
  loop runs what is ready, and time passes. Nothing is assumed of the user or of
  the machine. `TransientEnds` and `OffIsShown` except behaviours in which
  refreshes go on failing for ever.

- `FairSpec` of `HostControl`: the timer of the window fires, a request connects
  or times out, an answer that has arrived is shown, the accept loop goes on, and
  the service control manager restarts a service that crashed (not one that
  stopped). That a connected request is answered or breaks is assumed of those
  outside `MayHang` only: `SendAsync` has no timeout for it. One of the two
  requests may hang, so that the other has to bring the window back.
  `RecoveryIsShown` excepts behaviours in which requests go on timing out or
  breaking for ever, `BusyEnds` those in which a request hangs for ever. Were
  every request to hang, the window would not recover.

- `FairSpec` of `HostStartup`: the service control manager starts the service
  at boot and after a crash, which meets the recovery actions of the installer;
  and a process that can go on does. Nobody has to start a service that has
  ended: an error behind the bind is reported as Stopped with exit code 0, which
  no recovery action answers. Nothing is assumed of a step that fails;
  `ServiceComesUp` excepts behaviours in which starts go on failing for ever, a
  service that has ended and is not started, and a file that power loss has torn.

## Proofs

All theorems hold for every value of the constants that the named ASSUMEs allow:
positive lifetime, failure limit, table size and transition timeout, finite sets
of sources and sessions, a horizon past twice the lifetime, and values for "no
code", "no credential", "no pairing" and "no transaction" that are none of the
real ones. What a theorem assumes beyond that is in its statement.

**`PairingCodeProofs`.** `TypeCorrect` is inductive by itself.
`FailuresWithinBudget` needs cardinalities: a start adds one exchange below the
limit, a failure moves one unit from pending to failures, and everything else
only shrinks the tables (`StepKinds` reduces `Next` to these kinds, so each
bound is proved on a few effects and not on thirteen actions). `TablesBounded`
follows the same split with the set of tracked sources. `ExchangesStartInTime`
is inductive given the types, because an exchange ages together with its code
until it is past its own lifetime.
`CommitSpendsTheCode` is about commits that returned. The steps are lemmas of
their own (`BudgetStep`, `TablesStep`, `LifetimeStep`, `CommitStaysSpent`),
because the host reuses them.

**`HostPairingProofs`.** `PairingStep` says that whatever the host does is, for
its pairing code, a step of `PairingCode` or the end of the process. With it
`HostTypeCorrect` and `HostKeepsLimits` carry the types and the four limits of
the code over to the host, crashes and restarts included. The inductive core has
two parts. `StoredInvariant` (memory equals disk, and so do the code on display
and the answer kept for retries) is inductive at every uptime and gives
`DisplayAlwaysStored` and `RetriesAlwaysDurable` without assumptions.
`SpentInvariant` (once no code is outstanding, a commit has panicked, or nothing
is pending and a start that was admitted too early finds the code expired) is
what limits the AlreadyPaired race to the panic that `host_single_use` shows.
With it `HostInvariantHolds` and `HostImplementsContract` hold at every uptime:
each step is a step of `PairingContract` or a stutter. `CodesAreSingleUse` has
`[]~panicked` as its premise. `ExpirySurvivesRestart` assumes that the
clock is not set back and relates the real age of the code to the stored and the
monotonic one.

**`RequestAuthProofs`.** `AuthTypeCorrect`, then `RecordsAreDurable`
(`recorded \subseteq stored`), from which `AcceptedShutdownsRecorded` follows:
pruning drops only what is out of the window by a clock that `latest` bounds, so
setting the clock back is no exception; a failed save leaves the list as it
was, a restart reads a list that holds all of the one in memory.
`AcceptedAgainLate` derives the action property from it. `ShutdownsRunOnce`
proves the documented promise under `RecordedInTime`: no handler records a
shutdown after the clock has passed the window of its request or its credential
was replaced.
Nothing in the code limits that wait, and `request_replay` shows what happens
without the assumption. `OnceInvariant` counts a handler that is about to execute
like an execution: a request is executed or held by one handler, never both,
never by two.

The module also has the theorems about `WireMessages` and `Versioning`. What is
signed determines what is meant: canonical requests, responses and credential
contexts are injective in their fields (the method up to case), and no request
has the bytes of a response. The argument splits off one field after the other;
a length of two bytes determines where a field ends. `VersionsComparedAlike` says
that the Deck agrees with the host wherever the host can compare (the converse
fails for numbers beyond 64 bits and digits of other scripts), `OneSideIsBehind`
that the advice is one-sided.

**`PairingExchangeProofs`.** None of the properties is inductive. The
invariant `ExchangeInvariant` follows a credential: an exchange is requested,
pending at one host, or spent, in this order (`ExchangesOnce`), so it cannot
issue a second credential after a crash or at another host; every credential in
a reply, a request, a host or a client was issued (`KeysAreIssued`,
`ClientsKnow`); and a credential is issued once (`CredentialsOnce`), so who
signs with it means the host that stored it. `CredentialsNeverShared` follows
from it too. `RetriesAlwaysStored` and the action property
`PairingUsesCurrentCode` need a second invariant, `HostsCoherent`: every exchange
that is pending at a host was opened with its code in memory, the one on display
or the used one that a panic has left usable. Hosts, clients,
exchanges, codes and nonces are arbitrary sets.

**`DevicePowerProofs`.** `PowerInvariant` adds to the types that the queue of the
lock holds exactly the actions that wait for it or have it, each once
(`LineOK`), and that what belongs to the mounted view was asked by it
(`AskedOK`), from which `AlwaysShowsItsOwn` follows. Polls and actions are
arbitrary sets, the timeout any positive number.

**`HostStartupProofs`.** `StartInvariant` says that the file of the service is
what was saved last, and that file, disk, memory and the save in progress agree
on the host id (`IdsAgree`). The part about `disk` is what carries the id over
power loss: the move is on the disk before the new identity is used.

**`DeckStoreProofs`.** `StoreInvariant` has, per stage, how far the three files
are (`StageOK`) and which contents may be left of the operation (`BaseOK`, until
a sync fails). `SuccessAlwaysDurable` needs no such premise. `OthersAlwaysKept`
adds that what an operation stores differs from what it read in its own device
only (`TargetSpares`); with the all-or-nothing result, no interruption of an
operation touches another device.

**`HostControlProofs`.** `ControlTypes` is inductive by itself. `ViewInvariant`
joins three facts about the window that need each other: what is called
unavailable is explained (`AlwaysExplained`), a busy window has a request that
has not ended (`BusyAlwaysHasRequest`), and a code on display has its expiration
(`CodeAlwaysExpires`). Any number of requests may overlap, the limit of failures
is any positive number.

Some properties are proved for all instances and no run repeats them:
`FailureBudget`, `OneStopAtATime`, `BusyHasRequest`, `CodeHasExpiration`,
`CredentialsNotShared`, `RetriesAnswerStored`, `IssuedIsReadable` and
`OtherDevicesKept`. `RecordedInTime` is an assumption and no property.

Only model-checked is what is out of the prover's reach: liveness
(`ServiceComesBack`, `ServiceComesUp`, `ActionsEnd`, `TransientEnds`,
`OffIsShown`, `PipeFailuresEndService`, `BusyEnds`, `RecoveryIsShown`), ENABLED,
and induction over data.

## Not modelled

- Cryptography and randomness beyond "fresh" and "verifies"; formatting, texts,
  HTTP framing and the options of the test client.
- The protobuf codec: the host's is generated; what the Deck's decoder computes
  is defined by a loop over bytes, and its properties need induction over them.
- The validation of addresses and MACs, discovery, the forms of the plugin, the
  update of the host, the installer and the scripts: input checks without state,
  or I/O that is done once.
- DPAPI and the access lists of files and pipe: Windows calls that succeed or
  fail.
- The deletion of a device while a poll or an action for it is in flight (in
  `DevicePower`; the store side is in `DeckStore`).
- In `HostStartup`, power loss may also tear the file of the service, because
  nothing flushes the temporary before the move. `HostPairing` and `RequestAuth`
  take the store as atomic, which `FileHoldsIdentity` justifies for crashes and
  failures of the process, not for power loss.
