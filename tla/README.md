# ZTLab: TLA+ models and proofs

A verification project for the zero-trust lab in this repository: TLA+ modules
that model its core, TLC configurations that check them on small instances, and
TLAPS proofs of the main results for all instances.

## 1. The system

A request to the protected application passes through nginx, which asks the
authz-bridge (`/validate`) whether to let it through. The bridge asks
oauth2-proxy who the user is, reads the posture of the device from a shared JSON
file, and puts the input it has gathered to OPA, twice: for the decision and for
the reason. On every device a timer runs the posture agent, which rewrites the
shared file. What is let through goes to the demo application, or to another
handler of the bridge: the dashboard, the peer API, the risk score. Peers are
provisioned through that API or by a script. A revocation service follows a
posture log and removes the WireGuard peers and the sessions of devices that
degrade.

### Inventory

| Component | State | Operations | Hard parts |
|---|---|---|---|
| Posture agent, `scripts/posture_check.py` | none of its own; a private copy of the store during a run | run checks, read store, truncate, write | one process per device, no lock, no atomic rename, own clock, may die between steps |
| Posture store, `shared-posture/posture.json` | one record per address | `get_posture` (read), rewritten whole by the agents and by registration | torn, lost and reverted writes; age and signature are all that protects a reader |
| Registration, `scripts/wg-add-peer.sh` | WireGuard peers, peers.conf, store | check, wait for a confirmation, add peer; seed, read, rewrite | same file, other error handling (`set -e`, no handler for JSON); runs overlap, and what was checked before the wait is used after it |
| Policy, `gateway/opa/policy.rego` | none | `allow`, `reason` | alternatives and complete rules; session ages at their limits |
| Enforcement, `authz-bridge/app.py` `validate`, nginx | a request per worker | identity, posture, two queries, response | state read before a call and used after it; one call of several failing; what nginx tells the bridge of the request |
| Revocation, `scripts/posture_revoker.py` | `device_state` in memory | a pass over the log every few seconds | memory lost at a restart, whole log read again, calls that fail, lines that stop a pass |
| Identity provider, oauth2-proxy | sessions | login, logout, expiry | third party; seen through `check_identity` only |
| Peer API, `app.py` `/api/peers` | WireGuard peers | add, remove, list, next-ip | check-then-act on addresses and keys; `wg` failing halfway; a second provisioner that does not know of it |
| Risk score, `app.py` | none | pure function of a session and a verdict | looked up again after the decision |
| Demo application, `app/app.py` | data objects with labels | pages, filter by clearance | trusts the header nginx forwards; labels by path |
| SSH audit, `scripts/ssh_audit.py` | the report of the run before | collect, compare, truncate, write | overlapping runs, runs that die, files that cannot be read |
| mock-oidc, `gateway/mock-oidc/app.py` | none | token, userinfo | test double |
| Dashboard, `app.py` `/admin`; `scripts/health_utils.py` | none | render a page; unused helpers | |

How they interact: agents, registration and bridge share the posture file and
nothing else; nginx, bridge, oauth2-proxy and OPA call each other over HTTP with
timeouts; the revoker reads a log file and calls `wg` and Authentik's API. The
peer API, the script and the revoker act on one WireGuard interface without a
lock; the API looks for a free address in the posture store only, where the
script and the agents list theirs.

What makes each part correct:

* store: a device is seen healthy only if it did pass its checks recently,
  whatever happens to the file; runs that do not overlap lose nothing; an
  unreadable file does not stay unreadable;
* policy: who is allowed what, that time only takes access away, that a reason
  is always given;
* enforcement: what is let through is justified at the time of the request; the
  reason agrees with the decision and was the policy's own for this input; every
  request is answered; the rules for a path protect that path (they do not: see
  section 6);
* revocation: a degraded device is revoked in spite of failures and restarts,
  and no session or peer ends without a cause in the log;
* behind the decision: nobody is served data above his clearance or above the
  label of the response, and the risk score contradicts no decision;
* peers: a peer that the script added, alone on its key and address, keeps its
  address, and no peer is there that nobody was told of, whoever dies halfway;
* SSH audit: no key enters the report without a change being announced, and an
  unreadable report does not stay unreadable.

## 2. The modules

| Module | Models | Built on |
|---|---|---|
| `Clocks` | devices, the gateway's clock and the devices' skews | |
| `PostureView` | abstract store: what a reader may find | `Clocks` |
| `PostureStore` | agents, registration script and readers on the shared file | `Clocks`; implements `PostureView` |
| `Policy` | `policy.rego` as operators | |
| `AuthzBridge` | `validate()`, nginx, sessions, OPA's answers | `Clocks`, `Policy`; composes `PostureView` |
| `DemoApp` | the routes of the demo application as operators | |
| `RiskScore` | the risk score as operators | `Clocks` |
| `MockOidc` | the token and userinfo endpoints as operators | |
| `Gateway` | a request from nginx to its answer | `AuthzBridge`, `DemoApp`, `RiskScore`, `MockOidc` |
| `Peers` | peer API, `wg-add-peer.sh` and the removals of the revoker on one interface | |
| `Revoker` | the revocation service and what it acts on | |
| `SshAudit` | runs of the SSH audit on one report file | |
| `EndToEnd` | the gateway on the shared file itself, and theorems about it | `PostureStoreProofs`; instantiates `GatewayProofs` |
| `PostureStoreProofs`, `PolicyProofs`, `AuthzBridgeProofs`, `GatewayProofs`, `PeersProofs`, `RevokerProofs`, `SshAuditProofs` | theorems | the module they are named after |
| `MCPostureStore`, `MCAuthzBridge`, `MCGateway`, `MCPeers`, `MCRevoker` | constants for TLC | |

### Correspondence with the code

**PostureStore.** `file` is the shared file: missing, empty (truncated),
garbled, or a store with a record per address. `run[w]` is a writer's process:
its program counter, the key and record it is to write, and its private copy.
`Check` is `main` of the agent up to the verdict: the three checks, the stamp
and the host name's address, taken as one step. They read the device and its
clock only, which nobody else in the model changes or looks at, and an agent
that dies among them is one that never started. `Load` the `json.load` with its
handler, `Open` the truncation by `open(..., "w")`, `Dump` the write.
`RegisterStart`, `SeedOpen`, `SeedWrite`, `RegisterLoad` and the same `Open` and
`Dump` are `register_posture`. `Abort` is a process that dies. `Overwrite` says
what two descriptors on one file can leave behind: the text written last, or,
if an earlier text is longer, that text's tail behind it. `get_posture` and
`verify_posture_sig` are the reader. `genuine`, `exclusive` and `written` are
history: when a device truly passed its checks, whether the writers have had the
file one at a time so far, and what was last written for each address.

**PostureView.** `view[d]` is the stamp of the healthy verdict a reader finds
for device d. `Publish` lets it become, for any set of devices at once, any
verdict the device ever earned or none: that is how little the file promises.

**Policy.** One operator per rule, with the rule's name. `reason_rules` has a
field per body of `reason`; `reason` is the value OPA gives: the only one that
holds, the default, or an evaluation error when several do. Paths are the
locations nginx protects, as the rules look at prefixes only, and `/validate`,
which is what the bridge really sends. OPA's clock is taken to be the gateway's,
in whole ticks.

**AuthzBridge.** `req[w]` is the request of gunicorn worker w. Its steps are the
calls `validate()` makes: `Identity`, `Posture`, `AskAllow`, `AskReason`, then
`Decide`. Between any two of them sessions (`Login`, `Logout`), the posture view
and the clock may change. `EngineFaults` says how a call to OPA may fail;
`Parse` is the end of the `try` block, in the order of its assignments.
`location` is what the client asked nginx for; it decides where nginx forwards
the request. The path of the policy is another matter: `validate()` takes it
from the header `X-Original-URI`, which `ztlab.conf:64` sets to `$uri`. nginx
evaluates that variable in the subrequest of `auth_request`, where it is the
subrequest's own URI, so `X_Original_URI` is `/validate` for every location and
every request is classified public and decided by the rule for paths without a
rule of their own.
`WorkerKilled` is any request that ends in a server error. `nginx` maps the
status to what the client gets. `start` and `held` are history: when the request
began, and the sessions its user had until the bridge asked for them.

**Gateway.** `up[w]` is what nginx forwards for request w once the bridge has
let it through: `Forward` picks the upstream of the location, `Serve` is the demo
application on the path and on the clearance header, `RiskIdentity`,
`RiskPosture` and `risk_score` are the handler of `/api/risk-score` with its two
look-ups, `BridgePage` the dashboard or the peer API, `UpstreamFails` an
upstream that is down, dies or is too slow, `Reply` the answer to the client.
`clearance_header` is the constant `user`: `check_identity` returns no `role`,
so `identity.get('role', 'user')` never finds one. The new steps leave the
variables of `AuthzBridge` alone, but for `Reply`, which is its `Finish`: what is
proved of the bridge holds of the gateway too (lemma `GatewayIsBridge`).

**EndToEnd.** The variables of `PostureStore` beside those of `Gateway`, whose
`view` is `viewOf`, what readers find in the file. A `FileStep` is any step of
the agents, the script or the clock, a `GatewayStep` any step of users, bridge,
nginx and application; neither side changes the other's state, and they
interleave freely. Nothing in it models code of its own.

**DemoApp, RiskScore, MockOidc.** One operator per function or route, with its
name. A location of nginx is a prefix, so `responses` gives the answers for every
path below it, 404 included. Page texts, retention and colours are left out. A
token of the mock provider is the claims it was made with; base64 and the
constant signature are left out, since nothing checks them.

**Peers.** `present` and `allowed` are the interface, `store` the addresses a
reader finds in the posture store, `req[w]` an API request, `script[s]` a run of
`wg-add-peer.sh`; runs overlap each other and the API, as nothing takes a lock. A
request goes through `Authorize` (403, 400), `Pick` (the asked or the next
address, 507), `List` (`wg show`, which may fail and then reads as no peers; 409,
404), `Set` and `Audit`; `Fails` is a `wg set` that fails or times out, before or
after it took effect, and a worker that dies. A run of the script checks the
address and the key, waits for its confirmation for any time (`Confirm`), sets the
peer (`assign_peer`) and lists the address (`register_posture`, here one step: its
races on the file are in `PostureStore` and appear as `StoreLost`). `assign_peer`
takes the log line, `wg set`, the entry in `peers.conf` and the second log line as
one step. Nothing reads `peers.conf` or the log, so a run that dies among them is
`ScriptDies` before or after it, and a removal by somebody else falls between it
and `register_posture`. An address is its last octet, so that `grep` can match 2
in 20 as the script's does.

The rest is history: `reported`, whose addition somebody was told; `alone`, of a
run, that no other run and no `add_peer` about the same key or address was at work
at any time during it; and `given`, what `ScriptPeersKeepAddress` expects.
`given[k]` is set when a run that is `alone` adds k, and dropped when

* k is removed, by the API, the revocation service or a restart of the interface;
* the record of the address is lost from the store, or the run dies before it has
  written it;
* `add_peer` looks for a free address between `wg set` and that record, and finds
  this one;
* a `wg show` fails which would have shown the peer, to `add_peer` for the same
  key or to a run of the script for the same key or address;
* the address is asked for in a request to `add_peer`, which checks no address.

A run that is not `alone` gives nothing: that two runs, or a run and an
`add_peer`, take one address from each other is what `script_race` shows.

**SshAudit.** `host` and `auth` are the keys of the machine, `file` and `report`
the report, `run[r]` a run: collecting the host keys and then the authorized
keys (either may fail in part), `Compare`, `Open` (truncation), `Dump`. The timer
has one run at a time (`Type=oneshot`); runs by hand overlap it. `mixed` marks a
run that writes over text another run wrote after this one truncated the file.
`known` is history: the keys that a flagged or a first report has announced.

**Revoker.** `log` is the posture log, `allowed` the interface's peers,
`sessions` the users logged in. `StartPass`, `Scan`, `Remove`, `Removed`,
`RevokeSessions` and `EndPass` are a pass of `process_posture_log`; `GiveUp` is
an error that reaches `main`; `Restart` is systemd's. Each call may fail
(`Fault`, bounded by `MaxFaults`), with or without having taken effect.
`revoke_authentik_sessions` searches for the email and takes the first user
found: `FirstMatch[e]`, a constant, is that user, the owner of e or another whose
name or email contains it. A verdict is `True`, `False`, or a value such as null
that is neither for `is`. Lines that are skipped, lines that raise and lines that
are no text are kinds of line: one that raises ends every pass where it stands,
one that is no text keeps every pass from starting (`Undecodable`), and the log
is never rotated. Who writes the log is not in the repository: `Report` adds any
line. Device ids are taken to be addresses, and `AUTHENTIK_TOKEN` to be set:
for a device known by a name the service finds no peer, and without a token it
ends no session, whatever the log says.

## 3. Runs

| Run | Configuration | Checks | Shows |
|---|---|---|---|
| `store_races` | two devices, the second's clock one tick ahead; one crash; age limit 1; three clock values | `TypeOK`, `HealthyIsGenuine`, `ViewSpec` | no race, crash or revert makes up a healthy verdict; the file implements `PostureView` |
| `registration` | one device whose host name may resolve to loopback, the script; two crashes | `SerialRunsKeepVerdicts`, `StoreRecovers` | runs one at a time lose no verdict; an unreadable store recovers |
| `decisions` | one worker, one user, one device; engine unreachable, answering with an error or talking nonsense; `/sensitive`, `/api/data`, `/admin`, `/api/risk-score`; three clock values | `TypeOK`, `GatewayTypeOK`, `GrantJustified`, `ReasonMatchesDecision`, `ReasonIsTrue`, `ServedWithinClearance`, `LabelCoversContent`, `StepUpMeansChange` | grants are justified; the reason says allowed exactly for what is let through, but for a session that grows too old between the two queries, and is the policy's for this input; served data stays within clearance and label; the score contradicts no decision |
| `answers` | `/public`, `/api/peers`, `/api/risk-score`, all engine failures, one clock value | `EveryRequestAnswered` | every request is answered |
| `peers` | two keys and all prefixes, one worker, two runs of the script, two addresses to hand out, addresses 2 and 20 asked for, `wg show` may fail | `TypeOK`, `ScriptPeersKeepAddress`, `EveryPeerReported` | peers that a run added alone on key and address keep their addresses; no peer is unreported |
| `revoker` | one device, two peers, one email and two users of whom the search finds the other, three lines of any kind, one failure, two provisions, one restart | `TypeOK`, `RevocationHasCause`, `AccessEndsWithCause`, `DegradationIsRevoked` | degradation is acted on in the end; nothing is revoked, no session ended and no peer removed without a cause |
| `ssh_audit` | two accounts, one key, one fingerprint of the host key or an error in its place; the timer and one run by hand at a time, two in all; one death | `TypeOK`, `NewKeysAnnounced`, `ReportRecovers` | no key slips in; an unreadable report is replaced |
| `engine_failure`, `sensitive_reauth`, `script_race`, `revoker_order`, `next_ip` | smallest instances | one property each | the disagreements of section 6 |

**Bounds.** `MaxTime`, `MaxCrashes`, `MaxRegistrations`, `MaxLogins`, `MaxLog`,
`MaxFaults`, `MaxProvisions`, `MaxRestarts`, `MaxManual`, `MaxDeaths`; each is a
guard of one action. Three clock values with an age limit of 1 (store) and limits
of 0, 0 and 1 (sessions) put a verdict and a login on both sides of every limit,
before and between the steps of a request. One crash is what it takes to leave the
file empty, two to leave it so again after a recovery has begun. Requests share no
state but what the environment changes at will, so one worker shows what several
do. Three lines hold a degradation with something before, between or after it, one
failure and one restart leave each step of a revocation undone once; two users are
what it takes for the wrong one to be found; two entries of the same device in the
wrong order are what `revoker_order` needs. Two runs of the script and one request
make every pair of provisioners overlap (two runs, or a run and the API; two
requests meet in `next_ip`). Two addresses let the pool run out and the store list
an address no peer has; 2 and 20 are one a prefix of the other; `Peers` has no
counter and needs no bound. Two runs by hand and one of the timer can truncate,
write and die in any order. `HalfHour` and `Hour` are 0 and 1 tick, so sessions
get all three scores. The safety results are proved without these bounds. All
instances have deadlock checking on: none of the models stops.

**Fairness.** `PostureStore`: weak fairness of each agent, because the timer
starts it every 60 s (`ztlab-posture.timer`) and each of its queries has a
timeout; the registration script, which waits for an administrator, has none.
`Gateway`: weak fairness of the steps of each worker and of what nginx does with
the request, because every call has a timeout (3 s in the bridge, nginx's own for
upstreams) and gunicorn kills silent workers; nothing is assumed of users,
sessions or the store. `SshAudit`: weak fairness of the timer's runs
(`OnCalendar=daily`, and each step of a run ends); runs by hand and deaths are
bounded in number, since a report that is destroyed for ever does not recover.
`Peers` has no liveness property and no fairness. `Revoker`: weak fairness of the
service as a whole, because `main` never leaves its loop, systemd restarts it, and
each call has a timeout; failures and restarts are bounded in number, which is
what "eventually" needs: a service whose calls all fail revokes nothing.

## 4. Proofs

All for any sets of devices, addresses, users, workers and any bounds, from the
named assumptions `ClockAssumption`, `StoreAssumption`, `PolicyAssumption`,
`BridgeAssumption`, `RiskAssumption`, `PeersAssumption`, `RevokerAssumption`,
`AuditAssumption`, which TLC evaluates in the runs. The ones with content:
addresses identify devices and no agent files under another device's address;
clocks count from an epoch further back than the age limit; `ReauthWindow <=
StaleAge <= VeryStaleAge`; `/validate` is no location of a client, being
`internal` in `ztlab.conf`. `FirstMatch` is assumed to be a function from emails
to users and nothing more: the search may find anybody. Every invariant and every
action property of a passing run is proved.

* **`PostureStoreProofs`.** `HealthyIsGenuine` says nothing of the writers'
  copies, which hold the verdicts of tomorrow, so it is not inductive. `IInv`
  adds that every record, in the file, in a copy or about to be written, is
  sound: a healthy envelope under the address of d carries the stamp of a
  time in `genuine[d]`, and anything else carries no stamp a reader accepts.
  Soundness only needs `genuine` to grow and survives copying, reverting and
  truncation. From `IInv` follow `TypeCorrect`, `HealthyIsEarned` and
  `StoreImplementsView` (each step of the store is a step of `PostureView` or
  a stutter under `view <- viewOf`). `SerialRunsKeepVerdicts` speaks of the
  moments between two runs. What carries it over a run is `SerialInv`: while the
  runs have been one at a time, at most one writer has the file, its copy is what
  was written so far with its own record changed (`Faithful`), and the file is
  what was written so far (`Settled`) unless that writer has truncated it. Hence
  `SerialRunsLoseNothing`.
* **`EndToEnd`.** `ReaderSeesView` shows that `get_posture` on the file and the
  question the bridge asks of the abstract store have the same answer. With
  `StoreImplementsView`, `SystemImplementsGateway` maps each step of the
  composition to a step of `Gateway`, and its theorems come down to the file:
  `SystemGrantsJustified`, and `SystemDataJustified`, the end-to-end statement: no
  object is handed out unless the device passed its checks recently and the user
  held an active session with a second factor that was not too old, whatever the
  writers did to the file. The two have as hypotheses the named assumptions of the
  gateway's modules (`GatewayConstants`), which TLC evaluates in the runs of
  `Gateway`. The composition has no run: two devices' agents times a request is
  too large for the time a run may take, and its parts have runs of their own.
* **`PolicyProofs`.** `AllowIsPermitted` reduces the eight `allow` rules to one
  formula, `AllowAntitone` shows that access is only lost with time,
  `ClearanceRulesRedundant` that the classification rules change no decision,
  `ReasonAllowed`, `ReasonAlwaysGiven` and `DenialReasonsDeny` tie `reason` to
  `allow`. `ConflictExactly` says for which inputs two bodies of `reason` hold, so
  that OPA gives none: a clearance below the classification, or a session past its
  age on an admin path without the admin group, and no other.
  `ClearanceReasonNeverGiven` follows: "insufficient clearance" reaches nobody.
* **`AuthzBridgeProofs`.** A grant rests on what earlier steps read, so `IInv`
  has every request carry its justification (`SoundRequest`): claims with a
  second factor are those of a session in `held`; a healthy posture was earned
  recently enough for the start of the request; a positive answer of OPA, a
  decision or a 200 implies both; after a positive answer `allow` held of this
  input when the request began, and after a negative one there is an earlier time
  at which it did not. With it `GrantsAreJustified`. `ReasonsMatchDecisions` needs
  `AllowAntitone` for a denied request, since the reason is evaluated later than
  the decision, and for one let through that the 24 hours are the only thing time
  can add. `ReasonsAreTrue` says which reason may be reported: what `Parse` leaves
  in a request is the policy's answer to this request's input, between its start
  and now, or one of the two placeholders; its induction needs that the input of a
  request does not change once OPA is asked. `GeneralRuleDecides` is finding 3 of
  section 6 in full: for every request the policy comes down to session, second
  factor, device and the 24 hours, with one reason. `NoLocationReasons` follows:
  nobody is ever told of a recent login, the admin group or a clearance.
* **`GatewayProofs`.** By construction every step of the gateway is a step of the
  bridge or a stutter (lemma `GatewayIsBridge`), so `IInv` of `AuthzBridgeProofs`
  holds of it too. `GInv` adds what an upstream request rests on
  (`SoundUpstream`): it exists only for a request that was granted, its objects
  are within the clearance `user` and within its label, and a step-up has a
  changed identity or an unhealthy finding behind it. The last needs the score of
  an unchanged look-up (`AllowedScoreIsLow`): an allowed request has a second
  factor and so at most 30 points for its session and 15 for its verdict; hence
  the hypothesis `RISK_THRESHOLD > 45` of `StepUpsMeanChange` (the default is 70).
  `ScoreGrowsWithAge`: the score stays between 0 and 100, as its docstring says,
  and waiting never lowers it.
* **`PeersProofs`.** `EveryPeerReported` is almost inductive: a peer is added by
  `Set`, whose request stays at `audit` until it reports or fails, or by the
  script, which has logged the key before. `ScriptPeersKeepAddress` rests on five
  facts: a run that is `alone` has no key and no address in common with anybody at
  work (`Apart`); an address given is in the store or its run has still to write
  it (`GivenIsListed`); so the address a request has picked, the key it found no
  peer for, and the address a run has checked belong to nobody (`PickedFree`,
  `AddedNew`, `Checked`), however long the run waits for its confirmation.
* **`SshAuditProofs`.** A run that compares may write long after another run has
  replaced the report, so `NewKeysAnnounced` is not inductive: `IInv` adds that a
  run which says nothing changed carries only keys that are announced already.
  `known` only grows.
* **`RevokerProofs`.** `RevocationHasCause` needs that the memory of earlier
  passes is backed by the log (`MemoryIsLogged`), that lines read stay there
  (`ReadIsLogged`), and what is known while a revocation is under way
  (`ActsOnUnhealthy`). `AccessEndsWithCause` is an action property and follows from
  the same invariant, step by step (`AccessNeverEndsWithoutCause`): the only steps
  that end a session or empty a peer are those of a revocation under way, which has
  its cause, and `Provision`, which hands the addresses on.

**Model-checked only.** The liveness properties, which are beyond the prover:
`StoreRecovers`, `EveryRequestAnswered`, `DegradationIsRevoked`, `ReportRecovers`.

## 5. Not modelled

Rate limiting (it refuses requests before anything is decided), TLS, nftables,
WireGuard's own handshake and the logging stack: configuration of third-party
software. What the dashboard renders: it reads the store and the peers, changes
nothing, and nothing acts on it; who may reach it is in `Gateway`.
`health_utils.py`, which nothing uses. The wording of logs, pages and headers.
Writes of the store larger than a buffer, which would add torn states a reader
rejects like the empty one.

## 6. Where the code and its documents disagree

1. `next_ip`: `_next_available_ip` looks in the posture store, which `add_peer`
   never writes; the address it calls available may be that of a peer, which
   loses it.
2. `engine_failure`: `allowed` is set before the second answer is parsed; if
   that fails the request is let through while the bridge logs "failing closed".
3. `sensitive_reauth`: `ztlab.conf:64` tells the bridge `$uri`, which in the
   subrequest is `/validate`, so OPA never sees the location. `/sensitive` is
   opened by a session of any age below 24 hours, where `phase5-checkpoint.md:68`
   says it is denied after 5 minutes. For the same reason the gateway does not ask
   for the admin group at `/admin` and `/api/peers`, nor apply a classification
   (`GeneralRuleDecides`); `add_peer` and `remove_peer` ask for the group
   themselves, the dashboard, `list_peers` and `next_ip` do not.
4. `script_race`: two runs of `wg-add-peer.sh` for one address both pass
   `check_duplicate_ip` and wait at their prompts; once both are confirmed the
   second takes the address from the peer of the first, which the check exists to
   refuse.
5. `revoker_order`: each pass compares the first entry of a device with the last
   one of the pass before, so a device that recovered is revoked again; phase 6
   describes transitions from healthy to unhealthy.

Seen while modelling, with no run of their own:

* In the policy itself, for a caller that did send the path: the allow rules with a
  clearance are alternatives to the ones without, so they change no decision
  (`ClearanceRulesRedundant`), although the comment over them
  (`policy.rego:95-96`) says clearance is required in addition; and the body of
  `reason` for insufficient clearance (`policy.rego:137`) never gives its value
  (`ClearanceReasonNeverGiven`), because another body always holds with it
  (`ConflictExactly`), which would read "unknown" at the client. Correcting
  `ztlab.conf:64` alone would bring both to light.
* One line of the posture log that is no text stops the revocation service for good
  (`posture_revoker.py:191`), and an entry whose verdict is neither true nor false
  hides a degradation that follows it (`posture_revoker.py:213`).
* `revoke_authentik_sessions` searches for the email as a text and ends the sessions of
  the first result: if another user's name or email contains it, that user is
  logged out and the one meant is not (`posture_revoker.py:104`).
  `DegradationIsRevoked` is stated for the user found.
* With a secret at the gateway only (the default of `docker-compose.yml`), unsigned
  verdicts are refused (`app.py:73`); the comment of `sign_entry`
  (`posture_check.py:40`) says they are accepted. The model has both settings.
* The clearance header is always `clearance=user` (`app.py:270`), so no caller gets
  an object above INTERNAL through the gateway, administrators included, although
  `app/app.py` has levels for them. With the role OPA is told instead,
  `LabelCoversContent` would fail: that is its mutant.
* `wg-add-peer.sh` writes `peers.conf` and nothing reads it back: a restart of the
  interface drops its peers (`Restart`).
* Tokens of mock-oidc have neither `amr` nor `auth_time`, so their sessions pass no
  rule of the policy.
* `ssh_audit.py` documents `--output` and does not parse it.
* The dashboard shows verdicts the gateway refuses, for their age or signature.

## 7. Plan

Done: all modules of section 2 and their proofs. Left:

1. the interface the revocation service acts on, as `Peers` has it and as `Revoker`
   has it: one abstract interface that both implement;
2. action properties of the peer API (what a `DELETE` may never remove) and of the
   audit's report.
