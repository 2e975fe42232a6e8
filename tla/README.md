# A TLA+ model of VaulTLS

VaulTLS issues, stores, renews, revokes and distributes certificates.  A Rust
backend (`src/backend`) keeps everything in one SQLite database and answers an
HTTP API, an ACME protocol endpoint and CRL downloads; a Go agent
(`src/api-client`) pulls certificates and CA bundles onto hosts; a Vue frontend
presents the API.  This directory models the parts whose correctness depends on
the order in which things happen.

## 1. Inventory

The backend is one process with many requests in it.  The database pool has a
single connection (`max_size(1)` in `db.rs`), so one database call is atomic and
calls are serialised; a handler makes several, and everything else may run
between two of them.  Transactions spanning calls do not exist.  A handler that
is dropped by a restart leaves what it has written.  Row ids are SQLite rowids
without AUTOINCREMENT: the id of a deleted last row comes back.

| Part | State | Operations | Hard because |
|---|---|---|---|
| certificate store (`api.rs`, `db.rs`) | `user_certificates`, `certificate_versions` | create, import, manual update, in-place renewal, revoke, delete, purge of a version, backfill at start | read, check, write in separate calls; id reuse; three sources of contents guarded against each other |
| expiry watcher (`notifier.rs`) | its copy of the rows | daily pass: renew, notify once | works for minutes on a stale copy |
| ACME client (`acme_client`) | `acme_client_providers`, `acme_client_orders`, accounts and orders at a public CA | provider CRUD, order, issue, renew in place | a remote CA between reading and writing; one order handled by two requests |
| revocation (`api.rs`, `certs/tls_cert.rs`) | `revoked_at`, `crl_number`, one CRL file per CA | revoke, first download, ACME revoke, delete CA | database and file are written in turn; crashes between |
| ACME server (`acme`) | accounts, orders, nonces | new-account, new-order, challenge, finalize; administration; expiry after every response | validation over the network between reading and writing an order |
| start-up (`lib.rs`, `settings.rs`, `db.rs`) | settings file, database file and its encrypted copy, signing key | load, rewrite in place, move to an encrypted file, open | durable steps with nothing that repeats them; a kill between any two |
| sessions (`auth/session_auth.rs`) | token list in memory, cookies, service tokens | login, sliding renewal with a grace window, logout, service token | parallel requests renew one cookie; lock taken three times in a request |
| accounts (`api.rs`, `auth`) | users, service accounts, groups, settings for logins | setup, login with two generations of hashes, OIDC, users, groups, service accounts | a row checked in one call and written in another; deleted users; cookies that outlive them |
| agent, CA trust (`catrust`) | anchor directory, state file, host trust store | one `Sync` per tick | every file operation may fail, the process may die, the server changes |
| agent, reconcile (`reconcile`, `target`, `store`, `reloader`) | deployed files, state file, what the service has loaded | one deployment per domain and tick | two fetches of one archive; crash between files; state saved before reload |
| CA bundle endpoint | stamp kept by triggers (migration 18) | read with Last-Modified | a stamp that does not move hides a change from conditional clients |
| the rest | see `PROJECT.json` | | pure functions, single statements, presentation |

How they interact: the watcher, the ACME client and the request handlers share
the two certificate tables; revocation reads them and writes files; the ACME
server inserts into them; sessions live on the signing key that start-up loads;
accounts hang on sessions whose claims are not looked up again; the agent reads
the API and keeps files of its own.

What makes each part correct, in a sentence: a content is never lost, renumbered
or attributed to the wrong CA or source; a CRL lists revoked serials of its CA
and keeps listing them; a certificate is issued over ACME only for names that
were proved for that order; an order at a public CA that says valid has
delivered; no answered write and no signing key is lost by a start; replaced and
logged-out tokens die and active users are not dropped; passwords and links stay
what was last set; the host trusts what the server distributed, and its services
run with a matching, current pair.  The places where tests can hardly reach a
violation are listed as hazards in `PROJECT.json`, at their lines.

## 2. Modules

| Module | Models | Uses |
|---|---|---|
| `CertTable` | the two tables and every statement that writes them, `replace_certificate` with its three guards included | |
| `CertStore` | every handler and task around those statements, as processes | `CertTable` |
| `CertLedger` | what the store promises: an append-only, numbered ledger per certificate | |
| `Revocation` | revocation, CRL files, CRL numbers, deletion of CAs | `CertTable` |
| `AcmeServer` | registration, orders, challenges, finalisation, administration | |
| `AcmeClient` | providers, orders and renewals at a public CA | |
| `Startup` | settings, signing key and database files from `create_rocket` to the open database | |
| `Sessions` | session tokens and service tokens of the running server | `Startup` |
| `Accounts` | setup, users, passwords, OIDC, service accounts, groups | |
| `CaTrust` | one run of the agent's `Sync` after the other, with faults | |
| `Reconcile` | the agent's passes over one domain with a file target | |
| `CertStoreProofs`, `RevocationProofs`, `AcmeServerProofs`, `AcmeClientProofs`, `SessionsProofs`, `AccountsProofs`, `CaTrustProofs`, `ReconcileProofs` | the theorems | the module each is named after |
| `MC*` | finite instances | |

All modules that model handlers share one shape: a process is at a label of `pc`
named after the database call it is about to make, and carries in `reg` what it
has read.  Consecutive reads without a write of the same handler between them
are one action.  Variables commented "history" are read by properties only.

### CertTable and CertStore

A row (`Row`) keeps the columns that some guard looks at: subject, content,
`serial_hex`, whether a fingerprint is recorded, `ca_id`, imported, ACME, revoked,
version, renew method.  A content is a number (`Materials`), and `issued` says
who it is for, who signed it and where it came from: what X.509 parsing would
reveal.  Column values derived from a content (serial, fingerprint) are that
number or absent.  Two histories say what became of a content: `uploaded`, it came
in through a request, and `silent`, its expiry was announced or nobody wants to
hear of it.

`CreateBegin/CreateInsert/RecordSerial` are `create_user_certificate`; `Import*`
and `Update*` the two handlers of that name; `AcmeIssue/AcmeInsert/AcmeRenew/
AcmeReread/AcmeReplace` are `issue_acme_client_order`; `Watch*` is
`watch_expiry`.  Time is absent: any row may be due at any pass.  The
status that an ACME order gets after the replacement is part of `AcmeReplace`
here, where no property speaks of orders, and a step of its own in `AcmeClient`.

Handlers write to an id they read about earlier.  Three marks record exactly when
such a call goes astray: `reused[c]`, the labels of the handlers (and `"scan"` for
the watcher's copy) that still meant the row that had id `c` before the present
one; `overtaken[c]`, those that still meant a content of `c` that has been
replaced since; `doubled`, contents that two requests were storing at once.  A
property names the labels whose marks except a row, and no others.

`CertLedger` knows only live certificates, their numbered contents, and which
are revoked.  The mapping (`Ledger` in `CertStore`) takes the current row and
the history rows together.

### Revocation

`RevokeBegin, ReadCa, Mark, CrlRows, CrlHistory, SaveCrl, BumpNumber` are
`revoke_cert_and_update_crl` down to the file write; `DownloadBegin, ...,
BumpFirst, SaveLast` the first `download_crl`, which has the last two the other
way round; `AcmeRevoke*` the ACME endpoint, which builds no CRL; `DeleteCa*` the
count and the cascading delete.  Issuing, renewing and deleting certificates are
single steps here.  Histories: `covers`, what a request's revocation condemned;
`promised`, what an answered revocation covers; `behind`, the requests since whose
reading a revocation saved its CRL; `crossed`, the CAs whose file such a request
wrote last: the next build that is not behind takes the mark away.

### AcmeServer

A request signed with the key of account `a` is a request of `a`
(`Authenticated`).  `NewAccount*`, `NewOrder*`, `Challenge*` and `Finalize*` are
the four handlers that write; the remote side of a challenge is a free choice
unless the account is validated automatically.  `Cleanup` is the deletion of
expired orders that the response fairing performs.  Three histories are kept for
the properties: `proven`, the identifiers validated for the order that exists;
`tainted`, orders written by a request meant for a deleted order with the same
id; `contested`, accounts whose registration overlapped another or an act of the
administrator.

### AcmeClient

An order lives twice: as a row of `acme_client_orders` and, in `remote`, at the
CA.  `CreateOrder, NewOrder, StoreCreds, InsertOrder` are
`create_acme_client_order` with the registration of an account at the first
order; `IssueOrder, IssueSucceeds | IssueFails, Compare, Replace | InsertCert,
StatusValid | RecordFailure` are `issue_acme_client_order`, a renewal being an
order with `renews_cert_id`.
The CA is external: a call may fail before or after it took effect, and the
order at the CA ends once.  Expiries are `1..MaxUntil`.
`CertStore` has the same issuance seen from the certificate tables; here the
certificate row is reduced to what orders look at.  Histories: `written`, what
reached a certificate; `crossed`, the provider written by a handler that had
read it before a change of directory; `clashed`, orders with two handlers at
once or deleted under one.

The watcher's `handle_acme_renewal` is not modelled because no row reaches it: it
handles ACME rows whose method is Renew or RenewAndNotify, but such a row is
inserted with Notify (`insert_acme_client_certificate`), `update_certificate`
refuses it, a replacement keeps the method, and `update_cert_renew_method` is only
called with None.  `docs/acme-client.md` describes an opt-in that no request offers.

### Startup and Sessions

`Startup` has one action per durable step of `create_rocket`: the settings are
loaded (a file that does not parse is refused), saved by truncating (`SaveOpen`)
and writing (`SaveWrite`), the plain database is exported into `encrypted.db3`,
removed, and the copy renamed; then the settings are marked and the database
opened with the key the mark asks for.  `Kill` is possible everywhere, and
`Configure` adds or takes away the secret between two starts.  `cut` records a
kill between removal and renaming.

`Sessions` runs on top of it and loses its token list with the process.  Tokens
are numbered, their claims (`minted`) name the login they descend from.
`Authenticate, Renew, Shorten` are the three times `renew_session_cookie_if_needed`
and the guard take the lock; `Deliver` puts the answer's cookie into the
browser's jar, `Lose` does not.  Time is a counter; `TTL`, `Threshold`, `Grace`
and `Leeway` keep the order of the code's constants (3600, 900 and 60 seconds), with
room for two requests of `Latency` within the grace window and between threshold
and lifetime.  A service token is read,
signed and accepted by its signature and age alone.

### Accounts

A client is a browser with at most one session, whose claims are those of its
login.  Passwords are what was typed and the generation of the hash; the forms
"plain" and "hashed" are what old and new frontends send, and `Verify` is the
table of what matches what.  `Setup*`, `Login*`, `ChangePassword*`, `Oidc*`,
`CreateService*`, `AuthorizeService/WriteService` are cut at the calls a later
step relies on; the administrator's single-statement handlers are one action
each, with their cascades.  `Listed`, `Downloadable` and `PasswordsFor` are the
three places in the code that decide who may see a certificate, translated
separately.  Histories: `intended`, the password last set; `disturbed`, users
whose password was written by overlapping requests; `stale` in `reg`, a row that
changed hands between a check and the write.

### CaTrust

Each file operation of `Sync` is an action with a success and a failure
disjunct; `Crash` is possible before each.  The state file is replaced by a
rename, hence atomically; a temporary anchor may be left behind and is read by
the host's update command.  A response may be cut short.

### Reconcile

`ListAndSelect, Password, Download, Decode, WriteFile` (once per file of
`Layout`), `SaveState, Reload` are `Reconciler.Domain` in order; `Fail` ends a
pass before any of them, as an error or a kill.  `RunReload` is a reload of the
service by somebody else: the pass of another domain with the same service, which
`ReconcileAll` goes on to after an error here, or the agent's reload command.  The server of this module
issues, replaces in place and revokes.  A password that differs from the
archive's is modelled by one bit, which a replacement may flip.  Histories:
`repeated`, a replacement with an expiry the id had before; `dirty`, files
written without the state; `missed`, a state written without the reload; `torn`, the
service was last reloaded by somebody else while the files were half written.

## 3. Runs

| Run | Instance | Shows |
|---|---|---|
| `store_conc` | 2 requests and the watcher, 1 row id, 2 contents, 2 versions | with creations, imports, updates, revocations, deletions and purges overlapping: version numbers neither clash nor pass the current one, sources never mix (`OriginSeparated`), a row is mute only about an announced content (`NoLostNotice`), and the tables implement the ledger |
| `store_acme` | a request and the watcher, ACME client, provider deletion, imports, 1 row id, 3 contents, 2 CAs, 2 dates | `CaTruthful`, `PublicMaterialKept` |
| `store_overlap` | 2 overlapping requests cut off by restarts, 2 ids, 2 contents, 2 subjects, 3 versions | what a handler checked still holds when it writes: `SerialColumnTruthful`, `KnownAfterRotation`, `SubjectMatches`, `ImportedLeavesDistinct`, but for the marked rows |
| `store_purge` | 2 requests and the watcher, 1 id, 2 contents | violated: a version is purged although its certificate was revoked between the purge's check and its delete |
| `revocation` | 2 requests at once, 2 ids, 2 contents, 2 CA ids | `CrlSound`, `PublishedStays` with renewals, deletions and restarts between the calls |
| `revocation_history` | one request, 1 id, 2 contents, 2 CA ids | violated: after a renewal under another CA, the CRL of the old one is not rebuilt |
| `acme_orders` | 2 concurrent requests, 1 account, 1 order id (reused), 2 identifiers, 2 keys | `IssuedAuthorised`, `AccountFinal` |
| `acme_client` | 2 requests, 2 orders, 1 certificate, 2 directories, 2 accounts | `ValidMeansStored`, `AccountMatches`, `ValidStays`, `RenewalExtends` |
| `sessions` | 2 parallel requests of a browser, a service, 3 tokens, 9 time units (6 for the browser), 2 keys, 1 row | `DataKept`, `KeyStable`, `ReplacedTokenDies`, `LogoutFinal`, `ActiveKept`, `ServiceRevocationBites` |
| `accounts` | 2 browsers, 2 users, 1 service account, 1 group, 1 certificate, 2 passwords, 2 subjects | `NoOrphans`, `SetupOnce`, `PasswordSticks`, `LinkedForGood`, `ServicesWithinRights`, `ListedIsDownloadable` |
| `catrust` | 2 CAs, 1 foreign anchor, 3 faults, 3 changes of the bundle | `Tracked`, `AppliesTheBundle`, `Converges` |
| `reconcile` | 2 certificates of one name, 3 contents, 2 expiries, 2 failed passes or reloads by others | `DeployedIsCurrent`, `ServiceIsCurrent`, `LoadedTogether`, `Settles` |

The two violated properties (`revocation_history`, `store_purge`) are sentences of
the repository's own comments; `findings` in `PROJECT.json` quotes them.

**Bounds.**  Two overlapping requests are what every race in this code needs:
one that has read and one that writes.  One row id, reused, is enough for a
write that hits the wrong row, and a second id lets a row stay beside it.  Two
contents allow a replacement, three a replacement of a replaced row; two CAs a
change of issuer.  In `acme_orders` two identifiers separate "one is valid" from
"all are"; one account leaves out the refusal of a key that another account has
registered.  In `acme_client` the second order is a renewal of what the first one
delivered, or a second one beside it.  In `revocation` a CA id is created once;
that ids of CAs come back is covered by the proofs.  In `sessions` three tokens are a login and two renewals, in line
or side by side, and the browser's six units of time are a lifetime; a
service token lives on for a request, its lifetime and the leeway after a
revocation, eight units of the nine; `Latency = 1`
lets a unit of time pass within a request, so that a request may be answered
after its token's renewal was due.  Three faults in `catrust` allow a failure, a crash
while recovering from it, and a file deleted by hand.  The `Max...` constants
and `RateLimit` only bound counters; an action that would pass one is not taken.
Deadlock checking is on in every passing run.

**Focus.**  Three instances have a `CONSTRAINT` that keeps behaviours in which
independent parts are all busy at once out of the search: in `MCSessions` a
behaviour follows the browser, the service or the database, which share only the
clock, the key and the process, the browser for a lifetime and the
database, whose steps do not read the clock, at time 0; in `MCAccounts` one of passwords, OIDC, services,
sharing, repeated setup and switched-off logins at a time, which share only the
users table; in `MCAcmeClient` a behaviour with two orders at the CA is about
renewals, by one account and with the provider left alone, or about accounts, with
nothing issued.  Each part's own interleavings are complete.

**Overlaps the code does not survive.**  Where the code lets two overlapping
requests break a property and promises nothing about it, the model keeps the
overlap, a history variable marks it (`reused`, `overtaken`, `doubled`,
`behind` and `crossed`, `contested`, `tainted`, `clashed`, `disturbed`, `stale`, `gone`,
`repeated`, `dirty`, `missed`, `torn`, `cut`),
and the property excludes what is marked and nothing else: it says that these
overlaps are the only way to lose it.  The hazards name each.  Known limits of this kind are also: the duplicate check of imports is blind to
certificates issued here until a restart has filled their fingerprints; a
superseded ACME-client certificate whose serial was never filled in is unknown to
`/certificates/validate`; an anchor whose record was lost in a crash outlives its
CA; a run of `Sync` that put back an anchor deleted by hand and died leaves no
pending mark.

**Symmetry** is used on subjects, CAs, keys, addresses, directories and clients
in runs without liveness; nothing in the modules orders them.  The runs of
`CertStore` and `Revocation` have a **view** that drops what no guard reads: columns
of the watcher's copy it does not use, numbers of CRLs that are only written, and
of the marks everything but whether they except a row, which the next step's marks
and exceptions depend on alone.

**Fairness.**  `CaTrust`: `WF_vars(Sync)`.  The scheduler calls `Sync` on every
tick for as long as the agent runs, `Sync` has no unbounded wait (HTTP client and
update command have timeouts), and crashes and failures are limited in number by
`MaxFaults`, so "eventually" means: once things stop failing.  `Reconcile`:
`WF_vars(Pass)` for the same reasons, with `MaxFail`, and one assumption more: the
reload command ends.  `reloader.Run` gives it no timeout, so an operator's command
that hangs stops the agent, and `Settles` says nothing then.  The other properties are safety.

## 4. Proofs

Checked by TLAPS for every value of the constants that satisfies the named
assumptions (naturals as bounds, `Null` outside the sets it is told apart from,
the watcher not a client, foreign anchors disjoint from CAs).  Every module's
type invariant is proved, and every invariant that a run checks.  No theorem
restricts which operations there are, how many requests overlap or where a restart
falls.

* `CertStoreProofs`.  `Inv` = `TableInv` (types, every stored content was
  issued, ACME rows have no CA, `HistoryBelowCurrent`, `CaTruthful`,
  `OriginSeparated`) and `RegInv` (what a process carries was issued, uploaded
  or obtained by ACME, according to its label).  The second half is needed
  because a handler writes what it read long before.  Each statement of
  `CertTable` keeps `TableInv` by a lemma of its own; an action supplies the
  premises.  Results: `TypeCorrect`, `HistoryCorrect`, `CaCorrect`,
  `OriginCorrect`, and `StoreImplementsLedger`: each action maps to a ledger
  step or a stutter; `HistoryBelowCurrent` makes the current row the top entry.
  - *What overlaps may not break*: `SerialsTruthful`, `SupersededAreKnown`,
    `SubjectsMatch`, `ImportsAreDistinct`, `PublicIsKept`, `NoNoticeIsLost`.  The
    argument first forgets which handler moves: every step of a process inserts,
    replaces or deletes a row, changes columns, or leaves the tables alone
    (`StepShape`), and either a row is still what the other processes have read or
    the marks name the calls left behind (`Frame`).  `RaceInv` = `SubjectInv`, `SerialInv`,
    `ImportInv`, `PublicInv`, `NoticeInv` then says, label by label, that what a
    handler's reads established holds of the row it is about to write, or the row
    is marked with that label.  No property is inductive alone: the row just
    inserted has no serial until the next call or the backfill of the next start,
    and what the watcher will do is decided by its copy.
* `RevocationProofs`: `RevocationTypes`, `CrlsAreSound`.  The invariant follows a
  serial from the tables through the request that collects it to the file;
  `dead` only grows, so a list collected earlier stays sound.
  `AcknowledgedStaysPublished`, for any overlap of requests: `Pledged` are the serials
  some revocation has condemned or acknowledged, and as long as they are worn at
  all, they are worn by revoked rows (`PledgedRevoked`), which are never renewed and
  no two of which wear one material (`WornOnce`).  `Steady`, true of every step, is
  that no row comes to wear a material that was issued before.  `Due` are those a CRL file
  must list, from the moment its builder has saved it.  `Gathered` says, call by
  call, how much of them a request that is not `behind` has on its list, and
  `FilesComplete` that a file not `crossed` has all.
* `AcmeServerProofs`: `AcmeTypes`, `CertificatesAuthorised`.  `OrdersBacked` says
  that an order nobody tainted calls an identifier valid, or itself ready, on a
  proof of its own; `RequestsOwe` says the same of requests on their way to
  write that.  Forgetting an order marks the requests meant for it, which is why
  no proof is needed for them.  `AccountsFinal`: a registration under way that
  still believes the account to be pending is right, or the account is contested.
* `AcmeClientProofs`: `ClientTypes`, `ValidIsStored`, `AccountsMatch`,
  `ValidOrdersStay`, `RenewalsExtend`.  The invariant says of each handler
  what it carries, that its order, the provider it has read and the expiry it has
  compared with are still so (`RegOK`, `OrderOK`, `ProviderOK`, `ExpiryOK`), or marked; `OneHandler` says that an order which is not marked
  `clashed` has one handler, so that nobody else has moved it.
* `CaTrustProofs`: `CaTrustTypes`, `AnchorsTracked`, `UpdateAppliesTheBundle`.
  `IInv` says at each step of `Sync` who answers for the files in the directory:
  the state file, or what the run would record if it failed now.
* `ReconcileProofs`: `ReconcileCorrect`, `NeverAMixedPair`, `ServiceFollowsState`,
  `SkippedIsDeployed`.  `PassInv` says which files of `Layout` already hold the
  content of the pass; `FilesInv` that outside a write the files agree, which is what
  a reload by somebody else relies on; `RecordInv` that a record of an id and an expiry stands for
  one content, unless an expiry came back.
* `SessionsProofs`: `StartupCorrect`, `DataIsKept`, `KeyIsStable`, of the whole of
  `Sessions`.  `RowsSafe` says at each phase which of the two files has the rows
  (the copy is complete exactly from the end of the export on); `KeySafe` that
  from the first write on the settings file, when it parses, has the key in
  memory, and after the first server came up the key of that one.  Neither
  property is inductive alone: a kill throws the memory away, and only what the
  files hold carries the proof over the next start.  `SessionTypes`,
  `ReplacedTokensDie`, `LogoutIsFinal` and `ServiceRevocationHolds` are about the
  token list: the tokens of one login form a line of successors unless it is
  contested, and all but the last of the line have at most the grace window left.
  `ActiveUsersStay` (`ActiveKept`) needs an invariant of its own: the token in the
  jar is `Whole` (nobody has begun to replace it, and it has the threshold left after
  every request so far) or `Waning` (an answer with its successor is on the way, so it
  is sent for at most one more `Latency` and outlives two), and every request under
  way with another token has a waning one.  Any request that renews makes the token
  of the jar wane, whichever token it came with; any delivery makes it whole.  It
  holds while the login is undisturbed: no answer lost, no kill, no logout, no idle
  spell.
* `AccountsProofs`: `AccountTypes`, `NoRowIsOrphaned`, `PasswordsStick`,
  `ListedAreDownloadable`, `SetupHappensOnce`, `LinksAreForGood`,
  `ServicesStayWithinRights`.  Each request under way has a clause (`RegOK`,
  `SetupOK`, `MigrateOK`, `RightsOK`) about what its check established; `Respected`
  is what a step must leave alone for the clause of another request to survive,
  and every action is shown to respect them or to mark what it breaks.

Three attempts at proofs changed the model.  The token part of `Sessions` marks a
login as contested also when a renewal meets a logout that is already under way,
and an idle spell is remembered (`lapsed`) until the next login: without the
first `LogoutFinal`, without the second `ActiveKept` could only be violated by
overlaps that the small instance then had no room for.  And `SessionAssumption`
asks for `TTL >= Threshold + 2 * Latency`: if the threshold came that close to the
lifetime, of two successors delivered in turn the older could be renewed too late
for a request already under way with it (TLC shows it for `TTL = 5`, `Threshold = 4`,
`Latency = 1` with four tokens, one more than the run has).

Only model-checked: `Converges` and `Settles`, because liveness under fairness is
outside the prover's reach.  The violated properties are refuted by TLC's traces.

## 5. Not modelled

Cryptography, X.509/PKCS#12/JWS encoding, mail texts, metrics, the audit log, the
frontend and packaging.  Read-only endpoints are absent because they change
nothing, except where a property is about what they show (`Accounts`).  SSH
certificates are single insertions without history.  ACME nonces cost a client
that lost an answer one round trip and protect nothing the model has.  The domain
rules are a pure function on characters that a model could only transliterate.
The CA bundle's stamp matters only to clients that send `If-Modified-Since`,
which the agent does not.  The agents registry is one upsert per heartbeat.  The
Kubernetes target replaces the files of `Reconcile` by one API call.  Failures of
a single database call are covered where they equal a restart at that point.
The SQL of the schema migrations is not modelled.  `handle_acme_renewal` is left out
because no row reaches it (section 2, `AcmeClient`).

## 6. Plan

Done, in this order: the certificate tables and handlers, with their ledger;
revocation; the agent's trust store; the ACME server; start-up and sessions;
accounts; the ACME client; reconcile; the proofs of section 4; then the races of
`CertStore` and `Revocation` with marks in place of hypotheses.  Left, if the code
grows them: the watcher's ACME renewals once a request can switch them on, and a
second domain beside the first in `Reconcile` once deployments share files.
