# Invoices & Contracts: models, model checking, proofs

Invoices & Contracts is a web application of one axum server over one SQLite
file. An administrator logs in, keeps customers, invoices and contracts, and
sends each customer a link under which the parties of a contract sign it. This
directory holds TLA+ models of the parts in which several requests meet, the TLC
configurations that check them, and TLAPS proofs about them. Paths below are
relative to `src/` of the repository.

- [Inventory](#inventory)
- [How the code runs, and what a step is](#how-the-code-runs-and-what-a-step-is)
- [Modules and the code they model](#modules-and-the-code-they-model)
- [Runs](#runs)
- [What is proved](#what-is-proved)
- [Where the code and its words part](#where-the-code-and-its-words-part)
- [Not modelled](#not-modelled)
- [Plan](#plan)

## Inventory

| Component | State | Operations | Interacts with |
|---|---|---|---|
| Contract signing (`handlers/contracts.rs`, `crypto.rs`) | tables `contracts`, `contract_signature_slots`, `contract_signatures` | create, update, delete (administrator), sign (customer) | the gate and the limiter in front of it; the proof pages read its tables |
| Proof pages (`handlers/contracts.rs`) | none | view, signed, verify, download | read the three tables in separate statements |
| Customer gate and rate limiter (`rate_limit.rs`) | one map from address to count and window start, behind a lock | check, record a failure, reset | login, setup and four contract handlers call it |
| Sessions (`auth.rs`, `handlers/auth.rs`) | tables `jwt_tokens`, `refresh_tokens`; the cookies of browsers | login, refresh in the `AuthUser` extractor, logout, verify | in front of every handler of the administrator |
| User account (`handlers/auth.rs`) | table `user` | check setup, set up, read and change the profile | claims of tokens name the user by email |
| Connection pool (`db.rs`) | ten connections | get, return, time out | every handler; `view_invoice_handler` and `setup_first_user` take two |
| Customers and invoices (`handlers/crud.rs`) | tables `customer`, `invoices` | list, get, create, update, delete | foreign keys from contracts and invoices to customers |
| Invoice totals (`main.rs`, `models.rs`, `js_invoices.html`) | none | subtotal, taxes and discounts, total, balance | the invoice page and, computed a second time, the dashboard |
| Migrations (`migrations/`) | the schema and old rows | up, down | contracts signed before slots existed |
| Configuration, start-up (`config.rs`, `main.rs`) | environment | read once | |
| Pages and scripts (`templates/`) | a browser | forms and calls | all handlers |
| Cryptography (`crypto.rs`) | none | keys, Ed25519, SHA-256 | signing and verification |

What is hard in each, and what makes it correct:

- **Contract signing.** `sign_contract` reads the contract, the slot and perhaps
  the other signatures, then writes three times, each statement committed on its
  own; in between other requests run, and the request may end. Correct means: no
  signature is lost, replaced or put in a slot of another contract; a contract is
  shown as signed only when everyone has signed; signed is final and its proof
  page verifies; when the last party has signed, the contract becomes signed.
- **Proof pages.** Three or four reads of a state that moves. Correct means: a
  page shows no filled slot without its signature, and a page that says signed is
  complete and verifies, whatever happened between its reads.
- **Rate limiter.** Check and record are two calls with an await between them;
  whole minutes; cleanup on behalf of others. Correct means: a bound on how far
  the limit is overrun, nobody refused without cause, no open window forgotten.
- **Sessions.** A refresh is five statements; two requests may refresh with one
  token; logout may run in the middle; handlers may drop the new tokens; the
  answer may be lost; two JWTs of one second are the same string. Correct means:
  revoked tokens are not served, rotation does not log a browser out, logout ends
  the session, one refresh token per session.
- **User account.** Check that no user exists, hash a password, insert; email
  changes against claims issued earlier; two updates of one profile at once. Correct
  means: a race of set-ups is bounded, a token leads to the account it was issued
  for, a password changes only by somebody who knew it.
- **Connection pool.** Two handlers wait for a second connection while they hold
  the first. Correct means: nothing else can bring the pool to a stop, and every
  request ends.
- **Customers and invoices.** Deletes beside writes. Correct means: no invoice
  without its customer, nothing deleted comes back, the invoice page misses a
  customer only for cause.
- **Migrations.** Contracts signed before the slots must satisfy what the pages
  assume.
- **Invoice totals.** Two computations, in two languages, over whatever JSON the
  columns hold. They do not agree on all of it (below), and are not modelled.

`PROJECT.json` lists the hazards line by line, with the properties that watch
each of them.

## How the code runs, and what a step is

Every request is a task of the tokio runtime. It may be suspended at each
`await`, and when its client hangs up axum drops it there; what it has written
stays. There is no transaction except in `create_contract`. So one action of a
model is one statement that SQLite executes (or one transaction, or one method
of the limiter, which holds the write lock throughout), together with the code
up to the next await; local variables that live across an await are fields of
the request's record in `req`. This is where stale reads come from, and the
models keep them: a request writes from the row it read, not from the row of now.

Conventions used in all modules:

- A table is a function whose domain is the set of its keys.
- A request in flight is a member of `DOMAIN req`; its `pc` names the next
  statement. `Begin` lets it in, `Return` removes it.
- `Abort` stands for a statement that returns an error (there is no busy timeout,
  so two writers can meet with `SQLITE_BUSY`), a dropped connection, a client that
  hangs up, or a stopped process.
- The clock is a variable that only goes forward. A system clock that is set back
  is outside the models.
- An operator whose name ends in `Bug` is a wrong version of the definition below
  it. Nothing uses it; put in its place, it makes the property of the same run
  fail, which is how we know that the property says something about the code.

## Modules and the code they model

### SigningPromise, SigningPromiseProofs

What the service promises to the parties, without requests, slots tables or
counts: a contract is offered to a set of parties, each signs at most once, it
completes when all have, and it may be withdrawn only before anyone signed.
`Kept` and `Irrevocable` are its own properties. `ContractSigning` implements it
(`KeepsPromise`): phase is the status column, or absent or withdrawn; the
parties are the slots; the signers are the slots with a row in
`contract_signatures`.

### ContractSigning

`handlers/contracts.rs` over its three tables.

| Action | Code |
|---|---|
| `CreateContract` | `create_contract`, one transaction: contract and n slots |
| `UpdateContract` | `update_contract`: a PUT of the row; `AsChangeset` leaves a column alone whose field is absent |
| `DeleteContract` | `delete_contract`: refused by the foreign key when there is a signature, cascades to the slots |
| `Begin` | the request is past `verify_customer_uuid` and holds the contract row; the slot id is the client's |
| `LoadSlot` | the slot is read and every check made (`MaySign`); whether this signature is the last is decided here, on the snapshot (`IsFullySigned`) |
| `LoadSignatures` | only if it is the last: the existing signatures for the final hash |
| `InsertSignature` | the INSERT, which the unique index or the foreign key may refuse |
| `FillSlot` | `UPDATE ... SET is_filled` |
| `CountSignature` | the last UPDATE: count, status and final hash from the snapshot (`CountedRow`), and the answer |
| `Abort`, `Tick` | see above |

Abstractions. Keys, names and the signature bytes are left out: they distinguish
nothing here. SHA-256 has no collisions, so a hash is what it covers.
Whether a deadline has passed is the code's own comparison (`Expired`), in the
properties too: they say that what it calls expired stays closed, not on which side
the exact instant falls.
`generate_final_hash` covers text and signatures in table order; the rows of
`contract_signatures` never change and their order is that of their ids, so the
set of slots and the last one determine it. Contract ids are random UUIDs and are
never drawn twice. An `expires_at` that does not parse never closes a contract
and is `None`. Foreign keys are enforced: the bundled SQLite of `libsqlite3-sys`
is built with `SQLITE_DEFAULT_FOREIGN_KEYS=1`.

`SigningNext` is everything except `UpdateContract`: no page of the dashboard
sends that PUT, and most promises about counts and status cannot hold for a row
that an administrator may overwrite. `Next` has it, and the properties that must
survive it are checked and proved for `Next`.

### ContractSigningInv, ContractSigningProofs, SigningOutcomeProofs

The inductive invariants of signing, in four layers, and the proofs about them;
see [What is proved](#what-is-proved).

### Migrations, ContractPages, ContractPagesProofs

`Migrations` is the initial state of a service that was upgraded: each operator is
one statement of the scripts of 2026-05-02 (`AddSignatureFields`, `CreateSlots`,
`LinkSignatures`, `CountOldSignatures`), and `MigratedInit` composes them over
every old table within the bounds, the empty one included. The program that filled
the old tables is not in the repository; its schema allowed one signature per
contract, and the model takes from it that a contract was signed when it had one.
The scripts fill a slot by the status alone, so for old rows where the two differ
`FilledHasSignature` and `SignedPageIsComplete` would not hold; that is assumed
away, not checked.

`ContractPages` composes ContractSigning with the pages of
`handlers/contracts.rs`, from such a state:

| Action | Code |
|---|---|
| `Open` | any of the four handlers, past the gate that has read the contract row |
| `ReadTarget` | the signature `contract_signed_success` looks up by its code |
| `ReadSlots`, `ReadSignatures` | the two `load`s that every page makes, slots first (`NextRead`) |
| `Template` | what the template is given; for `verify_contract` with the verdicts `FinalHashValidOn` and `TamperedOn` |
| `Leave` | the reader goes away |

`download_proof` calls `verify_contract` and is the same kind. Pages write nothing,
so one page at a time shows all that several could. Templates match signatures to
slots, so a page's `filled` and `signatures` are sets of slots. New contracts of
this module have no expiry date: no page computes with it. `edited` and `legacy`
are history.

### ConnPool, Office, OfficeProofs

`ConnPool` is the pool: what a request holds follows from where it is (`HeldAt`),
`Get` hands out a free connection, `TimeOut` is bb8 giving up (30 seconds by
default) while none is free.

`Office` composes it with the handlers of `handlers/crud.rs`. A request waits for
a connection for the extractor's query, gives it back, and waits for its own
(`Authenticate`, `Wait`); then one action is one statement.

| Action | Code |
|---|---|
| `AskSecond`, `Second` | `get_user_by_email` in `view_invoice_handler`; `store_jwt` and `store_refresh_token` in `setup_first_user` |
| `CreateCustomer`, `CreateInvoice` | `insert`: a fresh UUID whatever the payload says |
| `UpdateCustomer`, `UpdateInvoice`, `Reread` | `update`: an UPDATE that may find no row, then a SELECT that may find none either |
| `DeleteCustomer`, `DeleteInvoice` | `delete`, under the foreign key |
| `FindInvoice`, `FindCustomer`, `Arrive` | the invoice page |
| `ReadOrSetUp` | `list`, `read_one`; the end of a set-up |

Of an invoice the customer is kept, of a customer only that it exists. The foreign key of
contracts to customers is left out: it refuses deletes for one more reason. The
extractor's refresh path takes several connections one after the other, never two
at once, and is one `Authenticate` here.

### Accounts, AccountsProofs

The table `user`: `setup_first_user` (`CheckSetup`, `InsertUser`), what login and
refresh read of it (`Login`, `Refresh`), the token they end in (`Issue`), and the
profile (`PutProfile`, `ReadCurrent`, `UpdateUser`). A token is its claims, and
names its user by email; how tokens are stored and revoked is in Session, so here
one may vanish at any time (`Expire`). A password stands for its bcrypt hash. Only
the UNIQUE email refuses an INSERT or an UPDATE. `given` and `knew` are
history: the emails that a user has given up, and, for a request that changes a
password, the users that have had the password it sent as the current one at some
moment since it began.

### RateLimiter, RateLimiterProofs

`rate_limit.rs` with its callers. `CheckRateLimit` is the whole method: cleanup
of all old trackers, removal of the caller's own when its window is over,
refusal. Past the check a request ends in exactly one of `RecordFailedAttempt`,
`ResetAttempts` and `Leave` (the handlers have paths that do neither). The clock
counts ticks and the code counts minutes, so `Elapsed` truncates as
`num_minutes` does. `failed` is history: the times of an address's failures since
its last success.

### Session, SessionProofs

The `AuthUser` extractor statement by statement (`Decode`, `IsJwtRevoked`,
`FindRefresh`, `GenerateJwt`, `StoreJwt`, `Rotate`, `StoreRefresh`), `login`,
`logout`, `verify_auth`, and the browser's cookie jar, which sends what it has
when a request leaves (`Begin`) and takes the Set-Cookie headers when the answer
arrives (`Answer`, `SetCookies`). There is one user. A JWT is a function of the
user and of the second it was issued in, so it is that second, and the unique
index on `token_hash` makes the second one of a second fail; a refresh token is
random, so it is the id of its row. A handler is a `page` when it ends in
`apply_refreshed_cookies` and an `api` when it drops the new tokens.
`Authorization: Bearer` is not modelled: no page sends it.

`session`, `barred`, `ended` and `troubles` are history. `troubles` records which
of three things have happened so far: a failure, two requests at once, new tokens
dropped. Each property says which of them it survives, so that one run shows
both what the code guarantees and under which conditions.

## Runs

`tlc -config X.cfg M` with the module in the second column.

| Run | Module | Shows |
|---|---|---|
| `signing` | MCContractSigning | Three concurrent signers of up to three slots, any of whom may stop anywhere, with deletion and expiry: `CountNeverAhead`, `SignedMeansAllSigned`, `SignedIsFinal`, `FinalProofHolds`, `ExpiryCloses`, and the refinement `KeepsPromise` |
| `serial` | MCContractSigning | Two contracts, one request at a time, no failures, weak fairness: `ReferentialIntegrity` across contracts, exact counts, a final hash once everyone has signed, and `LastSignatureCompletes` (liveness) |
| `pages` | MCContractPages | From every migrated table, with edits and deletions while a request signs and a page is read: `FilledHasSignature`, `SignaturesPersist`, `PageIsBacked`, `SignedPageIsComplete`, `SignedPageVerifies`, `CodeStaysGood` |
| `limiter` | MCRateLimiter | `OverrunBounded`, `SlidingBound`, `BlockedForCause`, `NothingForgotten` |
| `sessions` | MCSession | `RevokedIsRefused`, `JarIsLive`, `VerifiedIsLetIn`, `LogoutEndsSession`, `OneRefreshTokenPerSession` |
| `office` | Office | Two requests of the administrator over two connections: `ReferencesHold`, `MissingForCause`, `DeletedStaysDeleted`, `OnlyNestedBlock`, `EveryRequestEnds` (liveness) |
| `accounts` | MCAccounts | Two requests that set up, log in and edit profiles: `UsersBounded`, `TokenFindsItsUser`, `ActsForItself`, `PasswordChangesPersist`, `ChangedByOneWhoKnew` |
| `lost_count` | MCContractSigning | a counterexample: `FinalHashOnceAllSigned` with two requests |
| `edited_between` | MCContractSigning | a counterexample: `FinalHashProvesOneVersion` with one edit |
| `dropped_cookies` | MCSession | a counterexample: `EveryHandlerForwards` |
| `logout_race` | MCSession | a counterexample: `LogoutRevokesBoth` |
| `setup_race` | MCAccounts | a counterexample: `AtMostOneUser` |

Each component with a passing run also has its type invariant checked there.

**Bounds.** `MaxSlots` bounds the ids of slots, `MaxTime` the clock, `MaxLogins`
and `MaxRefresh` the logins and rows of `refresh_tokens`, `MaxUsers` the ids of
`user`, `MaxTokens` the JWTs that are good at a time; `MaxSize` is the size of
the pool, ten in the code. `Requests` bounds how many requests are in flight at
once, not how many there are in all.

- *signing*: the races of `sign_contract` are between two requests for two slots
  or for one; three of each leave room for a third party that completes the
  contract on a stale count. Requests come and go without bound. One tick is
  enough for a deadline to pass while requests are under way.
- *serial*: three slots over two contracts, so that a slot id of the one can be
  sent for the other.
- *pages*: one contract of at most two slots, migrated or new, two signing
  requests, one page, two texts. What an administrator sends back is what he read
  of a new contract, with either text, nothing counted: it reopens a signed
  contract and puts a count back. The page is of the one contract; a page of
  another contract reads other rows. That the migrations link the signatures of
  several old contracts correctly is proved, not checked.
- *limiter*: a limit of two, a window of two ticks and a cleanup at four, as the
  code's 15 and 30 minutes; five ticks are three windows and pass the cleanup
  age. A failure needs the limit plus the concurrent requests to show: with two
  requests the bounds of both properties are reached.
- *sessions*: a login and two rotations, of which two can be concurrent; JWTs that
  expire in the next second, refresh tokens that expire after two, so that every
  combination of valid and expired is met.
- *office*: one customer more than an invoice can name, so that an invoice can be
  moved and its old customer deleted; one invoice. Two requests over two
  connections are the smallest pool that handlers with a second connection can
  stop.
- *accounts*: two requests at a time, so at most two accounts; three emails, so
  that one can be given up, taken by the other account and another still be free;
  two passwords. One good token at a time is enough, since each property speaks of
  one, and a request keeps the claims it came with.

**Symmetry** is used for requests, and for addresses (limiter), texts (pages),
emails and passwords (accounts). `serial` and `office`, which check liveness, use
none.

**Deadlock.** Checked by limiter, office and accounts. Not by the runs of signing,
of the pages and of sessions: with its contracts deleted and the clock at its
bound the bounded model has nothing left to do, and a request that needs one more
refresh token than the bound waits for ever. Both are effects of bounds.

**Fairness.** `FairSigningSpec` and the `Spec` of Office state it. In both each
statement of a request in flight is weakly fair: tokio runs every task that can
run and a statement returns, so a request goes on until it returns. In Office
each wait for a connection is weakly fair too: bb8 hands out a connection that is
free, and gives up after its time limit when none is. Nothing is assumed of
clients, administrators, failures or the clock.

## What is proved

tlapm checks every theorem below for all values of the constants: any number of
requests, slots, contracts, addresses, browsers, rows and connections, any limit,
window and lifetime, any clock. Every invariant and every action property of the
passing runs is a theorem; what is not is liveness. Each inductive invariant named
here was first checked by TLC on the configuration of its run, then proved.

| Module | For | Theorem | States |
|---|---|---|---|
| ContractSigningProofs | `Spec` | `TypeCorrect` | `TypeOK` |
| | | `IntegrityHolds` | `ReferentialIntegrity` |
| | | `FilledSlotsHoldSignatures` | `FilledHasSignature` |
| | `SigningSpec` | `CountHolds` | `CountNeverAhead` |
| | | `SignedHolds` | `SignedMeansAllSigned` |
| SigningOutcomeProofs | `Spec` | `SignaturesStay` | `SignaturesPersist` |
| | `SigningSpec` | `FinalProofCorrect` | `FinalProofHolds` |
| | | `SignedNeverChanges` | `SignedIsFinal` |
| | | `ExpiredIsClosed` | `ExpiryCloses` |
| | | `PromiseKept` | `KeepsPromise`, the refinement |
| | | `SignedByAllParties`, `NothingIsTakenBack` | `Kept` and `Irrevocable` of SigningPromise, of the tables |
| | ... one request, no failure | `SerialCountsAreExact` | `CountTracksSignatures` |
| | | `SerialSigningEndsInProof` | `FinalHashOnceAllSigned` |
| SigningPromiseProofs | its `Spec` | `AllPartiesSigned`, `SigningIsIrrevocable` | `Kept`, `Irrevocable` |
| ContractPagesProofs | `PagesSpec` | `MigratedSlotsHoldSignatures` | `FilledHasSignature` |
| | | `MigratedIntegrityHolds` | `ReferentialIntegrity` |
| | | `MigratedSignaturesStay` | `SignaturesPersist` |
| | | `PagesAreBacked` | `PageIsBacked` |
| | | `SignedPagesAreComplete` | `SignedPageIsComplete` |
| | | `SignedPagesVerify` | `SignedPageVerifies` |
| | | `GoodCodesAreFound` | `CodeStaysGood` |
| RateLimiterProofs | `Spec` | `TypeCorrect` | `TypeOK` |
| | | `OverrunHolds` | `OverrunBounded` |
| | | `NothingIsForgotten` | `NothingForgotten` |
| | | `BlocksHaveACause` | `BlockedForCause` |
| | | `FailuresAreSpread` | `SlidingBound` |
| SessionProofs | `Spec` | `TypeCorrect` | `TypeOK` |
| | | `RevocationIsFinal` | `RevokedIsRefused` |
| | | `RotationKeepsJarsLive` | `JarIsLive` |
| | | `VerifiedAreLetIn` | `VerifiedIsLetIn` |
| | | `OneRefreshTokenWorks` | `OneRefreshTokenPerSession` |
| | | `LogoutIsFinal` | `LogoutEndsSession` |
| AccountsProofs | `Spec` | `TypeCorrect` | `TypeOK` |
| | | `AccountsAreBounded` | `UsersBounded` |
| | | `TokensFindTheirUser` | `TokenFindsItsUser` |
| | | `UpdatesActForThemselves` | `ActsForItself` |
| | | `PasswordsPersist` | `PasswordChangesPersist` |
| | | `ChangersKnew` | `ChangedByOneWhoKnew` |
| OfficeProofs | `Spec` | `TypeCorrect` | `TypeOK` |
| | | `ReferencesAlwaysHold` | `ReferencesHold` |
| | | `PagesMissForCause` | `MissingForCause` |
| | | `NothingIsRevived` | `DeletedStaysDeleted` |
| | | `OnlyNestedRequestsBlock` | `OnlyNestedBlock` |

`Spec` of ContractSigning has edits and failures, `SigningSpec` has failures but no
edits, and `PagesSpec` has both and starts from whatever the migrations leave of
any number of old contracts.

**Assumptions.** Those named in the modules, which TLC evaluates in every run:
bounds and limits are naturals, the window is not longer than the cleanup age
(15 and 30 minutes in the code), the pool has a connection, the set of requests is
finite, ids of customers and of invoices differ, `None` is not a value of anything
else, payloads are well typed. The two theorems on serial signing assume in their
statements what the run `serial` sets: at most one `sign_contract` request, no
failures.

**Signing, edited or not.** No property is inductive alone. `StructureInv` adds
what a request knows: past the check its slot belongs to its contract, while
there is one; past the INSERT the row in that slot is its own; and no two requests
work on one slot, since the unique index lets one INSERT through. That is enough
for integrity and filled slots, and it does not depend on what columns an
administrator changes. `SignaturesStay` follows from it: the only DELETE meets a
foreign key when there is a signature, and the only INSERT finds the slot free.

**Signing without edits.** `CountingInv` adds that snapshots are still true of the
columns nobody changes, and that no snapshot and no row counts more than the
*settled* signatures: those in filled slots whose request is over. A request that
writes its snapshot's count plus one has, by then, settled one more: its own. Lost
updates can only lose. When such a count reaches the number of slots, all slots
are settled, which is why `signed` is never premature although the decision is
made on a stale row, and why nobody is left who could write to a signed contract
(`SignedNeverChanges`). The invariant is stated for one contract at a time
(`CountingOn`), so that it can be used beside contracts that were edited.

`ProofInv` adds what the final hash needs: ids of signatures grow, and a request
that takes itself for the last has loaded at least as many signatures as it
counted. Once its own is inserted it has therefore loaded all the others, and its
own is the newest, which is the order in which `verify_contract` hashes them again.

**The refinement.** Under the mapping in `ContractSigning` (phase from the row,
parties from the slots, signers from the rows of `contract_signatures`)
`create_contract` is `Offer`, the INSERT of a signature is `Sign`, the last UPDATE
is `Complete` when it writes `signed` for the first time, a DELETE is `Withdraw`;
every other step stutters, the UPDATE of a slot and stale counts included.
`SigningPromiseProofs` proves what the abstract specification amounts to, and
`SignedByAllParties` and `NothingIsTakenBack` bring it back to the tables.

**One request at a time.** `SerialInv` says of a contract on which a request works
how far the count, the filled slots and the signatures are apart, statement by
statement, and that they agree when nobody does. It fails, as `lost_count` shows,
as soon as two requests meet, or one stops half-way.

**Migrated tables.** The scripts number the old contracts in the order of a
SELECT, so a slot and its contract determine each other (`NumberingsOneToOne`);
hence a slot is its contract's and filled when that was signed (`SlotAtItsPlace`),
and the one old signature stands in it (`SignatureAtItsPlace`). Together that is
`StructureInv`, and `CountingOn` of each contract. Pages write nothing, so every
step beside them is one of `ContractSigning`. `TablesInv` keeps `CountingOn` and
`ProofOn` for the contracts that nobody has edited, and of the migrated signed ones
that they stay signed without a final hash.

**Pages.** `PageInv` says what is still true, now, of what a page has read before:
a count that was read is not above the filled slots of now; a row read as signed
means that nothing is left to sign, so slots and signatures no longer move; slots
read as filled have their signatures. Slots are read before signatures and a slot
is filled after its INSERT, so a page that sees the one sees the other; in the
opposite order `PageIsBacked` would be false. The steps of ContractSigning preserve
this because signatures, filled slots and settled counts only grow and a contract
with a signature is not deleted.

**The limiter.** `OverrunInv` counts what can still happen: the count of a
tracker together with the requests of that address past the check is at most the
limit less one plus the number of requests. A check lets a request in only below
the limit, and a failure moves one from the second term to the first. `CauseInv`
ties the tracker to the history: its count is that of the last failures, and none
of them is older than its window. `NothingForgotten` needs only that the cleanup
age is not below the window. `PacedInv` is for windows that begin anywhere: of the
failures of an address, all but those of the present window came no later than its
start (`Behind`), and those before the previous window a whole window earlier, so
that two failures with twice the bound between them are a window apart
(`SpreadOut`). It needs no induction over the history, which grows at its end or starts anew.

**Sessions.** `HoldInv` gives types, and that every token a browser or a request
has is a row of its own session. `BarredInv` follows a request that was sent with
revoked or expired tokens: it is at one of the three checks, and what it is about
to check is dead, which only becomes truer. `OwnerInv` says whose a token is: no
two browsers have one in common, and a new one is known to the request that stored
it alone. With it, `RevokedIsReplaced`: a browser whose refresh token is revoked
has a request under way whose answer replaces or removes it, whichever of
several answers comes first; `RevokedIsRemoved` is the same of JWTs and logout. The
last two properties are about requests that come one by one, which `OneByOne`
derives from the history variable: `OneWorksInv` follows the one refresh token of a
session that works through a rotation, and `LogoutInv` what of a session is still
accepted: what its browser has, and what a request of that browser is about to
bring it; a logout takes both away.

**Accounts.** `AccountsInv` needs that emails are unique, which only the column
promises, and that the claims of a token, and of a request that has looked at one,
find their user until that user gives the email up. The bound on accounts counts
requests past `user_exists` together with the rows. `CheckedKnew` says of a request
past the check of the current password that the account it is about to change is
one that has had that password: the check is on the row whose id the UPDATE names,
so it goes on to be true when the password, or the email in the token, has changed
hands in between.

**Office.** `OfficeInv` ties what the invoice page has read to ids that were once
drawn and are not drawn again, so that a customer that is missing is gone for good.
`OnlyNestedBlock` is the pigeonhole argument on connections, from the fact that a
request with no second statement holds one only where it does not wait.

**Model-checked only.** Liveness: `LastSignatureCompletes` and `EveryRequestEnds`
rest on fairness, about which the prover has no rules that reach them. What the
five counterexample runs show is that a property fails, which one instance settles.

## Where the code and its words part

- `lost_count`. `crypto.rs:121` says that the final hash "is created when the last
  signature is added". `sign_contract` counts from the row it read first. Two
  parties who sign at the same time both write 1 of 2 and are both told success;
  every slot is filled, nobody can sign again, and the contract never becomes
  signed.
- `edited_between`. `contract_proof.html:484` promises proof "that all parties
  signed the same version of the contract". `update_contract` changes the text of
  a partly signed contract; the last signature hashes the new text with the old
  signatures, and the page calls the result valid. (It does flag the older
  signature as tampered.)
- `dropped_cookies`. `auth.rs:392` asks that `apply_refreshed_cookies` be called
  "at the end of every protected handler that receives AuthUser". Three handlers
  do. All others drop the tokens of a refresh, after the old refresh token has
  been revoked; since the dashboard is a page that calls those handlers, its user
  is logged out when the JWT expires.
- `logout_race`. `handlers/auth.rs:198` says that logout "revokes both tokens". A
  refresh that has found the old token valid stores a new pair after logout has
  revoked the old one, and that pair works.

- `setup_race`. `handlers/auth.rs:267` says of `setup_first_user` that it "only
  works when no users exist". It checks, hashes a password for a good part of
  a second, and inserts: two calls within that time make two accounts. From then
  on an old token can lead to the other account (below); `UsersBounded` is the bound
  that holds, one account for each concurrent call.

Three that follow from the conditions of passing properties and have no run of
their own. The comment at `handlers/contracts.rs:630` ("SQLite handles atomicity
well") stands above three separate commits: a request that stops after the first
leaves a slot that is signed and shown as open, and every retry is refused; this
is why counts are bounded from above only. And the "5 attempts per 15 minutes" of
`rate_limit.rs:24` can be overrun by as many attempts as are in flight;
`OverrunBounded` is the bound that does hold. `VerifiedIsLetIn` excludes failures
because of a third: when the answer to a logout is lost, `verify_auth` still calls
the browser authenticated, and the login page and the dashboard send it to each
other until the JWT expires.

Smaller ones, met while modelling and without a run:

- The migration `0002_backward_compatibility_signatures/up.sql:35` says of
  `final_hash` that it "is done in application code during startup or migration
  script". No code does; a contract signed before the migration has no proof.
- A signature older than `content_hash` has '' there, and its page calls it
  tampered.
- The migration `0001_add_slot_id_to_signatures/up.sql:4` says that "SQLite doesn't
  enforce FKs". The bundled build does.
- A PUT whose field is cleared answers success and keeps the old value:
  `AsChangeset` skips `None`.
- `auth.rs:280` says "no DB hit" of the path of a valid JWT, which queries
  `is_jwt_revoked`.
- A set-up that fails after its INSERT leaves the account, and every later set-up
  is refused, while its caller has seen an error.
- Two changes of the password at once are both checked against the old password,
  and the later wins. No text says what should happen; `ChangedByOneWhoKnew` is what
  the code does guarantee.
- `serialize_json_str` (`models.rs:14`) sends the JSON columns to the dashboard as they are, and its script
  (`js_invoices.html:50-65`) adds up whatever they hold: the entries of an array,
  texts that read as numbers. `view_invoice_handler` (`main.rs:239-283`) reads a map
  and in it numbers only, drops those that `Decimal` cannot hold, and rounds
  `Decimal` where the script rounds floating point. So the API, and the form too
  with a number that is large enough, can store an invoice for which the list and
  the page show two amounts.
- After a change of the email the old token finds no account until it is
  refreshed; with two accounts, and the email taken by the other, it finds that
  one. `TokenFindsItsUser` and `ActsForItself` except emails that were given up
  for this reason.

## Not modelled

- Configuration and start-up: environment variables read once, no state that
  changes afterwards.
- Pages and scripts: rendering and the forms. Their words are quoted where they
  state what a property says.
- The totals of invoices. Nothing runs concurrently there and nothing is stored;
  what can go wrong is in the conversions: arbitrary JSON to `f64`, `f64` to
  `Decimal` or not, `parseFloat`, and two ways to round. A model that kept integers
  would leave out just that.
- Ed25519 and SHA-256 themselves, key generation and the signature bytes.
- Of the migrations, those that create tables, change the type of a column or go
  down: they act on a stopped server and no property depends on them.
- In Office the foreign key from contracts to customers, every column but the
  customer of an invoice, and the extractor's refresh, which takes connections one
  after the other.
- In Accounts the rate limiter, the columns name, address and tax id, and what
  Session has of tokens.

## Plan

All components that the inventory calls modelled are, and what the passing runs
check of safety is proved. What is left is to make the proofs easier to live with:

1. Shorter proofs in `SessionProofs`, by far the longest: the effects of a step
   (`Effect`) are shared by its layers, the case splits below them are not yet.
2. The layers `SerialInv` and `InOrder` say that requests do not meet. A weaker
   condition, that no two are at work on one contract, or one session, should do,
   and would say more exactly when a count is lost or a session outlives a logout.
