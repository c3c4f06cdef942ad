# ZugaCore in TLA+

ZugaCore is the shared back end of the Zuga studios: accounts and sessions,
organisations with SCIM and SAML, a token wallet paid through Stripe, an AI
gateway that spends from it, on-chain payments, and the life cycle of the
process.  This directory specifies the parts where money or an account can be
lost and where overlapping requests are hard to test, checks them with TLC on
small instances, and proves the main properties for all instances with TLAPS.

    tlc -config WalletMixed.cfg MCWallet      # or any other cfg, see "Runs"
    tlapm WalletProofs.tla                    # or another ...Proofs, see "Theorems"

## The system

| Part | State it keeps | Operations | What is hard, and what makes it correct | Module |
|---|---|---|---|---|
| Token wallet, `credits/manager.py` | `token_balance` (four buckets, rollover deadline, monthly cap, auto top-up), `token_transaction` ledger | spend, record, credit, claw back, allocate, grant, transfer, cap and auto top-up settings, every read (it expires rollover) | an operation is a database session of several awaits, most without a lock. No double spend, no lost update, cap and charge window kept, wallet = ledger | `Wallet`, `Transfers` |
| Stripe webhooks, `credits/webhooks.py` | `subscription` rows, ledger rows keyed on (stripe_id, type) | nine event handlers | deliveries overlap, repeat, arrive in any order, crash between sessions. Exactly-once crediting, nothing lost, each refund its share | `StripeWebhooks` |
| Stripe service, `credits/stripe_service.py` | a price cache | checkouts, cancellation, off-session charge | one subscription per user | `StripeWebhooks` (its guard) |
| Credits API and client, `credits/routes.py`, `credits/client.py` | none | HTTP routes; the client studios use | lost reports, fail-open or fail-closed | `Gateway`, `Transfers` |
| Gateway, `gateway/` | none | chat, speech: check the balance, call a provider, charge | requests that overlap between check and charge; a monthly cap only the charge knows | `Gateway` |
| Life cycle, `lifecycle/` | drain flag, in-flight count, idle clock | drain, idle exit, shutdown | requests inside as the process leaves | `Lifecycle` |
| Organisations, SCIM, SAML, `auth/orgs`, `auth/scim`, `auth/saml` | orgs, members, groups, settings, SCIM tokens, SAML bindings | the organisation's API, the IdP's provisioning, sign-on | no operation locks. An owner stays, identities are unique, the IdP reaches only its own accounts | `Directory` |
| One-time credentials, `auth/mfa`, `auth/saml`, `auth/desktop_handoff.py` | TOTP steps, recovery codes, SAML requests and assertions, hand-off codes | enrol, verify, ask, consume, exchange | used once, under overlap, expiry and restart | `OneTime` |
| Accounts, `auth/routes.py`, `auth/repository.py`, `auth/email_token_store.py` | users in two stores (SuperTokens and the database), mail tokens, the OAuth code guard | register, sign in, verify, reset, link, delete | partial failure between the stores, replayed callbacks. A password gets in only behind a proven mailbox | `Accounts` |
| On-chain and revenue, `blockchain/`, `revenue/` | transactions with a state, attributions | record, update, attribute | reports repeated, overlapping, out of order | `OnChain` |
| Browser client, `frontend/api/client.ts` | the token pair, a refresh in flight | refresh, retry | several tabs share one rotating token | none |
| Events proxy, plugins, theme, UI, scripts | preferences | forwarding, rendering | none of interest here | none |

The webhooks, the API, the gateway and sign-in (welcome grant) all change the
same wallet rows through the manager; the organisation's members, its SCIM
client and its sign-ons change the same directory rows.  They share nothing but
the database, so the database session is the unit of interleaving in these
modules.  The accounts of `Accounts` and those of `Directory` meet in one rule:
an account whose authority is an organisation is not reached by a password.

## Modules

### Tokens

`WalletOps` holds what the manager computes from one wallet row, as operators
from a row and an amount to an outcome: the row it leaves, the sum it logs and
its answer.  Each operation starts with the rollover expiry of
`_get_or_create_balance`; a refused spend still commits that expiry and a
reopened cap window, because an early `return` inside `async with get_session()`
leaves the block normally.

`Wallet` interleaves sessions over those operators.  `Begin` and `Continue` read
the row (with `FOR UPDATE` for `try_spend` and `maybe_autotopup`), `Commit` is
the end of `get_session`'s block, `Rollback` an exception or a crash.
SQLAlchemy writes the absolute values of the columns that changed: `Merge`
writes exactly these over whatever another session committed in between.  With
`Locking` (PostgreSQL) a locking read waits for the lock and an UPDATE waits for
other sessions' locks; without it (SQLite) the hint does nothing.  A successful
spend opens a second session for the auto top-up, the setters one to read back.
Clocks appear as three actions that let a rollover deadline, a cap window or a
charge window run out between any two steps.  `TokenAccount` is the abstract
account: one number per user, moved only together with the ledger and never
below zero.

`Transfers` extends `Wallet` with the sessions that touch more than one row:
`transfer_tokens` (the buyer's row locked, the seller's read without a lock or
made) and the operator's reset of everybody's free tokens.  Its ghost
`clobbered` names the wallets of which a commit overwrote another's write; what
the ledger promises is stated for the others.

`StripeWebhooks` is the handlers as steps between awaits: check the ledger, call
Stripe, read and write the subscription row, open the wallet, commit the credit
with its ledger row, look again after a unique violation (`_credit_once`).  One
worker is one delivery; between two steps other deliveries run, and `Crash`
abandons the handler with what its earlier sessions committed.  Stripe's side is
external: `Send` emits an event in an order Stripe can produce, behind the
checkout's one-subscription guard; `Deliver` hands any emitted event to any
worker, again and again until it is answered, and `MaxRepeats` times after.
Of the wallet it keeps only the purchased bucket (`purch`) and whether there is
a row; allotments go to the buckets of `Wallet`.  A refund event carries what is
refunded of the charge so far (`amount_refunded`), so it grows from one refund to
the next (`Grows`).  `clobbered` names the users of whom a delivery wrote the
wallet over a value it had not read.  `Payments` is the abstract
promise: a payment is credited at most once, and only then settled.

### Calls and the process

`Lifecycle` is one process: the drain flag and the counter of
`DrainMiddleware`, the runs of `_do_shutdown` (`Ask`, `Drain`, `WaitEnds`,
`Interrupt`), the idle watchdog, and the server, which finishes what it has
after one interrupt and leaves at once after two.  `Gateway` puts calls of one
user into it: a chat or speech request (check, provider, charge, answer), the
overlay's spend, and a studio's call, which checks and reports over HTTP and may
reach nobody.  A studio's requests pass the same drain (`Visit`).  The wallet is
one number beside its monthly cap: `month` is the cap, what is counted against it
and whether the 30 days are over; the user sets the cap at any time (`SetCap`).
The check (`can_spend`) compares the balance only, the charge (`try_spend`) the
balance and the cap, and a studio's report (`record_spend`) neither asks the cap
nor counts against it.  These operations are atomic here; what overlapping
sessions do to one another is `Wallet`'s.

`OnChain` is the reports of on-chain payments: record, read and judge the
transition, write the state, bridge a confirmation to the revenue ledger, each a
session of its own, in handlers that overlap and die.

### People

`DirectoryOps` has, for each of 23 kinds of request, when the code refuses
nothing (`May...`) and the tables its session then wants.  `Directory`
interleaves sessions over these: a session reads at one instant, and `Commit`
writes the columns and rows in which its result differs (`Merged`) unless a
unique constraint or a row that is gone stops it (`Clashes`).  `WellFormed` says
what the routes and their schemas let through of each kind of request; the
tables it starts with (`Openings`) have whole rows, bind only what the
organisation provisioned and name nobody twice.  SCIM requests and
sign-ons look up the organisation in an earlier session (`Call`, `Serve`).  A
sign-on mints its login after its transaction (`MintSession`): an account without
a sign-in user is found again by the e-mail the transaction read (`address`), and
whoever holds that e-mail by then is linked.  `astray` names the accounts reached
so although another one had signed on.

`SecondFactor` has the MFA operations on a user's rows, `OneTime` their
sessions together with SAML requests and assertions, the browser's cookie and
hand-off codes, beside a 30-second clock, expiry and restarts.  `SingleUse` is
the abstract credential: honoured at most once, between issue and end.

`Accounts` is one e-mail address in two stores: a request is a path of named
steps (`Path`), each one session or one SuperTokens call, and any of them may be
the last.  A deletion takes the row with the id it read: `doomed` is who has
read this very row, and a row made since is another one and stays.  An older
release may have left a password user in SuperTokens, one at most, as
SuperTokens has one per address.  It also has the lock and the cache that guard
a replayed OAuth code.

The `MC...` modules hold the instances, the `...Proofs` modules the theorems.
Operators whose comment begins with "Mutation" are plausible bugs, used to
confirm that a property notices them; no specification uses them.

## Runs

| Run | Question | Result |
|---|---|---|
| WalletLocked | Do overlapping spends and their auto top-ups under row locks implement the account (`AccountSpec`), with one charge per hour (`OneClaimPerWindow`)? | holds |
| WalletMixed | Beside every other operation, most of which take no lock, does a spend take exactly what it logs within cap and balance (`SpendIsExact`)? | holds |
| Transfers | When sales, spends, credits, first sign-ins and a reset overlap: is every wallet nobody overwrote its ledger (`LedgerAgrees`), does a sale take the price and nothing else (`SaleIsExact`), and are the welcome tokens given once (`FreeIsGivenOnce`)? | holds |
| StripePayments | Are a new user's payments credited exactly once and before they are answered (`AckedIsCredited`, `PaymentsSpec`), only with a subscription on record (`CreditedIsRecorded`), and all of them in the end (`PaymentsArrive`, `EventsAreAnswered`)? | holds |
| StripeLife | With every kind of event, overlapping deliveries and a crash anywhere: does each refund and dispute take at most its share, once (`ReversalsTakeTheirShare`), is the purchased bucket what the ledger says unless a delivery wrote it over (`WalletHoldsCredits`), and is a renewal or refund dropped only when unmatched (`DropsOnlyUnmatched`)? | holds |
| StripeRefunds | Do two refunds of one purchase take back no more than it brought (`RefundsInProportion`)? | violated |
| Directory | Does the IdP reach only accounts it provisioned, or whoever took the address of one between its sign-on and its login (`IdpReachesItsOwn`), are e-mails and external ids unique (`IdentitiesAreUnique`), and are the rules on owners, groups and tokens broken only where sessions overlap (`OwnersStay`, `GroupsStayInside`, `OwnersDecide`, `OneLiveToken`)? | holds |
| DirectoryOwnerless | Does an organisation always keep an owner (`NeverOwnerless`)? | violated |
| OneTime | Do assertions and hand-off codes implement single-use credentials (`OneUse`), are the others replayed only by overlapping requests (`ReplaysOverlap`), and does a confirmed enrolment stand (`FactorStands`)? | holds |
| Accounts | Does a password open a session only behind a proven mailbox (`EarnedLogin`), does a deletion never take the row alone (`ErasedInBoth`), does a replayed OAuth code reach the provider only when the result is lost (`ReplayGetsIn`), and does every request end (`RequestsEnd`)? | holds |
| Gateway | Is only what was delivered charged, once (`BillsAreFair`), has every unpaid call an excuse (`UnpaidIsExcused`), and does the drain protect what it let in (`DrainHolds`)? | holds |
| OnChain | Is revenue booked only for confirmed payments (`BookedIsConfirmed`), does a settled payment stay (`SettledStays`), and does a confirmed one reach the ledger (`ConfirmedIsBooked`)? | holds |

Several properties are conditional: "unless two sessions overlapped".  They do
not catch the overlap they except; the code has it, and "Where code and comments
part" lists every one.  What they show is that nothing else breaks the promise:
`OwnersStay`, `OwnersDecide`, `GroupsStayInside`, `OneLiveToken`, `FactorStands`
and `ReplaysOverlap` are the rules of one request on rows nobody changed under
it, whatever came before; `LedgerAgrees` and `WalletHoldsCredits` except wallets
that were written over, `EarnedLogin` the moments between two writes (`torn`),
`IdpReachesItsOwn` the accounts in `astray`, `DropsOnlyUnmatched` the event whose
counterpart is not there yet, `UnpaidIsExcused` its four excuses.

Bounds.  Sessions, workers and handlers: two overlap in every race of two;
WalletLocked takes three, so that a third may act on what two left, and
Transfers has two sales beside two sessions.  `MaxOps` bounds the operations or
requests started (2 to 5; Accounts and Directory 3, OneTime and Transfers 4):
two that overlap and one or two that come before or after.  Amounts of 1 to 3
against buckets of 1 or 2 make a spend cross from one bucket to the next, fail,
fit a cap exactly and pass it.  `MaxFaults = 1` puts one crash or outage at
every step; `MaxRepeats = 1` repeats one delivery after its answer; `Parts = 2`
halves a refund; `MaxSent` lets StripeLife emit any 4 of its 9 events, among
them a half refund, the full one and a dispute of one top-up.  Directory starts
from three openings: two local owners, an owner with an admin and a provisioned
member, and accounts about to found the organisation; every kind of request
occurs from each.  OneTime has two 30-second steps, so that a code can be early,
current and late.  Gateway has two calls estimated at 2, which cost 1 to 4,
against a wallet of 2 and a cap of 1 that is set and lifted at any time, two
stops of which one is the watchdog's, and one crash, after which the process
starts again. OnChain delivers five reports of two payments.  Deadlock is not
checked where the bound on operations or a settled set of events ends a
behaviour.  Symmetry of interchangeable handlers, sessions or calls is used only
in runs without a liveness property.

Fairness.  StripePayments: a handler that runs goes on (weak fairness per
worker: the event loop schedules every ready coroutine); an event that is not
answered is delivered again whenever a worker is free (strong fairness per
event: Stripe retries for days); crashes, error answers and outages are finite
(`MaxFaults`), or nothing could ever be promised.  Accounts: weak fairness per
handler, as every call to a store or provider ends and `asyncio.Lock` serves its
waiters in turn.  OnChain: weak fairness per handler.

## Theorems

Every safety property the runs check, the three refinements included, is also
proved for all values of the constants, except `NeverOwnerless` and
`RefundsInProportion`, which are false.
The assumptions are the named `ASSUME`s of the modules and, where a theorem has
one, its `ASSUME` clause; both are given below.

### Wallets

`WalletProofs`, for all users, sessions, amounts, caps and operations, from the
named assumptions of `Wallet` and `WalletOps` on their constants:

* `TypeCorrect`: `Spec => []TypeOK`, with locks and without; `TypeOK` is
  inductive, its core is that every operator of `WalletOps` keeps a row a row
  (`DeductExact`, `ExpiryExact`, ...).
* `SpendsAreExact` and `ClaimsAreOncePerWindow`, assuming `Locking`: the
  promise of `try_spend`'s docstring and of `maybe_autotopup`'s comment.  They
  rest on `LockInv`: a row lock has one holder, and the row it read is still in
  the table, so the arithmetic of `Deduct` on the one is the change of the other.

`TransfersProofs` builds on these:

* `WalletIsAnAccount`, assuming `Locking` and spends only (with the top-ups they
  trigger): `Wallet` implements `TokenAccount`.  Each commit is a step of the
  account because the row under the lock is the row read (`LockInv`), and what
  expires with it is in the ledger too; every other step is a stutter.
* `LedgerAddsUp`, with and without locks, where no `record_spend`, allotment or
  tier switch runs (those three log another number than they move):
  `LedgerAgrees`.  Inductive together with types (`Holdings`): a commit that
  overwrote nobody moves what it logs.
* `SalesAreExact`, assuming `Locking`: a transfer holds the buyer's lock over
  several awaits.  `Sealed` says what that is worth: nobody else holds it, no
  other transfer has it, and the buyer's row is still the one that was paid from.
* `WelcomeIsGivenOnce`, assuming `Locking` and no `record_spend`, which writes
  the free tokens back from a read without a lock.

### Webhooks

`StripeProofs`, for all sets of events and any number of workers, faults and
repeats:

* `WebhookTypes`: types; no claw-back drives the purchased bucket below zero.
* `AckedPaymentsAreCredited`: a payment answered 2xx has exactly one ledger row.
* `CreditsAreRecorded`: no first allotment without a subscription on record.
* `OnlyUnmatchedAreDropped` and `PaymentsAreHonoured`: an answer is given only
  by a session that found or wrote the ledger row, or that found nothing to
  match; from that, the handlers implement `Payments`.
* `EachReversalItsShare`: `ReversalsTakeTheirShare`, with no assumption on what
  Stripe refunds.  The invariant carries the amount through the handler's awaits:
  who is about to claw back found the purchase, and its due is within the share
  (`Claims`); the ledger keeps both (`Backed`).  Of several refunds of one charge
  together it says nothing: the code has no such bound (run StripeRefunds).
* `WalletIsTheLedger`, assuming that an id belongs to one user (`IdsOfOne`):
  `WalletHoldsCredits`, however deliveries overlap.  A commit that wrote over
  nothing unread changes the bucket by what it logs, since the wallet it read is
  the one it replaces or it leaves the bucket alone (`Overwrites`); who handles an
  event credits that event's user (`Owned`); and a row that is not there has moved
  nothing (`Unmoved`).

One invariant, `Inv`, is under all of them.  It says what a handler knows at
each step (`TaskOK`): a bonus is granted only once the first allotment is in the
ledger, and a crediting activation has its subscription on record; that at most
one row exists per key; and that ledger rows and records are never taken away,
so that the knowledge survives the other workers' steps (`KnowledgeLasts`).
`IdsAssumption` states that Stripe does not reuse ids.

### Calls and reports

`GatewayProofs`, for every finite set of calls, any stops and crashes, and every
wallet and estimate (`CallsAssumption`):

* `GatewayTypes`: types, and the in-flight count is the number of requests
  inside as long as there is a process.
* `DrainProtects`: `GatewaySpec => DrainHolds`.  A second interrupt is what cuts
  requests, so the invariant `DrainInv` says that a run of `_do_shutdown` which
  has begun has set the drain flag, hence that there is one such run unless two
  were asked for before (`OneStop`); and that a run which saw the count at zero
  has seen the last request (`DrainedIsEmpty`), for which the count must be
  exact and the drain let nobody in.
* `UnpaidHasAnExcuse`: `GatewaySpec => []UnpaidIsExcused`.  The invariant is
  what a check is worth: until another's charge overtakes a call, the wallet
  still holds its estimate (`Covered`), so its charge fails at the cap or not at
  all.
* `BillsStayFair`: `GatewaySpec => []BillsAreFair`.  A call that may be charged
  was answered or is the overlay's (`Fair`), and has paid nothing (`Unspent`);
  so its charge adds new tokens to those paid, as many as leave the wallet
  (`Booked`).

Here and in `WalletHoldsCredits` a sum over a set is stated as the size of a set
of tokens, each beside the call or ledger row it belongs to: the sum the code
means, and one that needs no recursion.

`OnChainProofs`, for all payments, handlers and reports:

* `BookedAreConfirmed` and `SettledPaymentsStay`, from what handlers know when
  they are about to write (`WritersKnow`: the payment is still pending, or two
  reports overlapped) and about to book (`BridgesKnow`).

### People

`DirectoryProofs`, for any tables to start from, any requests and any number of
users, groups, tokens and sessions (`OpeningsAssumption`, `RequestsAssumption`):

* `DirectoryTypes`, `IdpStaysInside` and `IdentitiesStayUnique` from one
  invariant, `Inv`.  Its core is how the tables a session read relate to those
  it writes over (`Precedes`): an account that was the organisation's still is,
  or is gone; groups and tokens only move on to dropped and revoked.  So a
  binding decided on old tables is right on the current ones, and what the old
  tables cannot show, the unique constraints refuse (`Clashes`).  A sign-on whose
  account still has the e-mail it had reaches that account and no other, as
  e-mails are unique.
* `LastOwnerStays`, `OnlyOwnersDecide`, `OneTokenLives` and
  `GroupsHoldMembersOnly`, action properties: for each of the 23 kinds of
  request, what its result may change (`Landing`), merged over tables in which
  what it decided on is unchanged.

`OneTimeProofs`, for any number of handlers, browsers, requests, assertions,
codes, secrets and logins (`NamesAssumption`, `FactorOpsAssumption`: the three
kinds of name are apart, and an MFA request carries what its kind needs):

* `OneTimeTypes`; `ReplaysNeedOverlap` from `SpentStays` (what was honoured has
  no row, or a used one) and from what let a request in (`Granted`);
  `EnrolmentStands`.
* `HonouredAtMostOnce`: `OneTime` implements `SingleUse`.  `HonouredOnce` is the
  invariant: an honoured assertion is still remembered or too old for any
  request to reach the insert; a code that can be exchanged was not.

`AccountsProofs`, for any number of handlers, sign-in users, mail tokens and
requests:

* `AccountTypes`; SuperTokens has one password user of the address at most.
* `LoginsAreEarned`: `Covered` says that a verified row whose password never
  proved the mailbox, and a row not yet linked, are seen only while some
  request is between two writes that belong together, or after one died there
  (`torn`); `Entering` carries that through a login.
* `ErasuresReachBothStores` from what a deletion knows of the sign-in user it
  found (`Naming`); `ReplaysAreAnswered` from `OneExchange`: whoever exchanges
  the code holds the lock, and what it gets is kept or lost.

Only model-checked: what must eventually happen (`PaymentsArrive`,
`EventsAreAnswered`, `RequestsEnd`, `ConfirmedIsBooked`), which rests on
fairness and is out of the prover's reach.

## Where code and comments part

The violated runs.  DirectoryOwnerless: `orgs/service.py` says that the last
owner can be neither demoted nor removed, but counts the owners without a lock
(line 402).  Two owners who leave or demote each other at once are both let
through. StripeRefunds: `_handle_charge_refunded` deducts "tokens proportional
to refund amount", but takes `amount_refunded / amount` (line 523) at every
refund, and `amount_refunded` is the sum of the charge's refunds so far while
each refund has a ledger key of its own.  Of two halves the first takes a half
and the second the whole, out of tokens another purchase brought; a full dispute
after a refund does the same.

The conditions in the properties say the rest.  In the wallet:

* `try_spend`'s docstring allows SQLite's missing lock "for single-worker", but
  one worker interleaves its coroutines at every await: without the lock two
  spends of one user succeed out of one balance.
* `add_purchased_tokens`, `claw_back_purchased_tokens`, `grant_tokens`,
  `add_subscription_tokens`, `record_spend`, the seller's side of a transfer and
  the reset read without a lock and write absolute values: overlapping another
  session they overwrite it (`clobbered`), against "supply drops by exactly
  platform_cut; nothing else is created or destroyed".  A transfer also asks
  no cap and triggers no auto top-up; two opposite ones lock in opposite orders,
  and PostgreSQL aborts one (`Abort`).
* A stale expiry may wipe the rollover a renewal just made; a second renewal
  within 31 days and the test tier toggle change the wallet without a matching
  ledger row, and an overdraft by `record_spend` logs more than it takes.

In the webhooks:

* The bonus after the first allotment has a ledger key of its own, but a
  redelivery stops at the first key: a crash between them loses it.
* A lifecycle handler reads without a lock and updates by primary key ("no
  TOCTOU gap", line 358), so it may overwrite a newer subscription's status.
* A renewal delivered before its checkout and a refund before its purchase are
  dropped with a 200; a dispute or failed payment is dropped when Stripe is
  unreachable; an update after a deletion revives the subscription; two
  checkouts opened at once orphan the first subscription; a charge without a
  refund list has one key for all its refunds; and a database with duplicates
  has no unique index.

In calls and shutdown:

* Chat's estimate assumes half of the output it allows, and a charge that fails
  after the call still returns the answer, with `tokens_charged` as if it had
  been paid.  `ai_tts` claims "no under-charge window like /chat has"; overlapping
  speech calls have it.
* The check before a call does not look at the monthly cap, and the charge does:
  a capped user whose wallet covers the call is served unpaid, by chat and by
  speech, without any concurrent spend (which is what `ai_chat` takes a failed
  charge for); the overlay's spend, which charges first, is refused.  A studio's
  report passes the cap.
* `HttpCreditClient.try_spend` posts to a route that nobody defines and is
  always false; a lost `record_spend` is logged and never repeated.
* Two shutdowns asked for before either has set the drain flag send two
  interrupts, and the second cuts the requests inside.  The idle watchdog does
  not look at requests in flight.

In the directory and the credentials:

* Overlapping settings patches overwrite each other, overlapping mints leave two
  live SCIM tokens, and a removal that overlaps a join leaves a group member who
  is not in the organisation.
* A sign-on's login is minted by e-mail after its transaction.  If the account
  is erased or loses its address, and the address is registered, in between, the
  IdP's sign-in user is linked to the new account, over a link it may have: "the
  account's existing link is never moved" (`auth/saml/service.py`,
  `_mint_session`) fails in this race, and `link_supertokens_id` looks at no
  more than the e-mail, since this call switches its refusal off.
* Overlapping requests can use a TOTP or recovery code twice, both consume one
  SAML request ("True once"), and replace the secret of an enrolment that is
  being confirmed.

In accounts:

* Register and claim link the sign-in user before they clear the verified flag,
  and Google's upsert verifies the row before it links: in these windows a
  request that dies, or a login that reads the row, lets in a password whose
  mailbox was not proven (`torn`).
* Two overlapping requests can both use one mail token.
* Development login calls a function it does not import.

On chain: overlapping calls of `update_state` can overwrite a settled state
("never backwards"), a failed attribution is taken for a duplicate and not tried
again, and `record_transaction` takes every error for one.

## Abstractions

Tokens are natural numbers and refunds multiples of 1/`Parts` (floats in the
code; every tier and pack is whole).  A timestamp is never set, inside its
window, or past it.  `armed` stands for auto top-up switched on with a
threshold and a pack, `card` for a saved customer and payment method.  Events
with missing or unknown metadata are answered without an effect and are left
out.  INSERT conflicts are resolved at the commit.  The admin bypass moves no
tokens.  `grant_tokens` is `AddPurchased` in `WalletOps` with another type of
ledger row, `setup_intent.succeeded` is the operation "card", and all the plain
reads are "read".

A directory session's reads are taken at one instant; the IdP's user names are
e-mail addresses; a dropped group's name is not used again; settings are the SSO
configuration and the MFA requirement.  Secrets, codes and tokens are drawn from
sets without repetition; a batch of recovery codes is one code.  A SuperTokens
call is atomic, and signing up with a provider always succeeds.  A session that
was revoked may live until its access token ends (`check_database=False`): `live`
is the sessions that can still be refreshed.

## Not modelled

* The browser's refresh (`frontend/api/client.ts`): what several tabs see when
  they refresh one rotating token is decided by SuperTokens, whose reuse
  detection is not part of this repository.
* API keys, rate limits, MFA throttles, audit, entitlements: one-step checks,
  counters of one process that only refuse, or append-only logs.
* Invites, roles, profile edits, password change, display names, SCIM filters
  and paging, a group's rename and externalId; queries and summaries.
* Prices, retries within one provider call, XML and signature checks, Stripe
  objects without an effect on tokens or subscriptions.
* `attribute_stripe_event` has no caller in this repository, and the routes that
  receive on-chain reports belong to the embedding service.
* The events proxy, plugins, theme, user interface and scripts.

## Plan

1. A model of the browser's tabs, if the reuse rule of the session server is
   taken as a parameter.
2. Weaker hypotheses: `WalletIsAnAccount` for more operations than spends.
3. Promises about the overlaps that are excepted now, once the code locks the
   rows or repeats the check at its write: then the exceptions can go.
