# A TLA+ verification of US Tow AI-Connect

AI-Connect is a multi-tenant backend for towing companies. It pulls jobs out of
dispatch software, decides which breakdowns may be turned into a repair at a
partner shop ("flip"), telephones the customer through a voice agent, asks
managers about motor-club jobs by text message, charges its tenants per job or
per month, and runs cold-call campaigns to find partner shops. Most of what can
go wrong in it goes wrong *between* two statements: crons, webhooks, operators
and third parties write the same few rows, none of them in a transaction, and
nearly all of them after an `await`.

Six models follow a job through the system: how it gets on and off the board
(`JobBoard`), what it costs (`Billing`), who decides about it
(`DispatchApproval`), how it becomes a call (`FlipIntake`), how that call is
placed, retried and ended (`OutboundCall`), and, beside it, the cold-call
campaigns (`CampaignDialer`). Three abstract specifications say what the person
at the other end may rely on, and are proved to be implemented: `CallPromise`, by
both diallers, `CreditAccount`, by the billing, and `ApprovalDesk`, by the
requests to managers.

`PROJECT.json` holds the inventory in machine-readable form: the components, the
runs, the lines each definition translates, the mutants each property kills, the
hazards and the theorems. Source paths are relative to the repository; `M` =
`packages/api/src/modules`, `OV` = `M/outbound-voice`, `CP` = `M/campaigns`,
`FE` = `M/flip-engine`.

## 1. Inventory

The repository is a pnpm monorepo: `packages/api` (NestJS, all the logic),
`packages/web` (Next.js console), `packages/shared` (zod schemas). One Node
process runs the crons, the HTTP handlers and the webhooks; state is PostgreSQL
(drizzle), Redis for browser sessions, and a little process memory.

How work flows:

```
session-manager (sessions) -> job-poller -> command-center.upsertJob (unified_jobs)
   upsertJob -> billing (a credit) <- Stripe webhooks
             -> rules engine -> flip-accept sweep -> managers' replies -> portal
             -> welcome handler --+
   tick, operator ----------------+-> enqueueCall -> outbound_calls
   outbound_calls -> dispatcher (30 s) -> Retell
   Retell -> webhooks -> handleProviderWebhookEvent <- reconcile (3 min)
                                 |                  <- abandoned-pitch sweep (2 min)
                                 +-> flip log, attention SMS, AI notes -> adapters
ingest -> campaign_leads -> autoRun (10 min) -> dialOne -> Retell
   Retell -> campaign webhook -> applyCallResult <- reconcile (5 min)
```

| Component | State it keeps | Operations | What is hard | What makes it correct | Module |
|---|---|---|---|---|---|
| **Outbound call lifecycle** `OV/outbound-voice.service.ts` | `outbound_calls` (status, attempts, `retell_call_id` of the last dial, transcript, outcome); `dispatching` flag in memory | `enqueueCall`, `cancelCall`, `requeueCall`, `dispatchQueued`/`dispatchOne`, `handleProviderWebhookEvent`, `reconcileStalledCalls`, `retryAbandonedPitches`, `retryFailed`, `testCall` | snapshot of a batch; events lost, repeated, late; three attempt ceilings; restart between dial and record; three answers that may queue the row again | bounded number of dials; one call at a time; nobody redials after the managers took over; every row comes to rest | `OutboundCall`, `CallPromise` |
| **Retell client and webhook** `OV/retell-*.ts` | none (the provider's) | `placeCall`, `getCall`, `handleEvent`, `mapRetellStatus` | an answer may be lost though the call exists | every dial is charged to a row | `OutboundCall` |
| **Pitch completion** `OV/pitch-completion.ts` | none (pure) | `judgePitchCompletion` | verdict depends on what evidence has arrived | only abandoned pitches are redialled | `OutboundCall` |
| **Flip orchestrator** `FE/flip-orchestrator.service.ts` | in-memory `seen` map, `outbound_call_logs` | `tick`, `handleJob`, `handleNewlyCreatedJob`, `callUnifiedJobManually` | three entry points, each several awaits long, marks lost in restarts or kept when handling throws | each job called once, with a trail, in the end | `FlipIntake` |
| **Job poller, Command Center** `M/job-poller`, `M/command-center` | `unified_jobs`, `isRunning` | poll cycle, `upsertJob`, archive, `transitionStatus`, `assignJob` | failed and blank scrapes, failed upserts, operators writing the same rows | announced once; completed only for a reason; rows follow the board | `JobBoard` |
| **Session manager** `M/session-manager` | sessions in Redis; status, failure count and last failure of `tenant_credentials` | refresh by cron and by poll, pause, resume, test | login timeouts that abandon a login; breaker; pause during a login | polling recovers; a pause is a pause | `JobBoard` |
| **Digital dispatch** `M/digital-dispatch` | rules, `digital_dispatch_decisions` | `evaluateForJob`, `recordAutoDecision` | rule vocabulary; click and record are two steps | the record tells what the portal shows | `DispatchApproval` |
| **Flip-accept** `M/flip-accept` | `flip_accept_requests` | sweep, reply, override, expire | overlapping sweeps; two answers; answer against expiry; restart during the click | asked once, answered once, closed in the end | `DispatchApproval` |
| **Billing** `M/billing` | `tenant_billing`, `billing_events`, `tenants.billing_blocked` | checkout, webhook, credit, charge | redelivery, order, half-done handlers, two first checkouts | a purchase credited once; credits add up; gate and subscription agree with Stripe | `Billing` |
| **Campaign dialler** `CP/campaign-dialer.service.ts` | `campaign_leads`, `campaign_call_logs`, `running` set in memory | `run`, `dialOne`, `applyCallResult`, `reconcileStalledCalls`, `autoRun` | many leads dialled at once; results race batches, opt-outs and settings | attempt budget, daily cap, no double ring, opt-out final, no lead stuck | `CampaignDialer` |
| **Campaign lists and settings** `CP/campaigns.service.ts`, `campaign-webhook.controller.ts` | `campaigns`, `campaign_suppressions` | `ingest`, `markAccepted`, `suppress`, `updateCampaign`, inbound opt-out | check-then-insert; two-step suppress | opt-out reaches every list | `CampaignDialer` |
| **Campaign disposition** `CP/campaign-disposition.ts` | none (pure) | `decideDisposition`, `nextLeadStatus` | precedence of the rules | agrees with the lead's states | `CampaignDialer` |
| **Software adapters** `M/adapters` | browser pages | `fetchJobs`, `authenticate`, `acceptJob` | a page that does not render, a click whose effect is unknown | | their outcomes only |
| **Flip decision, shop selection, scripts** `FE/flip-decision.engine.ts` | none (pure) | decision rules, nearest shop, prompts | rule precedence | | free choices |
| **AI notes, GHL, Convini, partner bridges, SMS, push** | third parties' | one request per event | whether a failed write happened is known only there | | |
| **Driver jobs, pings, tracking; rate limiting; auth, members, tenants, onboarding; inbound calls; AI-Connect endpoint; reports, digest, branding, knowledge, support, audit log, health; legacy outbound; web console, schemas, scripts, infra** | single rows, counters, read-only views | single-row writes | | | |

Why components are not modelled is in section 8.

## 2. The modules

| Module | Role |
|---|---|
| `OutboundCall`, `MCOutboundCall`, `OutboundCallProofs` | the outbound-call lifecycle, its provider and its clock; its TLC instance; its theorems |
| `CallPromise`, `CallPromiseProofs` | what a dialler promises those it calls; the proof that `OutboundCall` implements it |
| `FlipIntake`, `MCFlipIntake`, `FlipIntakeProofs` | from a job to a row of `outbound_calls` |
| `JobBoard`, `MCJobBoard`, `JobBoardProofs` | poller, sessions, operators and the external board |
| `DispatchApproval`, `MCDispatchApproval`, `DispatchApprovalProofs` | rules engine, approval requests, replies, the portal |
| `Billing`, `MCBilling`, `BillingProofs` | checkouts, Stripe's webhooks, credits and the gate |
| `ApprovalDesk` | the requests as the managers are told of them; `DispatchApproval` implements it |
| `CreditAccount` | the credits as the tenant is told of them; `Billing` implements it |
| `CampaignDialer`, `MCCampaignDialer`, `CampaignDialerProofs`, `CampaignLimitsProofs` | campaigns: lists, batches, `dialOne`, results, provider, clock; the last holds the proofs of the daily cap, of the single ring and of the promise |

The models meet at rows. `JobBoard`'s `Announce` is the moment `Billing`'s
`ChargeStart`, `DispatchApproval`'s `Arrive` and `FlipIntake`'s `Arrive` begin;
`FlipIntake`'s `Dispatch` is `OutboundCall`'s `DispatchSelect`. Each model takes
the other side of such a row as an action of its environment, at any time.

### 2.1 OutboundCall

| TLA+ | Code |
|---|---|
| `row[c]` | a row of `outbound_calls`; `pid` is `retell_call_id`, `fresh`/`due`/`idle` are the ages the queries compare `created_at`, `scheduled_for` and `updated_at` with |
| `snap` | the batch array of `dispatchQueued`, reduced to the attempts read |
| `pend` | `dispatchOne` between `placeCall`'s answer and the UPDATE |
| `hook[w]` | a handler, sweep or request of an operator between reading its row and writing it; any number of them (`Workers`) at once. `Clerks` and `Robots`, which may overlap, say which workers take operators' requests and which webhooks and sweeps: an instance can be small without losing their races |
| `line` | the provider's physical calls; an event is what `call_started`, `call_ended` or `call_analyzed` would say of one |
| `placed`, `alerts`, `stray`, `stale` | history: physical calls since the row was enqueued, rounds of attention SMS, calls no row knows of, updates made on a read that was no longer true |
| `Enqueue`; `ReadCancel`, `CancelCall`; `ReadRequeue`, `RequeueCall` | `enqueueCall`; `cancelCall` and `requeueCall`, between their read and their UPDATE |
| `DispatchSelect`, `DispatchSkip`, `DispatchRefused`, `DispatchPlace`, `DispatchLost`, `DispatchRecord` | `dispatchQueued` and `dispatchOne`, split where they await the provider |
| `Deliver`, `Reconcile` then `ApplyRepeat`, `ApplyRetry`, `ApplyPatch` | `handleProviderWebhookEvent`, from the webhook or from the reconcile sweep |
| `SweepPick`, `Judge` | `retryAbandonedPitches`; `maybeRetryAbandonedPitch`, which a handler of an event also goes on to, on the row it holds |
| `Crash` | a restart of the process, or a failed UPDATE after the dial |

The dispatcher's flag `dispatching` allows one batch at a time. It writes the
row by id alone, after the provider answered. The provider's answer may be lost
(`DispatchLost`): `placeCall` answers null for a network error exactly as for a
refusal, so the row is queued again, the call rings, and its events find no row.
`Losses` switches that off where a run is about something else.

A physical call ends with a `Talk`: the status `mapRetellStatus` gives it, what
the transcript shows, and what the analysis says. `Abandoned` is the part of
`judgePitchCompletion` the row depends on. The rule that files a full intake
which the agent judged inappropriate as decided is folded into `Talk.decided`.

Nobody locks a row. Everything that reads it, awaits (telemetry, log look-ups, the
provider) and then updates it by id is a worker; between its read and its write
the dispatcher, an operator and the other workers may write the row, and the
handler writes it all the same. When the status, the attempts or the physical
call it read are the row's no more, the write is counted in `stale`, and the
calls that go on count as forgotten (`stray`). So the properties do not assume
that handlers are quick: they say what an outdated write can cost, at most.

Deliberate abstractions: Retell only, not the legacy Thinkrr provider; the
six-hour and three-day windows of the sweeps never close; fewer than 25 rows are
due, so the batch limit does not bite; the source switch, trial limit and
test-mode gates are one free choice (`DispatchSkip`), and so is whether a call
log is flip-eligible (`pitch`); template rendering cannot fail for rows that
`enqueueCall` validated; the two statements of `requeueCall` are one write; after
`MaxStale` outdated updates no further webhook finds the row;
`ABANDONED_PITCH_RETRY_ENABLED` is on; no conversation lasts thirty minutes
(`GrowIdle`). Usage telemetry and the flip log are no state of the row.

### 2.2 CallPromise

The abstract specification knows no rows, statuses, batches, webhooks or
sweeps: `rings`, `going` (calls known to go on), `handed` (out of the agent's
hands) and `faults`, for each call that was asked for. The agent may ring only
while attempts are left, never while it knows of a call, never after the matter
was handed over; a fault costs one more ring and perhaps what was known.

| `CallPromise` | `OutboundCall` | `CampaignDialer` |
|---|---|---|
| `rings` | `placed` | `rung` |
| `going` | live calls that are not `stray` | real calls that ring and whose log did not fail |
| `handed` | the managers were alerted, and no outdated update followed | the phone is `silenced` |
| `faults` | restarts and outdated updates | none |
| `RingUnknown` | `DispatchLost` | `DialLost` |

Under these mappings every step of either dialler is a step of the promise or
invisible to the person called. The campaign dialler, which claims and counts
before it dials, never needs `Fault`; the outbound dialler, which dials before it
writes, does.

### 2.3 FlipIntake

| TLA+ | Code |
|---|---|
| `act[h]`, `h` = entry point and job | where `handleNewlyCreatedJob` (welcome or manual) or the tick's `handleJob` waits |
| `seen`, `ticking`, `todo` | the in-memory map, `running`, the rest of the tick's feed |
| `calls[j]`, `logs[j]` | rows of `outbound_calls` and `outbound_call_logs` of the job |
| `Arrive`, `ManualRequest`, `ScriptCall` | `upsertJob`'s welcome call, the operator's buttons |
| `Check`, `ReadPolicy`, `EnqueueSelect`, `EnqueueInsert`, `LinkLog`, `Throw` | one handler, cut at its awaits; the middle two are `enqueueCall` |
| `TickStart`, `TickTake`, `TickEnd` | `tick` |
| `Dispatch` | the dispatcher's second look at the integration's switch |
| `CancelCall`, `RequeueCall` | `cancelCall`, `requeueCall`: a row leaves the deduplication, or waits again |
| `Crash` | a restart: marks, handlers and the tick are gone |

Abstractions: what the decision engine says is a free choice in `ReadPolicy`;
policy and log are read and written in one step; one integration; a job is fresh
until `GrowOld`. `crossed` names the jobs that two handlers worked on at once,
for which the code's SELECT-then-INSERT does let two calls through; `declined`
those the tick turned down or threw on, which it never looks at again.

### 2.4 JobBoard

| TLA+ | Code |
|---|---|
| `site[j]`, `row[j]` | the external board, `unified_jobs.status`; statuses are `new` (every status that is not terminal), `assigned` (set here), `completed`, `declined` |
| `watched`, `missed` | the marks `aaa:observed-active:*` in Redis; history: jobs whose outcome was read and not stored, or overwritten afterwards |
| `cycle[c]`, `running` | the local variables of a poll cycle, `isRunning` |
| `refresh[r]`, `stray` | `refreshExpiringSessions` of the cron or of a cycle; a login that lost its race with the timeout |
| `cred`, `session` | `tenant_credentials`, the session in Redis |
| `PollStart` ... `Archive` | one poll of one integration: scrape, ingest (read, upsert, announce), clean-up |
| `Scrape`; `ScrapeAaa` | Towbook's `scrapeAllActiveJobs`; `extractRows` of the AAA adapter |
| `ScrapeFails`, `LookupFails`, `UpsertFails` | a scrape, AAA's look-up of a terminal row, an upsert that throws |
| `RefreshStart` ... `Record`, `RecordFails` | one refresh: look, log in, record; the UPDATE to ACTIVE that fails and is recorded as a failed login |
| `Transition`, `Pause`, `ResumeOrTest` | `transitionStatus`, `assignJob`; the admin service |

Two slots of cycles exist so that an overlap could happen; the flag is what
prevents it. The watchdog (`StopWaiting`) ends the cycle, not the refresh it
waited for. A scrape that does not render in ten seconds reads as an empty board
(`towbook.adapter.ts:447-449`).

The two sources differ in what a scrape may say. Towbook's list is what the board
shows. AAA's adapter marks every call that it sees active (`watched`) and reports a
cleared one only if it is marked and its details can be read -- deleting the mark as
it does so, before anybody has stored the outcome (`aaa-portal.adapter.ts:677-725`).
So an outcome is handed out once: a failing upsert or look-up, a scrape that is
retried after some of its jobs were done, or a restart loses it (`missed`), and
AAA has no clean-up that would complete the row. A work order that is in progress
with all appointments cleared (`site` is "closing") is reported as over each time its
details are read, and as active where they come from the cache.

Abstractions: the mark does not expire (seven days in the code); the adapter's own
retry is `ScrapeFails` without the cycle's end; one integration; a connection test
is one step, and its variant in which the password cannot be decrypted is left
out; geocoding, the change log and the announcement of status changes are no
state here; `completedAt` is `row` being over.

### 2.5 DispatchApproval

| TLA+ | Code |
|---|---|
| `matched`, `engine`, `decision` | the rule that matched, where `evaluateForJob` waits, the decision row |
| `portal` | the motor club's page: external; it takes one click at most |
| `reqs` | `flip_accept_requests`, in order of creation |
| `sweep[s]`, `act[h]` | the bridge's sweep, the handler of a reply or override |
| `Reply`, `Override`, `Click`, `Answered` | `applyInboundReply`, `manualOverride`: look-up, portal, UPDATE by id |
| `TurnLate`, `Expire` | five minutes; the expiry cron |

The sweep has no flag, and each request takes several text messages, so two
sweeps may be under way. Which rule matches is free; that a rule's action is
stored as the decision without translation is not (`Verdict`). `crossed`,
`raced` and `lost` name the jobs two senders asked about, the requests two
handlers had read, and the answers a restart swallowed.

`adapterKeyFor` knows two adapters (`flip-accept.service.ts:472-479`). Towbook's has
no Accept button and always reports failure (`towbook.adapter.ts:523-528`). AAA's
clicks the button and, if a dialog appears, its confirmation; a confirmation that is
missing or that fails is passed over, the page's message is noted without being
looked at, and success is returned (`aaa-portal.adapter.ts:566-582`), while a browser
that ends after the click returns failure. So `Click` lets the portal take the answer
or not, and the adapter report success or not, independently. `auto_dispatched`
then says that the adapter reported success, not that the job is accepted (section
6); what can be relied on is the converse, `AcceptanceIsRecorded`.

`ApprovalDesk` is the same without sweeps, handlers, clicks and UPDATEs: a request
is asked, may expire, and is answered in one step together with what the portal
makes of the answer; an answer beats the expiry, and is final. A request is told
(`Told`) as its row says, or as its handler will write once the click is over, and
as "unknown", for good, once two handlers met on it or a restart cut one off. An
accepted answer comes with the portal's acceptance or without, whichever of
`approved` and `auto_dispatched` is told; the portal never shows the other answer.

### 2.6 Billing

| TLA+ | Code |
|---|---|
| `bill`, `blocked`, `ledger` | `tenant_billing`, `tenants.billing_blocked`, `billing_events` |
| `tab[t]`, `buyers` | `ensureCustomer` in a first checkout; customers with a session |
| `events`, `acked`, `live` | Stripe: events emitted, answered, subscriptions that run |
| `post[d]`, `charge[c]` | a webhook request, a `deductCreditForJob`, cut at their awaits |
| `Deliver`, `Insert`, `Credit`, `Unblock`, `ApplySubscription`, `Fail` | `applyWebhookEvent` and its dispatch |
| `ChargeStart`, `Deduct`, `Block` | the charge of a new job |

Abstractions: one tenant whose rows exist; the fields of the billing row that
only the console shows are left out; an event that a handler ignores is not
emitted; the signature is valid. Of what `mapSubStatus` makes of Stripe's statuses
(`billing.service.ts:465-479`: ACTIVE, PAST_DUE, CANCELED, or Stripe's word in
capitals) only ACTIVE and CANCELED are kept, a subscription that runs or has ended:
`After` leaves out one that is behind with its payments.

`CreditAccount` is the same account without events, ledger, repetitions and
second statements: a purchase is one top-up that opens the gate, a job takes one
credit if there is one, and whoever takes the last, or finds none, closes the
gate. `balance`, `spent` and `bought` are `bill.balance`, `used` and the packs
applied. The gate is shown (`Shown`) as it will be once the second UPDATE of what
is under way has been made, and as "unknown" once a top-up met the charge of the
last credit or one of the two was cut off (`tangled`): a disturbance costs the
gate's word, for good, and never a credit.

### 2.7 CampaignDialer

| TLA+ | Code |
|---|---|
| `lead`, `log`, `camp`, `suppressed` | `campaign_leads`, `campaign_call_logs`, `campaigns`, `campaign_suppressions` |
| `batch[c]` | the `running` flag of a campaign and the local variables of `run` |
| `dial[l]` | where `dialOne` stands: `check`, `claim`, `log`, `place`, `record` |
| `hook` | `applyCallResult` after its reads |
| `marking`, `vetted` | `suppress` between its two statements, `ingest` between check and insert |
| `rung`, `silenced` | history: real calls to a lead's number; phones suppressed while nobody was dialling them |
| `IngestCheck`, `IngestInsert`, `MarkAccepted`, `Suppress`, `MarkDNC`, `UpdateCampaign` | `campaigns.service.ts` and the inbound opt-out |
| `Run`, `Slice`, `RunEnd` | `run` and its `Promise.all` slices |
| `DialCheck` ... `DialRecord` | the statements of `dialOne`, one action per awaited call |
| `DialRefused`, `DialLost`, `DialThrows`, `Crash` | refusal, lost answer, a statement that throws, a restart |
| `Started`, `Ended`, `Analyzed`, `Reconcile`, then `ResultSuppresses`, `ResultScores` | webhook and sweep into `applyCallResult` |

All leads of a slice advance independently, so two slices, two campaigns, the
webhook and the operators interleave at every await.

Deliberate abstractions: one tenant; the calling window, the caller's limit and
the ordering leave *any* subset of the eligible leads (`Run`); the checks for
missing configuration and for a missing test number inside `dialOne` repeat
`isDialable` on the same snapshot and cannot fail; one result is between its
read and its write at a time; `failCall`'s two UPDATEs are one, and so are the
recording of a test call and the return of its lead; phone numbers are already
normalised; `daily_cap` and `max_attempts` do not change; `touches` is left out;
no call lasts `touch_spacing_days` (`Rested`). What call back requests, inbound
screening, push messages and statistics write is read by nothing modelled here.

## 3. The runs

Every cfg sets `CHECK_DEADLOCK FALSE`: rows, batches, handlers and events do come
to rest. The sizes are those of the runs' distinct states, rounded.

| Run | Instance | Shows |
|---|---|---|
| `outbound_safety` | 1 row, 3 dials, 2 handlers at once, `max_attempts` 2, floor 1, answered-and-dropped or unanswered calls, 1 restart, 1 operator retry or 1 outdated update; 0.55 M, up to exchanging the handlers | `TypeOK`, `DialCeiling`, `SingleFlight`, `RetryFailedIdle`, `AlertIsLast`, `KeepsPromise` |
| `outbound_liveness` | 1 row, 2 dials, `max_attempts` 1 below the floor 2, a worker for webhooks and sweeps and one for operators, interleaved with each other and with the dispatcher at every await; cancellations, 1 retry, 1 outdated update, lost answers; 0.3 M | `EventuallySettled` |
| `flip_intake` | 1 job, 3 entry points, 2 upsets (restarts, throws, operator requests, changes of settings); 0.9 M | `TypeOK`, `OneCallPerJob`, `TrailBeforeCall`, `OneLogPerCall`, `NeverBeforeOptIn`, `JobIsServed` |
| `job_board` | 1 job, either source, 2 cycles, 3 refreshers, breaker at 2, 2 upsets; 0.65 M | `TypeOK`, `OneCycle`, `AnnouncedOnce`, `CompletionVerified`, `NeverArchivedWhileListed`, `BoardConverges` |
| `dispatch_approval` | 1 job, 2 requests, 2 sweeps, 2 handlers, 3 upsets; 0.35 M | `TypeOK`, `AskedOnce`, `AcceptanceIsRecorded`, `DeclinedNotAccepted`, `AnswersActAtomically`, `RequestsClose`, `FlaggedIsAsked` |
| `billing` | 2 events, packs of 1 credit, 2 charged jobs, 2 webhook requests, 2 checkouts, 2 upsets; 0.5 M | `TypeOK`, `CreditedOnce`, `CreditsBalance`, `GateFollowsBalance`, `SubscriptionFollows`, `ActsAtomically`, `PaidIsCredited` |
| `campaign_safety` | 1 lead dialled twice, cap 1, 1 fault of any kind, 1 change of settings; 1 M | `TypeOK`, `NoDoubleRing`, `DailyCapHeld`, `KeepsPromise` |
| `campaign_two` | 1 company on the lists of 2 campaigns running at once; 1.8 M | `DialBudget`, `OptOutIsFinal` |
| `campaign_liveness` | 1 lead, 2 calls, no faults, every webhook lossy | `CallingResolves` |

Three more runs check what a comment or a document promises and the code does
not do; TLC finds a counterexample to each (section 6).

**The bounds.** Rows do not interact except through the dispatcher's batch, so
one row with every other actor is the interesting instance; the same holds for
the job of `FlipIntake`, `JobBoard` and `DispatchApproval`, whose handlers meet
only over one job. Three dials are one more than the attempts of the safety run,
so a third call that a lost budget would allow can be placed and seen. One
restart, one requeue or one outdated update occurs at every point of the run
(`OneUpset`: after it one handler works at a time); two together, and any number
of them, are left to the proofs. Two handlers are what an outdated update by
another handler needs; they are interchangeable (`Workmen`), which is sound
because no property names one. The liveness run cannot use symmetry. Its two workers
have a trade each, so that an operator's cancellation or retry falls between a
handler's read and its write, and a handler's write between an operator's; two
handlers that overtake each other are left to the safety run and to the proofs. Two
dials are one before and one after the retry, or the floor's redial; when they are
spent the provider refuses. That run tells no states apart by the histories
`alerts`, `placed` and `stray` (`Unhistoried`), which no guard reads. The run about
opt-outs has no restarts, lost answers or second handler, so that nothing but the
code's own path leads to its counterexample. Upsets are what
the environment may do at any moment; two let a fault hit the recovery from
another. A breaker that opens at two failures is reached with two upsets, as the
code's three would be with three. Two requests, two sweeps and two answers are
what a duplicate needs, and the third upset restarts the process between them.
Two events and two jobs are what a redelivery, an overtaking event and the
charge of a last credit need. For campaigns, a lead's second call is the first
that can be wrong (double ring, cap); the cap is *below* the number of calls, so
that it binds and midnight matters; two campaigns sharing one phone are what an
opt-out must span. Cancellation of a row is in the liveness run, and the proofs cover
it in the safety properties too. Other sets of one or two leave no
symmetry to gain by; interchangeable slots (`poll2`, `sweep2`, `reply2`, `post2`, `tab2`) are
filled in order instead. The theorems of section 5 lift these bounds.

**The properties.**
- `DialCeiling`: physical calls, not the `attempts` column, stay within the
  ceiling, plus one per restart and one per outdated update. Retries, refusals,
  lost answers, abandoned-pitch redials and both sweeps all draw on one budget.
- `SingleFlight`: no two calls of one row go on at once, although a row learns
  that its call is over only when told. Calls that a restart, an operator's
  retry, an outdated update or a lost answer made the row forget are excepted
  (`stray`).
- `AlertIsLast`: after the managers were asked to ring the customer themselves,
  the agent does not ring, unless an outdated update wrote the row. It holds when
  `max_attempts` is not below the abandoned-pitch floor; below it the alert comes
  before the floor's redial.
- `RetryFailedIdle`: the query of `retryFailed` never matches a row; the retry
  described in `docs/OUTBOUND_VOICE.md:26-28` is done by the dispatcher.
- `EventuallySettled`: every queued or in-flight row comes to rest, or has left
  the dispatcher's fifteen minutes, with no webhook ever arriving, though operators
  cancel and requeue it meanwhile. A row in flight without a call (`Stranded`) is
  excepted: nothing brings it to rest, and section 6 says how it comes about.
- `KeepsPromise`: `OutboundCall`, and likewise `CampaignDialer`, implements
  `CallPromise`.
- `OneCallPerJob`, `OneLogPerCall`: one customer call and one linked log per job,
  unless two handlers worked on it at once.
- `TrailBeforeCall`: a call that a handler enqueued has a log, even if the process
  died in between.
- `NeverBeforeOptIn`: before the integration's first opt-in nobody is rung
  automatically, although the tick does not look at the switch.
- `JobIsServed`: after any restart somebody still serves the job.
- `OneCycle`, `AnnouncedOnce`: one poll at a time, one credit and one welcome call
  per job, across failures, abandoned refreshes and restarts.
- `NeverArchivedWhileListed`, `CompletionVerified`: a job is not completed for a
  failed upsert, and an AAA job not without word from the board or an operator.
- `BoardConverges`: whatever was lost or misread, the row comes to what the board
  keeps showing, by the polls alone -- but for AAA outcomes that were read and not
  stored, or overwritten later (`missed`), and AAA calls over before they had a row.
- `AskedOnce`: one request per job, outside the named races.
- `AnswersActAtomically`: `DispatchApproval` implements `ApprovalDesk`; no expiry,
  late answer or other request undoes an answer, or accepts on the portal what was
  answered otherwise.
- `AcceptanceIsRecorded`, `DeclinedNotAccepted`: what the portal shows and what the
  request says agree, once its handler has written: an acceptance the portal took is
  on record although the request expired during the click or the adapter reported
  failure, and a decline on record was not accepted.
- `RequestsClose`, `FlaggedIsAsked`: no request waits for ever; a flagged job is put
  to the managers while it is recent.
- `CreditedOnce`, `CreditsBalance`, `PaidIsCredited`: a purchase counts once, and in
  the end; no credit appears or disappears.
- `ActsAtomically`: `Billing` implements `CreditAccount`; deliveries, repetitions,
  failures and charges, however interleaved, act on the credits like indivisible
  operations.
- `GateFollowsBalance`, `SubscriptionFollows`: at rest the gate agrees with the
  balance and the row with Stripe, outside the named races.
- `DialBudget`, `NoDoubleRing`, `DailyCapHeld`: a lead's number rings at most
  `max_attempts` times, once at a time, within the campaign's cap for the day.
- `OptOutIsFinal`: a number that opts out while nobody is dialling it never rings
  again, in any campaign, whatever was imported, accepted or retried. An opt-out
  *during* a dial can be too late for that one call. (The run has no restarts; the
  proof has.)
- `CallingResolves`: a claimed lead is always released.

**The exceptions.** Where a property excepts a race, the race is real: the code
has no transaction or lock against it, and TLC violates the property without the
exception. A history variable names exactly the rows concerned (`crossed`,
`declined`, `raced`, `lost`, `tangled`, `muddled`, `stray`, `stale`, `missed`), so the property
says that nothing *else* leads there. `Stranded` is a state of the row itself.

**Mutants.** Each property is checked to fail when one mapped definition is
replaced by a variant with a plausible slip: an UPDATE that forgets the attempt,
a sweep that takes five minutes without news for the end of a call, a handler
that relies on a later deduplication, a log written after the call, a flag that
is not looked at, an id noted after the upsert, an expiry that does not look at the status,
a balance that may go negative, an event counted as processed when it is done, a
webhook answered before it is applied. The variants stand next to what they vary
and are named in `PROJECT.json`.

## 4. Fairness

`OutboundCall`: the crons run as long as the process does, so the dispatcher and
both sweeps are fair; the provider ends each call; time passes; a handler that
has read its row writes it. No fairness on webhooks: none need ever arrive.
Each arrives a finite number of times (`<>[][no Deliver]`), since a provider
retries boundedly. A cancellation or retry that was begun is finished, though no
operator need begin one. `Reconcile` is strongly fair: a worker runs one handler
at a time, so the other sweep can take its turn, but both are crons and neither
can do so for ever. `CampaignDialer` follows the same pattern; awaited code
continues, and the reconcile sweep runs every five minutes. Both are checked for
liveness without restarts: what a restart leaves behind there is a safety
question.

`FlipIntake`: Node runs pending continuations, the tick fires every minute.
`JobBoard`: the poll fires, awaits settle (page operations have timeouts), the
breaker's hour passes; the session manager's cron is *not* assumed to run.
`DispatchApproval`: sweep and expiry run every thirty seconds, five minutes pass.
`Billing`: Stripe redelivers each unanswered event, awaits settle. These four are
checked with restarts, throws and failures, of which there are finitely many. No
operator, customer or third-party decision is ever assumed.

## 5. The proofs

All checked by TLAPS for every value of the constants within the assumptions
declared in the modules, which say only that bounds are naturals (the breaker's
limit and the pack positive), that clerks and robots are workers, that tables have their types and that a campaign
has finitely many leads. Each proof file proves
one lemma per action, or per action and part of the invariant, and combines them.

**`OutboundCallProofs`.** Premise-free but for `AlertIsFinal`, which assumes
`MaxAttempts >= MinAttempts`; in particular for any number of workers, each of
which may be overtaken by all others between its read and its write. `DialCeiling`
alone is not inductive: nothing in it says that a placed call was paid for. The
invariant `IInv` adds
- `Budget`: calls placed are at most attempts written, plus restarts, plus the
  one in `pend`; a batch's snapshot has attempts to spend -- plus one for each
  outdated update -- and is not newer than the row, unless the row was requeued;
- `Accounted`: every live call is in `pend`, is known to be stray, or is the one
  its row remembers in a status no cron redials;
- `HookOK`: an event under way was sent by the call its handler read on the row;
  `JudgeOK`: a pitch is judged on a row that was settled when it was read, or
  whose call was over. Neither claims that the row still is what was read: a
  writer either finds it so, and then the rest of the invariant applies to what
  it read, or is counted in `stale`, which pays for what it may do;
- `PidOK`, `PendOK`: the references between row, provider and batch;
- `AlertedLate`: managers are alerted only at the last attempt;
- `RetryFailedIdle`, which is a conjunct because a status can only get there
  together with its attempts.

**`CallPromiseProofs`.** `KeepsThePromise`: initial states map to initial states,
and every action to one of `CallPromise`'s or to a stutter, from `IInv`, under
`MaxAttempts >= MinAttempts` (without it the managers are told before the floor's
redial). An outdated update is the promise's `Fault` for its row, a restart for
all rows.

**`FlipIntakeProofs`.** Premise-free. `FlipInv` says of each job: a handler that
wrote a log finds it open and links a call that exists (`Held`), no two handlers
own one log (`Apart`), an asked call has an open log that no failing enqueue can
still close (`Trail`), and where handlers never met, the one at work found no
call and has linked nothing (`Alone`). `OneCallPerJob` alone is not inductive: it
does not know that a handler about to insert was the only one to look.

**`JobBoardProofs`.** Premise-free. `BoardInv`: the flag is up exactly while one
cycle goes on (`Single`); the cycle works on jobs of its list, one at a time, has
noted those it is done with, and a job it takes for new has no row or has not
been announced (`Knows`); a job without a row was never charged (`Books`). What a
scrape of AAA makes of the board needs no part of its own, since it ends in the same
list. The SELECT of `upsertJob` may be several awaits old because only one cycle writes
rows of this source: `AnnouncedOnce` rests on `OneCycle`.

**`DispatchApprovalProofs`.** Premise-free. `ApprovalInv`: a job no two senders met
over is on one sweep's list at most and leaves it for its only request
(`Asking`); a handler at work has its request (`Clicking`); answers given and answers
under way share the request, and a request that one handler works on is pending or
expired (`Answering`); a job that the portal shows accepted was asked
about and its request says so, or its handler will (`Accepting`); the engine
records no decision under a name that clicks (`Undecided`), which is the finding
of section 6 turned into a lemma. `AnswersAreAtomic` is a step simulation from
`ApprovalInv`: the click is `ApprovalDesk`'s `Answer`, because until then its
handler is alone on a request that is pending or expired (`Answering`); the UPDATE
is then a stutter, and a second handler or a restart is the desk's `Disturb`.
`AnsweredOnce`, which no run needs beside it, is proved too.

**`BillingProofs`.** Premise-free. `BillInv`: the record of an event admits one
request to its dispatch, once (`Admitted`); a used credit belongs to a charge
that started (`UsedByJobs`); between the two UPDATEs of a top-up and of a last
charge the gate lags the balance in one known direction (`GateLags`).
`FollowInv` adds, for `SubscriptionAgrees`, that a recorded event is applied, lost
or about to be applied (`Told`), and, while nothing excepted happened, that the
customer on record is the only buyer (`OneBuyer`), that what runs at Stripe is
what the last event about a subscription left (`Runs`), and that the row is as one
such event left it after which no other was applied (`RowFollows`).
`CreditsActAtomically` is a step simulation from `BillInv`: the first UPDATE of a
top-up or of a charge is `CreditAccount`'s step, and `GateLags` is what makes the
second one, and every repetition, invisible; a failure or a restart between the
two is its `Disturb`.

**`CampaignDialerProofs`.** `CampaignTypeCorrect`, `CampaignInductive`,
`CampaignDialBudget`, `OptOutFinal`, with no premise beyond the modules'.
`CampaignInv` adds `LogOK` (logs that are referred to exist), `BatchOK` (only the
running batch of its campaign dials a lead, once, and with an attempt to spend),
`BudgetOK` (`rung` plus the call already paid for is at most `attempts`) and
`SilenceOK` (no lead of a silenced phone is past its check). `OptOutFinal` then
needs only that a phone rings from `place`, which is past the check.

**`CampaignLimitsProofs`.** `CampaignCapHeld`, `CampaignRingsOnce` and
`CampaignKeepsPromise`, on top of `CampaignInv`. The budget of a batch is computed once, so the invariant `CapOK`
counts ahead: calls logged today *plus* the leads of the batch without a log yet
stay within the cap. Taking a slice moves leads from one term to the other, a
log moves one into the sum, and midnight or a restart only lowers it; the proof
is one of cardinalities. For the single ring, `RingOK` says of each lead that one
call rings at most (`Single`), that while one does the lead is neither open nor
awaiting its turn (`Closed`), that a claimed lead is not open (`Claims`), that the
log its dialling has just written cannot be found by a webhook and has no line
before the provider is asked (`Placing`), and that a failed log stays out of every
webhook's reach (`LogsOK`), which is why the exception for lost answers is stable.
The promise needs nothing more: `BudgetOK` gives the attempt, `RingOK` that no known
call goes on when one is placed, `SilenceOK` that the phone may still be rung.

**Only model-checked.** Liveness under fairness (`EventuallySettled`,
`CallingResolves`, `JobIsServed`, `BoardConverges`, `RequestsClose`,
`FlaggedIsAsked`, `PaidIsCredited`), which the prover cannot do, and the violation
runs, which are counterexamples. Every safety property and both refinements that the passing runs check are
proved.

## 6. Where the code does not do what is said of it

| Run | What is said | What happens |
|---|---|---|
| `outbound_opt_out_redialled` | a customer who asked not to be called is never called again (`pitch-completion.ts:34`, `docs/OUTBOUND_REDIAL.md:41`) | a hang-up within 30 s is `no_answer`, and that path returns before the transcript is read |
| `rule_never_accepts` | an accepted job is assigned and accepted on the portal (`docs/DIGITAL_DISPATCH.md:64`) | rules are stored with `accept`, the engine and `recordAutoDecision` compare with `accepted`: a matching accept (or decline, or flag) rule does nothing |
| `integration_pause_lost` | a paused integration halts completely (`docs/ASSUMPTIONS.md:901`) | a login under way when the operator pauses writes `ACTIVE` or `FAILED` over `PAUSED` |

Noticed while modelling, and without a run:

*Outbound calls.* A pitch the customer settled is judged at `call_ended`, without
the analysis, and can be redialled (service line 991, comment 902-903). The
dispatcher dials a row cancelled after its batch was read and overwrites the
cancellation (515; `docs/OUTBOUND_VOICE.md:54`). A stale event can be written
over a live retry, since the row is read, awaited on, and written by id (930;
comment 876-878); section 2.1 says how that is modelled, and the theorems what it
can cost: one ring, and the knowledge of the calls that go on. A terminal webhook repeated after a redial alerts the managers
twice (`docs/OUTBOUND_VOICE.md:129-130`). A call scheduled more than fifteen
minutes ahead leaves the dispatcher's query before it is due
(`docs/OUTBOUND_VOICE.md:17-20`, line 303). The free-trial limit is counted
before each dial while other writers place calls (328). A win reported late by
an earlier attempt is stored as usage, and the row stays as it is (893).
Cancelling does not end a Retell call. A requeue clears `retell_call_id` (246-266); an
event of the old call that was read before and is written after it (967) leaves the
row `in_progress` without a call: no webhook finds it, reconcile asks only about rows
with an id (606), and unless the abandoned-pitch sweep may redial it the row stays so.
The liveness run's counterexample without its exception is this one.

*Campaigns.* A test call's opt-out suppresses the company before test mode is
looked at (`campaign-dialer.service.ts:476`, comment 487). Every event of one call
adds a touch (519; `db/schema.ts:1548-1553`). A `PENDING` log left by a restart
has a NULL `provider_call_id`, which `ne(.., '')` never selects (574; comment
282-285). Pausing does not stop a batch under way (`docs/USTA_OUTREACH.md:92`). The
holiday guard reads the opposite way from `docs/USTA_OUTREACH.md:96`. A late
result overwrites `ACCEPTED`. A restart between the log's and the lead's UPDATE,
or test mode toggled during a call, leaves the lead `CALLING`.

*Intake.* "Never called a second time even if the cron tick fires concurrently"
(`flip-orchestrator.service.ts:993-996`) is not kept: the two use separate keys of
the map, and `enqueueCall` selects and then inserts, so both calls are made
(`crossed`). An operator's scripted call does not say that it is not automatic, so
the dispatcher cancels it for a closed source (`outbound-voice.service.ts:350-352`).
"Will retry on the next tick" (1329) is not so for a job whose tick threw: its
mark stays. The handlers count a cancelled call as a call, `enqueueCall` does not.
A manual request for a job that has any call is answered "queued" and does nothing.

*Job board.* A page that does not render in ten seconds reads as an empty board:
every job of the source is completed and review requests go out
(`towbook.adapter.ts:447-449`). `upsertJob` never sets or clears `completedAt`. The
next poll overwrites a status an operator set. An AAA outcome that was read and could
not be stored is lost: its mark is deleted when it is reported
(`aaa-portal.adapter.ts:725`, also 698), later polls take the call for a historical one
(706-711), and AAA has no clean-up, so the row stays active. An abandoned login may store its
session after the failure was recorded.

*Approval.* The bridge's comment says every 15 seconds, its cron every 30. An
expired request can be overridden according to `docs/FLIP_ACCEPT.md:173-176`; the
code answers 400. A reply from an unknown number decides the newest request of
any tenant. The outcome of `declineJob` is not looked at. A result "reflects whether the click
actually landed", and its evidence proves "the action took effect"
(`adapter.interface.ts:43-45`); AAA's adapter returns success when the confirming
click was missing or failed (`aaa-portal.adapter.ts:576-582`), so `auto_dispatched`
may be recorded for a job the portal does not show as accepted.

*Billing.* An event is recorded before it is applied, so a failure in between
loses it: Stripe's repetition counts as a duplicate. A top-up that meets the
charge of the last credit leaves the gate closed with credits, or open without.
Two first checkouts create two customers, and a checkout never asks whether a
subscription runs. A subscription does not lift `billing_blocked`. Subscription
events are applied in the order of arrival. Nothing but the console reads
`billing_blocked` (`db/schema.ts:48-49`).

## 7. The plan

Modelled, in this order: outbound calls, campaigns, the calls' promise, intake,
board and sessions, approval, billing. Next would be
1. **Pure rules** - `PitchCompletion`, `CampaignDisposition`, `FlipDecision`: the
   precedence of the rules against reference definitions, over all their inputs;
   these replace the free choices in the state machines.
2. **After the call** - the flip log's synchronisation with a row and the
   telemetry of usage.
3. **`TestCall`** as a second dispatcher of the rows of `OutboundCall`, and the
   free-trial limit that counts both.
4. **Abstract specifications** of the other components -- a job that is served once
   (`FlipIntake`), a board that is mirrored (`JobBoard`) -- and the proofs that they
   are implemented; and proofs for the modules above. None of today's safety
   properties is left.

## 8. Not modelled

- *Pure code* (flip decision, shop selection, scripts, classifiers, campaign
  disposition): the state machines take its result as a free choice among the
  outcomes they tell apart, so every property holds whatever the rules say.
- *Third parties' state* (AI notes, GHL, Convini, partner API, SMS, push, the
  browser automation of the adapters): one request per event, not retried, or
  retried against a page whose state only that party knows. A model would check
  assumptions about them, not this code.
- *Single-row writers* (driver jobs, pings, tracking, members, tenants,
  onboarding, administration, inbound calls, reports, branding, knowledge,
  support): each request writes one row from its own input; no two actors wait on
  each other, and tests reach what there is.
- *Counters at the store* (rate limiting): one atomic operation of Redis.
- *Configuration, rendering and infrastructure* (web console, schemas, scripts,
  deployment) and the legacy outbound module, which `outbound-voice` replaced.

Most of the repository's lines are of these kinds, which is why the models cover
a small share of them.
