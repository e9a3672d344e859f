# A verification project for unipile-linkedin-go

TLA+ modules for the parts of this server whose correctness depends on what happens between
its statements - the campaign, jobs and feed loops, the author import, the credential provider
and the handlers that write a campaign - and for the pure parts whose rules are easy to get
wrong. TLC checks them on small instances; TLAPS proves every safety property of the three loops,
of the provider and of the handlers for every value of their constants, that the campaign loop
implements an abstract specification of it, and six of the seven promises of the pure parts and
most of the seventh.

    tlc -workers 2 -config MCDispatchSafety.cfg MCDispatch     # model-check
    tlapm CampaignDispatchProofs.tla                           # check the proofs

## The system

A single binary (`cmd/server`) serves an HTTP API and server-rendered pages over one Postgres
database and runs five background loops (`internal/scheduler`). The loops talk to LinkedIn
through Unipile's REST API and to a language model. All durable state is in Postgres; loops,
handlers and other instances of the binary (a deploy overlaps the old with the new one)
meet only there, statement by statement. There are hardly any transactions.

| Component | State | Operations | Hard behaviour | What makes it correct | Modules |
|---|---|---|---|---|---|
| Scheduler manager (`manager.go`) | five goroutines, tickers | `Start`, `runLoop`, `safeTick`, `Wait` | panics, shutdown in the middle of a tick | every loop ticks on | the loops' fairness |
| Campaign loop (`campaign.go`, `scheduler.sql`) | `prospect_steps` (status, step, lease time), `prospects` (status, chat) | free stale leases, list, lease, load, call, bookkeep, mark, chain | instances, crashes, lost answers, failing statements, a sequence replaced meanwhile | no step twice, none lost, in order, one conversation | `CampaignDispatch`, `StepDelivery` |
| Jobs loop and page (`jobs.go`, `jobs.sql`, `ui/jobs.go`) | `job_searches`, `job_postings` | search, store, rank, park; the user's buttons | no lease, unconditional writes by id, transient errors | decisions stand, paid once, queues drain | `JobScoring` |
| Feed loop and import (`feed.go`, `feed.sql`, `ui/feed.go`) | `feed_searches`, `feed_posts`, `prospects` | search, store, classify, park; import the author as a prospect | an import of four statements, deletions in between | decisions stand, both sides of an import agree, the queue drains | `FeedScan` |
| AI queue, follow-ups (`aiqueue.go`, `followup.go`) | `ai_reply_queue`, `follow_up_tasks` | stubs that settle due rows | none yet | rows settle | none |
| Unipile provider (`provider.go`) | cached client, its key, a mutex | `Get` | a data race; rotation of credentials | one client, the current one | `UnipileProvider` |
| Unipile client (`unipile/*.go`) | none | one call, one answer; no retry | what an error says about the effect | a row is armed again only if the call may yet succeed | `UnipileErrors` |
| Sequence API (`api/sequence.go`) | `sequence_steps`, `campaign_templates` | replace, templates | two operators at once, the campaign deleted meanwhile | the sequence is one request's | `CampaignStore` |
| Campaigns and prospects API | `campaigns`, `prospects` | CRUD, status, CSV upload in one transaction | lost updates, an aborted transaction, row locks | the answer agrees with the table | `CampaignStore` |
| Domain (`sequence`, `delay`, `template`), safety (`limits`) | none | pure functions | bounded loops, boundaries, nesting | they agree with what they mean | `SequenceRules`, `WorkingSlots`, `RetryBackoff`, `TemplateRender`, `SafetyLimits` |
| AI clients (`internal/ai`) | none | one job, with retries and a second model | the timer against the caller's context | bounded and justified calls | `ModelCalls` |
| Blacklist, A/B test, short names | none | pure functions nobody calls | none | | none |
| Authentication, configuration, views | none shared | per request | | | none |

`PROJECT.json` lists every component with its status and every hazard with its line.

## The modules

### CampaignDispatch: `tickCampaign` and `dispatchStep`

Each worker of `Workers` is an instance running the loop. Its `pc` is its position:

    idle -ReleaseStale-> list -ListDue-> work -Lease-> load -Load-> call | mark | fail | release
    call -Accepted-> book | mark -Bookkeep/Mark-> chain | won -LookupNext-> insert -InsertNext-> work/idle

| TLA+ | Code |
|---|---|
| `plan`, `version` | `sequence_steps` of the campaign; `Replace` deletes and inserts them in one transaction, so a step is identified by the edit and its index |
| `row[<<p, n>>]` | the n-th `prospect_steps` row of prospect p: status, `step_id` (`NoStep` is NULL), kind, whether `scheduled_at` has passed (`due`) and whether `processing_started_at` is older than `StaleLeaseAge` (`aged`) |
| `prospect` | status and `chat_id` |
| `ctx[w]` | what the dispatching goroutine has read: the row's step, whether `GetStep` found it, `chat_id`, the next step |
| one action per write | `ReleaseStaleLeases`, `ListPendingProspectSteps`, `LeaseProspectStep`, the remote call, `SetProspectInvited`/`SetProspectChatID`, `markStepSent`, `GetNextSequenceStep`, `CreateProspectStep`, `failStep`, `releaseStep`, `setProspectStatus` |
| `MayInsert`, the condition in `Mark` | the foreign key and `uniq_prospect_steps_active`, which guards inserts and updates |
| `performed`, `chats`, `lapse` | history, read by no guard: what LinkedIn has carried out, and the rows a fault hit at the wrong moment |

Every statement may fail (`"db"`); the code then logs and goes on, and so does the action. In `Bookkeep`
the same fault stands for an answer of `StartNewChat` without a `chat_id`, after which nothing is stored either. A
remote call is accepted, refused for good, throttled, or accepted with its answer lost
(`"lost"`). A worker crashes between any two steps (`Crash`: the process dies, or the context is
cancelled and every later statement fails). A live worker may outlast its lease only by the
fault `"slow"`: the HTTP client gives up after 30 seconds, `StaleLeaseAge` is 15 minutes.
`Faults` says which kinds a run allows and `MaxFaults` how many happen in a behaviour.

The order of a batch is open (`ListDue` takes any `BatchSize` due rows, `Lease` any of the
batch): every order `ORDER BY scheduled_at` can produce is among these.

A row **lapses** when a crash or a failing statement falls between LinkedIn's acceptance and the
end of the bookkeeping, when the answer of an accepted call is lost, or when a live worker
outlasts its lease. The promises of `CampaignDispatchProps` are about the rows that have not
lapsed; `DuplicateNeedsLapse` says that these causes are the only ones, and the run
`dispatch_double_send` that the first one is real.

### StepDelivery and DispatchDelivery: what the campaign loop promises

`StepDelivery` knows no workers, leases, ticks or retries. A step is `"open"`, is carried out at
most once and only while it is open, is settled as `"sent"` exactly if it was carried out and as
`"failed"` otherwise, and the next one opens only behind a carried-out one and when no other step
of that prospect is open. A step that a fault breaks is released from this, except that it does
not vanish. `DispatchDelivery` maps the loop to it:

| `StepDelivery` | `CampaignDispatch` |
|---|---|
| `state[r]` | `row[r].status`, with `pending` and `processing` both `"open"` |
| `done` | `performed` |
| `broken` | `lapse` |

Ticks, leases, releases, retries, bookkeeping and edits stutter; the remote call is `Perform` or
`Break`, `Mark` and the failures are `Settle`, `InsertNext` is `Open`. `Delivers` is checked by TLC
and its step simulation proved.

### JobScoring: `tickJobs` and `SetJobStatus`

One account, several instances. A tick runs the due searches (`ListSearches`, `Search`,
`Insert` per hit, `Touch`), lists a batch of unscored postings (`ListUnscored`) and fetches,
ranks and stores or parks each (`Fetch`, `Rank`, `Store`, `Park`). The tables keep their
`ORDER BY`: `order` is the searches by `last_run_at`, `seen` the postings by `first_seen_at`.
`SetJobStatus` is the user's click, at any moment, with any status the handler allows. There is
no lease, and `Store` and `Park` write by id: `overtaken` records the postings decided on while
a worker had them in its batch, `repay` those whose ranking may have been lost or doubled.

### FeedScan: `tickFeed`, `SetFeedStatus` and `ImportFeedAuthor`

The loop has the shape of the jobs loop: searches (`ListSearches`, `Search`, `Insert`, `Touch`), then a batch
of unclassified posts (`ListUnscored`, `Classify`, `Store`, `Park`). Beside it run requests, which
import the author of a post in four statements without a transaction: `GetPost`,
`PickCampaign` (an active one, else any), `CreateProspect` (one row per profile, whose campaign
must still exist) and `MarkImported` (whose foreign key needs the prospect). Between them anything
may happen: another request for the same author, a click, the classifier's write by
id, a crash, a deletion of the prospect or of its campaign, which cascades and clears the links.
`torn` and `unlinked` record which faults and deletions the promises allow for.

`Listings` is shared by both loops: `Answers(s, P, n)` is what `SELECT .. WHERE .. ORDER BY .. LIMIT n`
answers.

### UnipileProvider: `Provider.Get`

`Get` reads `p.shared` without the lock, then, if nil, the environment, and goes on under the
lock. The unlocked read races with the write: it may return any value since the last one the
goroutine has certainly seen (`Visible`), which is what Go's memory model leaves a racy read of
one word. A client is identified with the credentials it was built for.

### CampaignStore: the handlers that write a campaign

Each request carries a job - a new sequence, an upload, a patch, a status, a deletion, a
template, a copy, a new campaign - and runs the handler of it, one statement per step. `lock` and
`share` are Postgres' row locks as READ COMMITTED takes them: a DELETE reaches its rows one after
the other (`wants`) and waits for each, an INSERT takes the campaign's row FOR KEY SHARE for its
foreign key, a statement whose row another transaction holds waits (`Blockers`), and of
a cycle of waiting transactions Postgres aborts one (`Victim`). Values are the requests that
wrote them. `aborted` is the upload's transaction after a failed row, with which the handler's
loop goes on; `Panic` is `rec[idxURL]` on a record that is shorter than the header, after
which `defer tx.Rollback` must release the locks. `Duplicate` and `Create` write rows of other
campaigns, which start as drafts.

### The pure parts

One module per package, each function as an operator, each loop as `After(step, t)` of `Loops`, what t has
become after each number of rounds; `DomainProps` evaluates them case by case
against a definition of what is right, and runs the one machine among them; `RenderProps` adds
what a template means, whose definition recurses over its tree.

| Module | Code | Against |
|---|---|---|
| `SequenceRules` | `sequence.Validate` | the steps a prospect can reach |
| `WorkingSlots` | `delay.ComputeNextRunTime`, `moveToNextWorkingSlot`, `skipNonWorkingDays` | the first hour that is a working one, if there is one within three weeks |
| `RetryBackoff` | `ExponentialBackoffMinutes` | the longest delay and the distance of two attempts |
| `SafetyLimits` | caps, tiers, both ramps, next Monday | what each day may allow beyond the cap; monotone in the day, where the percentages are, and in the tier |
| `UnipileErrors` | `do`'s errors, the classes of `errors.go`, `handleUnipileError` | which answers are about load and name nothing lasting that is heard |
| `TemplateRender` | `Render`'s passes over tokens | the tree the template was written from |
| `ModelCalls` | the retry loop of both clients and its five callers | a machine: each attempt, back-off and escalation is a step |

No code calls `Validate`, the delay engine or the limits at this commit: their properties are
about what the packages promise, not about the running server. The steps that may follow a step of a
sequence through any chain of branches are stated without recursion, as the intersection of the
sets that no branch leads out of (`Reached`). `CasesAssumption` says of which type the
cases are: the hours of a calendar are 0 to 24, a jitter is not negative, and a ramp is none, any
finite staircase or a linear one with any two integers, on any day of it; values, bases, percentages, attempts and
dates are any integers.

### MC modules

`MCDispatch`, `MCJobs`, `MCFeed`, `MCProvider`, `MCStore` and `MCDomain` give the constants values;
`MCRetry` adds a history variable that counts the leases of a row. A definition marked "Variant" or
"A plausible bug" is a wrong version of the one after it; each checked property is broken by one
of them (`PROJECT.json`, "mutants").

## The runs

| Run | Instance | Shows | Distinct states |
|---|---|---|---|
| `dispatch_safety` | 2 workers, 1 prospect, sequences invite-message-message-end and wait-message-other, all eight faults, 2 of them, 1 edit | type, exclusive lease, no duplicate without a lapse, accepted steps recorded, one open step, one conversation, order, finality of sent, what breaks a chain, and that `StepDelivery` is implemented | 1.44 M |
| `dispatch_settles` | 2 workers, 1 prospect, 2 recoverable faults, fair | every open row is sent or failed; won stays won | 58 k |
| `dispatch_advances` | 2 workers, 1 prospect, 2 faults of the remote side, 1 edit, fair | a sent step gets its successor | 47 k |
| `dispatch_double_send` | 1 crash | **violated**: a crash sends a step twice | |
| `retry_limit` | 1 row, 4 throttled calls | **violated**: retries are not limited by `max_retries` | |
| `provider` | 3 loops, 2 rotations, fair | one client until a rotation, slow path current, `Get` returns | 131 k |
| `provider_rotation` | 2 loops, 1 rotation | **violated**: a rotation has no effect | |
| `jobs_safety` | 2 workers, 1 search, 2 postings and an advertisement, 1 fault, 2 clicks | decisions stand, paid once | 2.01 M |
| `jobs_drain` | 1 worker, 2 searches, 2 postings and an advertisement, limits of 1, 2 faults, 1 click, fair | both queues drain | 99 k |
| `feed` | 1 worker, 2 requests, 1 search, 2 posts by one author, 2 campaigns, 1 active, 1 fault, 2 clicks, 1 deletion, fair | decisions stand, imports are linked, the queue drains | 780 k |
| `store` | every three of 18 jobs, 3 URLs (in the campaign, elsewhere, new), 1 failing statement, fair | a sequence is whole, an upload is all or nothing, no orphans, acknowledged changes stand, every request is answered | 236 k |
| `domain` | the cases of `MCDomain`; three attempts per model | the seven properties of the pure parts | 367 k |

**Bounds.** Two workers are what a rolling deploy has, and two are what a lease can fail
between. Prospects share nothing but a worker's batch, so one prospect with all its rows is
the interesting instance; the safety properties of the campaign loop that are not part of the
refinement held in one-off runs with two prospects (1.2 M states) and with three faults (7.2 M).
The first sequence has an invite, a message that opens the chat, one that uses it and an end:
every kind of bookkeeping. Two faults allow a fault during the recovery from a fault. `MaxRows`
is never reached: it exceeds the steps of both sequences that a prospect with two faults can
get rows for. In `feed`, two posts by one author are what makes two imports meet in one prospect, and
two campaigns let the picked one go while another one stays; one deletion can fall between any two
statements. In `store`, three requests are what a cycle of two with a third in its way
takes; two steps and three URLs give every order of taking rows. `MaxEdits`, `MaxDecisions`,
`MaxClicks`, `MaxDeletes` and `MaxRotations` bound the user's and the operator's actions, which no
fairness forces. What the bounded runs show of safety for the loops, the provider and
the store, the proofs show without the bounds.

**Fairness.** `WF` of a worker's step: `runLoop` ticks once at the start and on every pulse, a
tick does not block (the HTTP client and the database calls return), and a crashed instance is
restarted. `WF` of `LeaseAges`, `StepDue` and `SearchDue` where a property needs it: time passes. In the
provider, `WF` of the steps inside `Get` and `SF` of taking the lock: `sync.Mutex` hands a starving
waiter the lock. In the store, `WF` of a request's statements, which have a goroutine of their own,
and of the victim of a cycle, which Postgres finds by itself. Arrivals, faults, clicks, edits,
deletions and rotations are under no fairness. Faults are finitely many, so `Settles`, `Drains`,
`SearchesRun` and `FeedDrains` say that the system recovers once they stop. A search, a posting or a post
that failed at every tick for ever would keep its place at the head of its limited list and hold up the
ones behind it; that is not claimed away, and parking a posting or post counts as draining it.
`Advances` is claimed only without crashes and failing statements: the statement after
`markStepSent` is not repeated, and with either fault TLC shows the chain lost. `ChainStopsByFault` says of
runs with all faults that nothing else loses it; a chain that is broken stays broken.

**Deadlock** is checked in every run but two: in `store` all requests are answered in the end and
nothing is left to do (that they are is `Answered`), and a case of `domain` is evaluated and over.

## What the code and its comments disagree about

1. `campaign.go:51` says the lease guards against double-send across crashes. It guards against
   two workers; a crash after the acceptance and before `markStepSent` leaves the row in
   `processing`, the stale-lease release arms it, and the step is sent again
   (`dispatch_double_send`).
2. `campaign.go:288-289` says the next tick honors `retry_count` via `max_retries`. Only
   `failStep` raises `retry_count`, after which the row is not retried, and nothing reads either column
   (`retry_limit`).
3. `provider.go:8-10` and `42-45` say a change of the environment gives a fresh client. The
   unlocked fast path returns the first client for ever (`provider_rotation`).

Not a run: `errors.go:91-92` says weekly caps should be retried after the next Monday, and
`safety.NextMondayMorning` computes when, but `handleUnipileError` fails the step and leaves the retry
to the operator, as its own comment says (`campaign.go:286-287`). `UnipileErrors` models what it does.
The properties of `domain` state the following as what the code does, because each is one branch of
a function and a run of its own would show no more than the line itself:

- `errors.go:64` looks at the wording of a body only if it names no type: beside `errors/other`, a demand
  for premium or a new login at 422, 429 or 5xx has the row armed again each time
  (`RetriedExactlyOnLoad`).
- `limits.go:128` says that a linear ramp is "capped at rawCap", but the floor of one
  (`limits.go:208`, `213`) gives the free tier one `inmail` and one `voice_note` a day, which its
  caps of 0 forbid, as soon as a ramp is on; and no line bounds a stair of more than 100 percent
  (`CapRamps`).
- `template.go:107-109` says that missing variables go into `MissingVars`; a variable with a fallback, even an
  empty one, and `{icebreaker}` do not (`RendersMeaning`).
- `openai.go:155` and `174-176` count transport errors among the transient ones, but a connection that breaks while
  the body is read (`openai.go:138`, `anthropic.go:170` drop that error) is a decode error: not retried, lasting, and
  the posting is parked. `reply.go:57-59` says that an invented phone, email or URL blocks a reply; of a URL only the
  host is compared - none blocks nothing - and of a phone its digits with all digits of the
  context (`CallsJustified`).

## What is proved

For every value of the constants that satisfies the module's assumption: no bound on
workers, loops, prospects, postings, posts, requests, columns, URLs, campaigns, faults, clicks, edits or rows, and
`Faults` any subset of the kinds. The assumptions - `DispatchAssumption`, `JobAssumption`,
`FeedAssumption`, `ProviderAssumption` - only say of which type a constant is, that limits are
positive, that a null value is none of the others, and that the searches, postings and posts are
finitely many. `StoreAssumption` says the same of the requests' jobs; `CasesAssumption` and
`AttemptsAssumption` of the pure parts.

| Module | Theorem | States |
|---|---|---|
| `CampaignDispatchProofs` | `TypeCorrect` | `[]TypeOK`, which includes that a worker holds a row exactly inside `dispatchStep` |
| | `ReferencesHold` | `[]References`: the foreign key and the unique index |
| | `LeaseCorrect` | `[]LeaseDiscipline` |
| | `LeaseIsExclusive`, `NoDuplicateWithoutLapse`, `RecordsAccepted` | the three safety properties, from `LeaseDiscipline` |
| | `SentStaysSent` | `SentIsFinal`, an action property, from the same invariant |
| `DispatchDeliveryProofs` | `OneStepIsOpen` | `[]OneOpenStep` |
| | `DispatchDelivers` | `Delivers`: `CampaignDispatch` implements `StepDelivery` |
| | `SequenceInOrder` | `[]InOrder` |
| | `ConversationIsOne` | `[]OneConversation` |
| | `ChainsStopByFault`, `WonStaysWon` | `ChainStopsByFault` and `WonIsFinal`, action properties |
| `JobScoringProofs` | `TypeCorrect`, `DecisionsStand`, `PaidForOnce` | the three properties of `jobs_safety` |
| `FeedScanProofs` | `FeedTypeCorrect`, `FeedDecisionsStand`, `ImportsAreLinked` | the three invariants of `feed` |
| `UnipileProviderProofs` | `TypeCorrect`, `OneClient`, `SlowPathCurrent` | the three invariants of `provider` |
| `CampaignStoreProofs` | `StoreTypeCorrect`, `SequencesAreWhole`, `UploadsAreWhole`, `NothingIsOrphaned`, `AcknowledgedChangesStand` | the five invariants of `store` |
| `DomainProofs` | `BranchesAlwaysEnd`, `RampsKeepCaps`, `RetriesExactlyOnLoad`, `CallsAreJustified` | `BranchesEnd`, `CapRamps`, `RetriedExactlyOnLoad`, `CallsJustified` of `domain` |
| | `NoSlotSkipped` | one round of `moveToNextWorkingSlot` never passes over a working hour and always gets ahead |
| | `SlotsAreFirst` | `SlotIsFirst` of `domain` |
| | `RetriesSpread` | `BackoffSpreads` of `domain` |
| | `BlocksResolve` | after `renderConditionals` no pair of an if and an endif is left of any tokens with up to 100 ifs |
| | `ConditionalsMean` | `renderConditionals` makes of any template of up to 100 blocks exactly what the template means |

`ListingsProofs` holds the lemmas about lists and about `Answers` that both scanning loops need.

**The lease.** Exclusive leases, duplicates and recorded acceptances are not inductive one by one:
that a row in nobody's hands and `pending` was not performed depends on what its last holder did,
and that a second worker cannot lease it depends on its status being `processing` until then.
`RowInv` puts them together: the holder is unique, its lease is young, the row is `processing`
before `markStepSent` and `sent` after it, and `performed` is 0 before the call and 1 after it;
without a holder it is 1 exactly when the row is `sent`. A step of a worker disturbs only its
own row (`OthersGoOn`, `OthersReturn`), and there the fault that would break `RowInv` also makes
the row lapse. One conjunct needs more: `Mark` must not be refused by the unique index, or a
performed row would stay `processing`. That is `References`: a live row is its prospect's only
one for its step. So the inductive invariant is `TypeOK /\ References /\ LeaseDiscipline`.

**One open step.** Between `markStepSent` and `CreateProspectStep` a prospect has no open row at all, and
the right to open one is in the worker's hands. `OneToken` counts both: of the rows of a prospect
that no fault has hit, at most one is open or held, so a step that closes one row and opens
another moves the token and never makes a second one.

**The refinement.** With `RowInv`, `OneToken` and `Present` (a held row exists, and beyond the call it has
been carried out) each action is one step of `StepDelivery` or none; `TokenCorrect` and
`PresentCorrect` are the invariants, and the simulation has one lemma per kind of step.

**Order and conversation.** `StepsFit` says that the step a worker has read is still the one its row refers to, or
one of a sequence that was replaced since, and that the next step it looked up is the one behind
it; with it
`Follows`, behind every row a performed row of the step before, is inductive. `ChatsFit` says of a
prospect that no fault has hit that it has at most one chat, whose id is stored or in the hands
of the worker that is about to store it, and that a worker about to call has read the id that is
stored. `WonIsOver` says that a prospect that is won has no token
left, so that nobody is left to invite it.

**Broken chains.** `ChainStopsByFault` is about one worker's step from `markStepSent` to the next row: it gives
up behind a step that has a successor only if a fault is spent, or the successor's row is there. That
`LookupNext` looks for the step behind the row's own one follows from `StepsRemembered` (while its row
refers to a step, a worker has read that step and found it), that `InsertNext` inserts that one from
`StepsFit`, and that the step is still in the plan from the row's reference (`References`).

**The scanning loops.** `Typed` is the type invariant with the shape of the batches: rows of the
table, each once. `DecisionInv` says that a posting or post with a decision that is not overtaken is in
no worker's batch, so that no `Store` or `Park` reaches it. `PaidInv` says of a posting
that need not be ranked again that at most one worker has it listed and that it was paid for once
at most, and then is scored or has its score in that worker's hands. `Links` ties the
four statements of an import together: what a post links to (`PostLinks`), what a prospect's row
says (`ProspectRows`), what a request may still write (`RequestLinks`) and who answers for a
prospect that no post links to yet (`Claimed`).

**The provider.** `SlowInv` says that a goroutine past the unlocked read works with credentials of its own
call.

**The store.** None of the five is inductive alone, for each says what is true between transactions and
nothing of the ones that are open. `IInv` adds to them, per request (`Mine`):

- `Locking`: only an open transaction holds rows, and the campaign's row is in the hands of
  exactly the request that cascades.
- `Replacing`: the DELETE that begins a `Replace` takes its rows in any order, and two of them may
  interleave. What decides is the first step (`StepKey(0)`): a sequence without one is empty, and who
  holds it, or is about to take it, has or is about to take every stored one. A second `Replace` must
  pass the same place, to delete the row there or to insert its own, and waits, so no two have
  inserted at the same time.
- `Cascading`: a DELETE of the campaign has or wants every row there is. A row inserted between two
  rows of its cascade would break this; the insert shares the campaign's row, and
  `Sharing` says that a shared row is there and is not locked.
- `Uploading`, `Stored`: what an upload has passed is in its hands until it commits, an aborted one
  has nothing, and only a request that was answered 200 has rows.
- `Reading`: a column that a PATCH has read is still the acknowledged one, unless it was changed
  meanwhile (`raced`).

`Next` is first reduced to what each step writes (`Transition`, `StepFrame`); then every part has one
lemma about the request that moves (`ReplacingStep`) and one about the ones that do not
(`OthersReplacing`). TLC checked `IInv` on the instance of `store` before it was proved, and without the
locks that an insert waits for (`ShareBlockers`) the proof fails where it should.

**The pure parts.** Their cases never change (`CasesInvariant`), so a property of them is a fact about
operators. `BranchesAlwaysEnd`: what comes later in the sequence is a set no branch leads out of,
hence holds all that can be reached. `RampsKeepCaps`: the tables are opened row by row (`CapsOfRow`,
`RawCapIs`); a staircase gives a day the percentage of one of the stairs that cover it (`PctOfDay`), of
which a hundredth of the cap is kept between the days and between the tiers (`HundredthGrows`,
`ProductsGrow`), for any stairs, and a linear ramp likewise for every start and increment.

*Loops.* The library's induction theorems cannot be applied here, so `DomainProofs` has its own for
sets of numbers, from the well-foundedness of `<` (`LeastNumber`, `Induction`), and with it what a
loop computes round by round (`AfterEachRound`). The rest of the pure parts stands on these two:

- `SlotsAreFirst`: no round passes over a working hour (`NoSlotSkipped`), so what remains is that 200
  rounds are enough. A day takes at most three of them - its beginning, its lunch break, its end - and
  a potential of three per day and one per part of a day grows with each round; three weeks are 68 at
  most. The code's early return makes the case where the day begins after it ends trivial.
- `RetriesSpread`: doubling is monotone and never less than the base (by induction over the attempt), the cap
  cuts it, and a percentage of at most 20 on either side leaves 1.2 of a delay below 0.8 of its double;
  bases of at least five minutes keep the rounding from closing the gap.
- `BlocksResolve`: a round replaces the innermost if, its endif and the branch not chosen, and every if
  that is left was there before at another place: an injection into the ifs without the one replaced. So
  there is one less in each round, until no endif has an if before it.
- `ConditionalsMean`: a *reading* is what is written, what it means for a lead and how many blocks it has.
  `Means` is the least set of readings with plain text in it that is closed under putting two behind
  each other and under enclosing them in an if with or without an else (`Complete`; `HasMeaning` says that it
  is one, so every template with balanced blocks has a meaning). The invariant is
  `Rendered`: wherever a template stands, behind tokens that close no block, as many rounds as it has
  blocks put its meaning in its place and touch nothing else. The context makes it
  inductive: in an if with an else the first branch is rendered with the second one behind it, the
  second one with the first one's meaning before it, and then the block itself is the innermost
  one (`InnermostFound`).

`CallsInv` is the invariant of the calls: an attempt is
left while there is one to make, the fast model has been asked before the smart one is asked
for help, and the verdict is that of the last answer.

**Only model-checked**: the liveness properties (`Settles`, `Advances`, `Drains`, `SearchesRun`,
`FeedDrains`, `GetReturns`, `Answered`; liveness under fairness is out of the prover's reach), and
`RendersMeaning`, whose definition recurses over the template's tree with operators the prover has no
backend for. Of the passes it composes, `ConditionalsMean` proves the conditional one; the spin blocks and
the variables are checked by TLC only.

## Not modelled

- Starvation: rows that are released over and over keep the oldest `scheduled_at`, and a batch full of
  them (`scheduler.sql:14`) would keep later rows from being listed. `CampaignDispatch` leaves the order of the batch
  open and faults finite.
- The status of the campaign, a pause after a reply (`ListPendingProspectSteps` reads neither,
  `scheduler.sql:12`), working hours and limits: `dispatchStep` reads only the kill switch, one of the
  refusals that `"load"` stands for.
- Who inserts a prospect's first row: no code does; `Init` has it.
- The deletion of a prospect or of its campaign while its steps are dispatched: `RowId` has no
  deletion. Against imports, uploads, sequences and templates deletions are actions.
- A panic inside a tick abandons the rest of the batch: it is a `Crash` of that loop.
- An acknowledgement of a COMMIT that gets lost: a statement that fails has not happened, except
  for the remote calls, where `"lost"` is a fault.
- Routes: `SetFeedStatus` and `ImportFeedAuthor` are not mounted by any router of this commit.
- The stub loops `aiqueue.go` and `followup.go`, which settle every due row.
- The onboarding form, two autocommitted statements of one request; authentication, views, configuration.
- Blacklist, A/B assignment and short names: functions of strings and hashes that nothing calls.
- In templates: the scanners that make tokens of a text, filters, escapes and the `sender.*` variables, which
  `readVar` takes from another record in the same way. In delays: changes of
  the clocks, minutes, and the loading of time zones. In model calls: prompts and the cost table.

## What is left

1. The order of the due rows in `CampaignDispatch` with rows that keep coming back, to bound the
   starvation above.
2. Deletions of prospects and campaigns as actions of `CampaignDispatch`, whose cascade takes rows
   a worker holds.
