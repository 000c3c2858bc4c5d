# A TLA+ verification of logos-agent

logos-agent (Rust, `src/src/`; a Qt owner app, `src/app/`; a Logos Core module,
`src/module/`) is an autonomous agent with a shielded account on a LEZ chain. It
spends on its own within limits its owner sets, asks the owner over Logos
Messaging (Waku) for anything above them, and buys and sells skills to other
agents. This directory holds a formal model of it: TLA+ modules, TLC
configurations, and TLAPS proofs. `PROJECT.json` ties every definition to the
lines it models.

All paths below are relative to the directory that holds `src/`, the repository.

## 1. The system

| component | source | state | operations |
|---|---|---|---|
| owner approval runtime | `src/src/owner.rs` | `pending` (held spends by request id), `next_id`, the state file | `propose_send`, `propose_send_no_wallet`, `process_owner_messages`, `with_state`, `persist` |
| spending policy | `src/src/lib.rs` | three limits, `PeriodSpend {started_at, amount}`, the period file, transaction history | `check_policy`, `send`, `send_approved`, `set_policy_limit`, `set_period_policy`, `enable_period_persistence` |
| deployed agent | `src/src/bin/agent.rs` | none of its own: command line, state file, period file, wallet | start (identity, restore), the poll loop |
| messaging | `src/src/messaging.rs` | a topic's messages | `send`, `poll`, `join`, `create_group`, on an in-memory backend and on nwaku |
| skills | `src/src/skills.rs` | the registry: skills by name | `register`, `dispatch`, the built-in skills (`program.call`, `meta.configure`, ...) |
| A2A | `src/src/a2a.rs` | client: `next_task`, `tasks`, its file; provider: none | `publish_card`, `serve_pending`, `discover`, `run_task`, `run_task_with_payment`, `poll_task`, `cancel` |
| owner app | `src/app/src/` | requests and spent notices on screen, limits | `pollRequests`, `decide`, `configureLimit`, `configurePeriod` |
| storage | `src/src/storage.rs` | objects and their labels; on Codex an in-memory index | `upload`, `download`, `list`, `share` |
| C FFI, Logos Core module | `src/src/ffi.rs`, `src/module/src/` | session handles | open, invoke, poll, decide, free |
| wallet provisioning | `src/src/bin/agent-wallet-init.rs` | a wallet file | create once |

How they interact. The binary owns one runtime, which owns the `Agent` (policy and
accumulator) and the agent's end of the owner channel: two topics, agent to owner
and owner to agent. The runtime calls the agent for the policy's verdict and for
transfers, the agent awaits the wallet. The owner app reads requests from one topic
and writes decisions and limits to the other. The A2A client pays through
`Agent::send`, the provider refunds through `Agent::send_approved`, `program.call`
goes through `check_policy`; all of them charge the one accumulator, which is shared
by interior mutability.

What is hard:

* **Every await is a place to die or to fail.** The runtime takes `&mut self`, so
  its handlers do not interleave with each other. But a transfer or a publish may
  take effect and still return an error, or take effect and be the last thing the
  process does. What memory holds, what the state file holds, what the owner has
  seen and what is on the chain then differ.
* **Two delivery disciplines.** `InMemoryMessaging` returns the whole topic at each
  poll; nwaku evicts what it served. The code dedupes by content so as to serve both.
* **Ids are taken late.** `next_id` advances after a publish succeeded, not before.
* **Durable and volatile state.** Held spends and the accumulator are in files;
  limits the owner configured are not.
* **Time.** The period window tumbles, rolls lazily on checks and records, and is
  restored from a file written only by records.

What makes each component correct:

* owner approval: nothing above the limits moves without the owner having seen
  and approved it, once; an approved spend does move; a held spend is not lost; the
  limits in force are those the owner set last;
* spending policy: the accumulator is exactly what was charged in its window; a
  window stays within the limit, across restarts; nothing is held without cause;
* A2A: payment precedes the request; a new task takes no name in use; a task paid for
  is served or refunded, once where messages come once, always where they come again;
  the client's ledger tells what happened and forgets no task;
* owner app: a spend the agent holds can be decided; equal ids are equal requests;
* start-up: a restart is the same agent, with its spends and its allowance;
* skills and storage: what an upload returned can be found; a joined group is heard; a
  session is used only between its creation and its release. (That a skill runs only with
  the parameters it requires is one lookup in the code, `Runs` and `Find`; no property
  repeats it.)

## 2. Plan

| module | of | state |
|---|---|---|
| `OwnerApproval`, `OwnerPromise` | runtime, state file, both backends, owner, crashes; what it implements | done, safety proved |
| `OwnerDesk` | the owner app, composed with `OwnerApproval` | done, safety proved |
| `SpendingPolicy` | accumulator, clock, period file, the calls through the gate | done, safety proved |
| `A2ATasks`, `TaskPromise` | client and provider over both backends; what they implement | done, safety proved |
| `AgentStartup` | identity, torn and old files, wallet home | done, safety proved |
| `AgentSession` | sessions, skill dispatch, storage, group messaging | done, safety proved |

Each component's theorems are in a module of its own: `<module>_proofs`, and for
`OwnerApproval` also `OwnerDecisions_proofs`, with what needs an assumption on the faults
or on the backend.

Still to be modelled: messages that do not decode (both ends stop reading a cumulative
topic that holds one).

## 3. What is modelled

### OwnerApproval

`pc` is the await the runtime is suspended at; `cur`, `tries`, `batch` and `resolved`
are the locals of the handler; `pending`, `nextId` and `policy` its memory; `disk` the
state file; `toOwner` and `toAgent` the topics. `executed`, `decisions`, `ordered` and
`unread` are histories the properties read and no guard does. The steps:

| code | actions |
|---|---|
| `propose_send` | `ProposeWithinPolicy`, `ProposeOverPolicy` |
| `request_approval` (`NOTIFY_ATTEMPTS` publishes) | `NotifyOk`, `NotifyFails` |
| the rest of `hold_for_approval` | `HoldForApproval` |
| `send_approved(..).await` and `notify_spent` | `TransferOk`, `TransferFails` |
| `process_owner_messages` | `Poll`, `ApplyApprove`, `ApplyDeny`, `IgnoreDecision`, `ApplyConfigure`, `FinishBatch`; a read that fails: `PollLost` |
| process death and start of `bin/agent.rs`; `with_state` called again | `Restart` |
| the owner's end of the channel | `Decide`, `ConfigurePolicy` |

A publish or a transfer that fails may or may not have taken effect
(`publish_lost` / `publish_ambiguous`, `send_error` / `send_ambiguous`); a poll whose
answer is lost has evicted what it read. Each of these, a failing write of the state
file, a crash and a restart draws from the bound `MaxFaults`; which kinds may happen is the
constant `Faults`, so that a run can say under which failures a property holds.

Two restarts. A crash (`"crash"`) is a process that dies at any await and the binary that
starts again. The binary always talks to nwaku (`src/src/bin/agent.rs:107`), which outlives
it, and what the dead process had read is gone; so `Restart` has crashes only on the
evicting backend. `InMemoryMessaging` is memory of the process
(`src/src/messaging.rs:52-58`): a process that dies takes its topics with it, nothing of
the channel is left to speak of, and the model has no such step. What does happen on that
backend is a runtime that is let go between two calls and rebuilt by `with_state` over the
same messaging (`"restart"`), as `src/src/owner.rs:536-557` and
`src/tests/owner_approval_flow.rs:344-396` do; it then meets the whole topic again. On nwaku
the same step is an orderly stop of the binary. Either way `pending` and `next_id` come from
the file, and the policy is the one the host gives.

Abstractions. A spend is its amount (two recipients are two amounts). The period
verdict is any that the configured limit leaves possible. `configure_period` sets
limit and seconds in one message: the pair is one key of `policy`. The state file is
written in one step (`AgentStartup` tears it). All messages decode.
`peek_owner_messages`, an inspection aid no program here calls, reads like `PollLost`.

### OwnerPromise

The abstract specification of the owner channel: `Ask` the owner about a spend,
`Answer`, `Pay` what was approved, and `Keep` a book of spends that survives restarts,
which nothing enters unasked and nothing leaves unsettled. `OwnerApproval` implements it
(`PromiseKept`) under the mapping `shown <- Shown`, `verdicts <- Verdicts`,
`book <- disk.pending`, `paid <- Paid`: the requests on the topic, the decisions taken,
the state file, and the approved transfers on the chain.

### SpendingPolicy

`policy`, `startedAt` and `spent` are those of `Agent`; `file` is the period file;
`flight` the transfer that awaits the wallet (one at a time: the wallet is borrowed
mutably); `now` the clock in seconds; `ledger` the history of what reached the chain,
each entry with the gate it passed (`policy`: `Agent::send` and declared
`program.call`; `owner`: `send_approved`; `undeclared`: `program.call` without
`spend`) and the window it was charged to. A check rolls a window that is over, in
memory only (`CheckRolls`); a record charges and writes through (`Record`); a write
may fail; a restart or a crash restores from the file and takes the policy from the
command line. `unsaved` and `forgotten` are histories: the charges the file has not
received, and those of them a restart has lost. Amounts saturate at `MaxAmount`, which stands for `u128::MAX`.

### OwnerDesk

`OwnerApproval` lets its owner decide any request that was ever published. `OwnerDesk`
EXTENDS it and puts the app of `src/app/src/agent_owner_plugin.cpp` in the owner's
place: `requests` and `spentShown` are its two lists, `read` is how far an evicting node
has served the topic to it. A node buffers a topic from its first subscription on
(`src/src/messaging.rs:201-205`); the model takes it that the app's node has had this topic
from the start, which holds where agent and app share one node, since the agent's first publish
subscribes it. An app on a node of its own that opens late sees less. The agent's steps are those of `OwnerApproval`
(`AgentActs`); the owner's `Decide` and `ConfigurePolicy` happen only through the app.

| code | actions |
|---|---|
| `ensureOwnerChannel` | `AppOpens` |
| `pollRequests` | `AppPolls`; a read that fails: `AppPollFails` |
| `decide` | `AppDecides`; a publish that fails: `AppDecideFails` |
| `configureLimit`, `configurePeriod` | `AppConfigures` |
| the end of the app | `AppCloses` |

`OwnerActsByApp` is the specification of `OwnerApproval`: the composition is one of its
behaviours, so that what is proved there holds here. The history `broken` becomes true
when something is lost for good: a read, a decision, the rest of a batch, the memory
of a process. `HeldIsDecidable` speaks of the behaviours before that.

### A2ATasks

Clients and one provider over two topics of a backend, chosen in the initial state.
`step` is the await a client is suspended at, `inHand` the id its `run_task` has taken,
`nextTask` and `ledger` its memory, `disk` its file; `phase`, `todo` and `cancelled` are
the locals of `serve_pending`. The provider keeps nothing. A restart of either side on the in-memory
backend is an object dropped and rebuilt over the same messaging
(`src/src/a2a.rs:681-702`, `src/tests/a2a_two_agents.rs:54-92`), on nwaku also the death of its
process. `paid`, `requests`, `invoked`,
`refunded` and `repeated` are histories.

| code | actions |
|---|---|
| `run_task` | `RunTask`, `PaymentOk`, `PaymentFails`, `RequestOk`, `RequestFails`, `RecordTask` |
| `run_task_with_payment` | `RunTaskWithPayment`, then as above |
| `poll_task`, `cancel` | `PollTask`, `CancelTask`; a lost answer: `UpdatesLost` |
| `with_state` | `ClientRestart` |
| `serve_pending`, `refund_task`, `publish_update` | `Serve`, `RefundOk`, `RefundFails`, `UpdateOk`, `UpdateFails`, `Invoke`, `FinishServing`; a read that fails: `InboxLost` |
| the provider's process | `ProviderRestart` |

Abstractions. A task id is its number. Of the updates topic the newest update of each
id is kept, which is all `poll_task` makes of it. The price is within the client's policy
(another is refused before anything changed), every task costs something, and the
provider has a wallet: without one a cancel is acknowledged and not refunded. A skill's
result is its outcome. The provider's refund and the client's payment charge their
accumulators as `SpendingPolicy` says.

### TaskPromise

What paid tasks promise, without topics, batches, memory and crashes: clients `Pay`, `Ask`
for no more tasks than they paid for, and `Keep` a book that holds only tasks they asked for,
loses none and says of each what happened; the provider's side is `Settle`, a skill run or the
money returned, once for each task unless the backend brings it again. `A2ATasks` implements
it (`TaskPromiseKept`) under the mapping `retains <- backend = "cumulative"`,
`asked <- requests`, `ran <- invoked`, `returned <- refunded`, `again <- repeated`, and, for
`book`, the ledger in each client's file: that is the book that survives the client.

### AgentStartup

The life of the binary over several processes: `home` is the wallet's storage,
`stateFile` and `periodFile` the two files, each absent, whole or torn, the state file
also `old`, from before it had `account_id`. `pc` goes through `main`: opening the
wallet, minting, restoring both files, the first write, running; `pin` is `--account`.
In the running agent a spend is held, denied, executed or charged, and each of these is
followed by the writes the code makes, in their order, so that a death or a torn write
falls between any two. Accounts and spends are numbered; each spend carries the account
that made it.

### AgentSession

Who holds an agent and what its skills leave behind. `host` is either the Logos Core
module, which has one session with in-memory services behind a pointer (`pointer`,
`live`), or a program that embeds the crate with a Codex and an nwaku node, which outlive
it. `registry` is the list of skills in the order of registration, `Find` and `Allowed` are
the two halves of `dispatch`; an embedder may register a skill over any name, with any
required parameters. An upload of the embedder is three steps, the request, what the node
does with it, and its answer, with several callers under way (`uploads`, `index`,
`node`). `subscribed` and `buffer` are what nwaku does with a group topic; a message a poll took
from the node counts as read, the answer of the poll being lost or not, so `JoinedHears` is
about what never reached the node, not about lost answers.

### Not modelled

* Agent cards and their signatures: canonical JSON and ed25519, no behaviour over time.
  `publish_card` and `discover` write and read one topic and change nothing else.
* The blockchain skills that pass through to the wallet (`wallet.balance`, `wallet.history`,
  `program.query`, `program.deploy`), and the parsing of skill arguments: each is one call
  that changes no state of the agent. `meta.configure` is `Reconfigure` of `SpendingPolicy`.
* Messages that do not decode; the transaction history list; the status line and the
  skill catalogue of the owner app; string and pointer conversions of the FFI.
* The wallet, the chain, nwaku and Codex are external, modelled by how the code uses them.
* Command lines, HTTP, encodings, packaging and demo scripts.

## 4. What is checked

The `MC` modules name the values the configurations give to constants; the callers of an
embedded agent are alike, hence the symmetry in `MCAgentSession`. No deadlock is excused
in `OwnerApproval` and `OwnerDesk`, where the loop can always poll. The other runs stop when
their bounds (time, transfers, tasks, launches, messages) are used up, so they say
`CHECK_DEADLOCK FALSE`.

| run | expects | properties | shows |
|---|---|---|---|
| `owner_cumulative` | pass | `TypeOK`, `HeldWasAnnounced`, `ExecutedWasApproved`, `AtMostOncePerLife`, `FirstDecisionWins`, `ReleasedOnlyWhenDecided` | On a backend that redelivers everything at each poll, with every failure and restarts of the runtime between its calls: only announced spends are held, only approved ones execute, once per run of the runtime, the first decision about an id wins, and the state file lets go of no spend the owner has not decided about. |
| `owner_content` | pass | `ExecutedAsApproved`, `PolicyIsOwnersLatest`, `DurableAtRest` | Replaying the whole topic at every poll, with publishes and polls that fail: what executes under an id is what the owner saw when approving it, the limits end up as the owner set them last, and between two calls memory and state file agree. |
| `owner_live` | pass | `ApprovalTakesEffect`, `LimitTakesEffect` | The deployed agent on nwaku, across lost answers, failed writes, crashes and restarts: an approval that is on the topic executes its spend and a limit that is on the topic comes into force for good, unless the owner denies the spend or yet another failure follows. |
| `owner_desk` | pass | `DeskOK`, `HeldIsDecidable`, `ExecutionsWithinApprovals`, `OwnerActsByApp`, `PromiseKept` | Agent and owner app together on an evicting backend, with faults on both sides: a held spend can be decided until something is lost for good, the app is an owner as OwnerApproval describes one, an id executes no more often than it was approved, and the runtime implements OwnerPromise, by which the state file lets go only of settled spends. |
| `spending` | pass | `TypeOK`, `AccumulatorMatchesLedger`, `WindowWithinLimit`, `TwiceLimitAtMost`, `HeldOnlyOverLimit`, `SpendsWithinAllowance` | Across rolls, a reconfiguration, failed transfers and writes, restarts and crashes: the accumulator is the sum of what was charged in its window less what the file never received; under one policy a window stays within the limit and any span of a period within twice the limit; no spend is held without cause; under any policy an autonomous spend fits what is left of the window. |
| `a2a` | pass | `TypeOK`, `PaidBeforeRequested`, `NewTaskIsNew`, `ServedOrRefundedOnce`, `LedgerTruthful`, `TrackedStaysTracked`, `TaskPromiseKept`, `RequestIsSettled` | Two clients and a provider on either backend, with any one failure or crash: payment precedes the request, a new task overwrites no other, the ledger says what happened, nothing tracked is dropped, on an evicting backend a task is served or refunded once, on a cumulative one always in the end; the two sides implement TaskPromise. |
| `agent_startup` | pass | `TypeOK`, `OneIdentity`, `HeldIsOwn`, `NothingForgotten` | Through four starts with up to three failures, deaths or torn files among them: a restart is the same agent, it executes only what it announced itself, and it has forgotten neither a held spend nor a charge. |
| `agent_session` | pass | `TypeOK`, `OneSessionOwned`, `ReturnedIsListed`, `ListedIsStored`, `JoinedHears` | The module's session and an embedder's agent: one session at a time and none leaked, what an upload returned is listed and stored, a joined group is heard. |
| `owner_send_error` | violation | `ApprovedIsExecuted` | A transfer that fails once makes the runtime forget the approved spend: no later poll retries it. |
| `owner_id_reuse` | violation | `ExecutedAsApproved` | A request that was published although the call reported failure leaves its id free: approving it executes another spend. |
| `owner_repeat` | violation | `AtMostOnce` | A crash between a transfer and the write of the state file lets an approval the owner sends again execute again. |
| `a2a_task_id` | violation | `TaskIdsNeverReused` | A client that dies between publishing a paid request and writing its file gives the next task the same id. |

Bounds. Two amounts and two proposals give two requests that can be confused with one
another, the case every property about ids needs; three owner messages allow a
contradiction (approve and deny of one id) plus a repetition, or a change of limits in
between; `owner_content` takes three proposals so that a request that was given up can
be followed by two others; two faults allow a failure inside the recovery of another,
and exhaust two attempts to notify. The code's three attempts are used in the
violated runs, where the length of a counterexample costs little. `owner_desk` has one
fault of the agent and one of the app, which meet each other. `spending` has amounts 1 and
2 against a limit of 2 in 3 seconds, and times up to two windows: every comparison meets
its boundary, and `MaxAmount = 4` lets the sum saturate. `a2a` has two clients, whose ids
collide, two tasks, which may be one client's or one of each, a cancel and one fault of any
kind, on both backends. `agent_startup` has four launches and three faults: a death, a
death in the recovery from it, and one more, then a start that succeeds. `agent_session`
has two sessions, one foreign skill, which may shadow any other, two uploads under
equal or different labels by two callers, one message, and one failed request.

Why the passing runs exclude certain faults is what the violated runs show: each
excluded kind breaks the property, and its counterexample is recorded as a finding
when the repository says otherwise.

* `owner_content` excludes restarts and ambiguous publishes, after which an id the owner
  has seen is used again: `owner_id_reuse`. It excludes failing transfers and writes
  because they drop the rest of a poll, or leave memory and file apart by design: an
  approved spend leaves memory before its transfer, and an error there skips the write.
* `owner_live` and `owner_desk` exclude refused transfers: `owner_send_error`.
  `owner_cumulative` has them. `owner_cumulative` has restarts between calls and no crashes,
  `owner_desk` crashes, `owner_live` both (section 3).
* On nwaku a decision or a limit that was read is gone: a lost answer or a crash after the read
  loses it for good, and a restart goes back to the limits of the command line. `owner_live`
  says what remains: whatever failed before, an approval or a limit that is on the topic, or in
  the batch being applied, takes effect unless another failure comes on top
  (`budget.faults < left`) or the owner denies the spend. Its mutants are a restart that forgets
  held spends, and the positional cursor `src/src/owner.rs:392-395` warns of.
* `spending` has every fault. `WindowWithinLimit` and `TwiceLimitAtMost` are about behaviours
  of one policy in which every autonomous spend was charged and no charge forgotten
  (`Steady`); how charges get lost is what `AccumulatorMatchesLedger` says exactly.
* `a2a` and `agent_startup` have every fault of their modules. On a cumulative backend a
  request is served again at every poll, so `ServedOrRefundedOnce` is about an evicting one;
  there a request may be lost, so `RequestIsSettled` is about a cumulative one: it says nothing of
  nwaku, and supposes that the messaging outlives the provider object and that its embedder
  keeps calling `serve_pending`.

Fairness. `FairSpec` of `OwnerApproval` asks that a handler under way goes on
(`WF_vars(Finishing)`: the async runtime resumes it, HTTP calls have timeouts,
`src/src/messaging.rs:117-129`) and that the agent keeps polling (`WF_vars(Poll)`: the
endless loop of `src/src/bin/agent.rs:120-133`, which is why the runs that use it are on the
evicting backend). `FairSpec` of `A2ATasks` asks the same of
the provider (`WF_vars(Serve \/ Serving)`): `serve_pending` is a call its embedder repeats,
as `src/tests/a2a_two_agents_waku.rs:131-140` does. Nothing is assumed of the
owner, of the clients, of proposals or of faults; faults are finite (`MaxFaults`), so each
of them ends.

## 5. What is proved

For every value of the constants that meets `ConstantsAssumption` (any amounts, limits,
backend, faults and bounds):

* `KeepsPromise` (`PromiseKept`): The runtime, with its topics, state file, retries and crashes, implements OwnerPromise, provided the wallet does not refuse an approved transfer.
* `ReleasesOnlySettled`: The state file lets go of a held spend only once it reached the chain or its id was denied, under the same proviso, whatever else fails.
* `ReleasesOnlyDecided` (`ReleasedOnlyWhenDecided`): Without any proviso, a refused transfer included: no failure, write or restart makes the state file lose a spend the owner has said nothing about.
* `TypeCorrect` (`TypeOK`): Every reachable state of the runtime is well typed, for any backend, faults and bounds.
* `HeldOnlyIfAnnounced` (`HeldWasAnnounced`): A spend is held, in memory or in the state file, only if a request for this very spend was published.
* `ExecutedOnlyIfApproved` (`ExecutedWasApproved`): No escalated spend reaches the chain that the owner was not shown, or under an id the owner never approved, whatever fails and whenever the process dies.
* `ExecutesAtMostOncePerLife` (`AtMostOncePerLife`): Between two restarts the runtime executes a request id at most once, however often decisions are delivered or repeated.
* `ExecutesWithinApprovals` (`ExecutionsWithinApprovals`): On a backend that evicts, an id reaches the chain no more often than the owner approved it, across crashes and refused transfers.
* `FirstDecisionDecides` (`FirstDecisionWins`): On a backend that keeps its messages the first published of contradicting decisions wins, whatever fails.
* `ExecutesWhatWasApproved` (`ExecutedAsApproved`): What is executed under an id is what the owner was looking at when it approved the id, as long as nothing restarts and no answer to a publish is lost.
* `RestIsDurable` (`DurableAtRest`): Between two calls the state file holds what the runtime holds, across crashes and restarts, provided it can be written and no approved transfer is refused.
* `OwnersLimitsInForce` (`PolicyIsOwnersLatest`): With no message left to read the limits in force are the ones the owner configured last, without restarts and refused transfers.
* `ActsByApp` (`OwnerActsByApp`): The agent at work with the owner app behaves as OwnerApproval says: what is proved of the runtime holds of the composition.
* `TogetherKeepPromise` (`PromiseKept`): App and agent together implement OwnerPromise, under the proviso of KeepsPromise.
* `ScreenIsTruthful` (`DeskOK`): The screen shows nothing the agent did not publish, and one request for each id.
* `HeldStaysDecidable` (`HeldIsDecidable`): Until a read, a decision or a batch is lost, or the app is closed, every spend the agent holds can still be settled by the owner.
* `TypeCorrect` (`TypeOK`): The accumulator never leaves the width of an amount and its window never starts in the future.
* `AccumulatorIsLedgersSum` (`AccumulatorMatchesLedger`): The accumulator is the sum of what was charged in its window and not forgotten by a restart, through rolls, reconfigurations and every failure.
* `HoldsOnlyForCause` (`HeldOnlyOverLimit`): A spend is held only over a limit, counting no more than what reached the chain in the last period.
* `SpendsWithinWindow` (`WindowWithinLimit`): What the agent spends on its own in a window stays within the period limit, across restarts, while every charge is made and written.
* `SpendsWithinTwice` (`TwiceLimitAtMost`): Under the same proviso no span of the period's length sees more than twice the limit.
* `SendsWithinAllowance` (`SpendsWithinAllowance`): An autonomous spend fits the period limit in force with everything charged in the window, approved and unwritten charges included, after any reconfiguration or restart.
* `KeepsTaskPromise` (`TaskPromiseKept`): Clients and provider, with their topics, files, failures and crashes, on either backend, implement TaskPromise: no task unpaid, none settled twice unless it came twice, every client's book true and growing.
* `TypeCorrect` (`TypeOK`): Clients, provider, inbox and files are well typed, and nothing is left of a batch between two calls of serve_pending.
* `SettledOnce` (`ServedOrRefundedOnce`): On a backend that evicts, a request is served or refunded, never both and never again.
* `LedgerIsTruthful` (`LedgerTruthful`): What a client's ledger says of a task is what happened to its request: canceled means refunded, an outcome means a skill ran.
* `PaidAtLeastAsRequested` (`PaidBeforeRequested`): Payment precedes work: a client has paid at least as often as it published a request, whatever fails.
* `NewTaskTakesFreeId` (`NewTaskIsNew`): The id a new task takes is not one the client tracks, restarts included.
* `FileDropsNoTask` (`TrackedStaysTracked`): No later write, poll or restart drops a task the client's file knows.
* `TypeCorrect` (`TypeOK`): However often it is started and wherever it dies, the process and its files are well typed.
* `RestartsAsItself` (`OneIdentity`): Unless the operator removes the files, pins another account or starts from an old file, one account at most ever serves the owner.
* `HoldsItsOwn` (`HeldIsOwn`): Under the same proviso a held spend is one this very account asked its owner about.
* `ForgetsNothing` (`NothingForgotten`): A running agent holds every unsettled spend its state file ever held, and its allowance counts all the period file ever counted, unless the files were removed.
* `TypeCorrect` (`TypeOK`): Session, storage and messaging are well typed, and without a session nothing is listed and no upload is under way.
* `OwnsOneSession` (`OneSessionOwned`): The session the client points at is the one that was allocated and not freed, however starts and stops alternate.
* `ListedStaysStored` (`ListedIsStored`): What is listed, and what an upload ever returned while the node lives, is held by the node.
* `ReturnedStaysListed` (`ReturnedIsListed`): An address an upload returned stays listed until the session ends, whatever concurrent uploads did.
* `JoinedAgentHears` (`JoinedHears`): Once told it has joined a group the agent's node gets, and keeps for a poll, every message published to it from then on.

`OwnerApproval_proofs`. `TypeCorrect` is inductive as it stands. `ExecutedOnlyIfApproved` is
not: that past transfers were approved says nothing about the approval still in
`toAgent` or in `batch`, nor about the spend that waits in `cur`. The invariant
`Provenance` adds that every decision on its way is one the owner took, that
everything held or written to the state file was announced, and that the spend awaiting the
wallet was announced and approved. `ExecutesAtMostOncePerLife` rests on `IdsFresh`:
an id executed in this run of the process is below `nextId`, not held and not under way,
and ids held in the file are below the file's `nextId`.

`OwnerPromise_proofs`. The refinement needs one invariant more, `Ledgered`: no two spends
are held under one id, and a spend the file holds and memory does not is settled, or is the
one being sent. It holds provided the wallet does not refuse an approved transfer
(`"send_error" \notin Faults`, the theorems' only hypothesis; without it the run
`owner_send_error` shows what goes wrong). The step lemmas are one per abstract action:
publishing a request is `Ask`, a decision of the owner is `Answer`, the end of a transfer,
a crash included, is `Pay` or changes nothing, a write of the state file is `Keep`.

`ReleasesOnlyDecided` needs no such hypothesis. A refused transfer makes the runtime forget an
approved spend, so "settled" is too much to ask; what remains is that the owner has decided
about the id (`ForgottenIsAnswered`): a spend leaves memory, other than by a restart, when a
decision about its id is applied, since the id a new spend takes is nobody else's (`IdsFresh`).

`OwnerDecisions_proofs`. Each theorem assumes no more than its run does (section 4):

* `ExecutesWithinApprovals`, on an evicting backend, by counting: for each id, the transfers
  made and under way plus the approvals not yet applied (`batch`, `toAgent`) are at most the
  approvals given (`Covered`). The lemmas say what appending to a topic and taking the head
  of a batch do to these numbers.
* `FirstDecisionDecides`, on a cumulative backend: the batch is the rest of the topic as it
  was read, and no held spend has a decision in what was applied of it (`FirstFirst`), so
  the first decision about an id meets the held spend before any other.
* `ExecutesWhatWasApproved`, without restarts and lost answers to a publish: one spend at most
  was ever offered under an id (`OneOffer`), with `Provenance` from `OwnerApproval_proofs`.
* `RestIsDurable`, if the file can be written and no approved transfer is refused: the file is
  behind memory only while a batch is applied, and then `resolved` is set (`Saved`).
* `OwnersLimitsInForce`, without restarts and refused transfers, and without lost reads if the
  backend evicts: what the topic still returns about a limit ends with what the owner ordered,
  and with nothing waiting the rest of the batch leaves that value in force (`InForce`).

`OwnerDesk_proofs`. `ActsByApp` needs that the app decides nothing it was not shown, which
`DeskOK` says; by it every theorem about `OwnerApproval` holds of the composition, as
`TogetherKeepPromise` does. A read keeps the first request of each id, the least index with
this id (`FirstOfItsId`); that there is one is `LeastNumber`, from the well-foundedness of
strict inclusion of finite sets. `HeldStaysDecidable` is by the invariant `Settleable`: every
spend the agent holds, or is about to, has its request on the screen or unread, or a decision
about it on its way.

`SpendingPolicy_proofs`. `TypeCorrect` is over lemmas about saturation and about the window a
check or a record leaves. The sum over the ledger is the community modules' fold, a recursive
function on sets; no induction is needed to reason about it: the number of units a set of
entries stands for (`Mass`, the cardinality of a set of pairs) satisfies the same recursion
and has the laws of a sum, and a least set on which the two differ cannot exist (`SumIsMass`).
`AccumulatorIsLedgersSum` is by `Ledgered`: the accumulator in memory is right about the
charges no restart has forgotten, the one in the file about those that were written (`Books`),
and a charge is dated between its window and now. With that date, whatever a check counts
against the limit was spent in the last period: `HoldsOnlyForCause`, without assumptions.
`SendsWithinAllowance` is the other half and needs no more: right after a check the
accumulator is the sum of the window the check left, and a limit below `MaxAmount` cannot have
been met by a saturated sum.
The two bounds are by `Paced`, an invariant of steady behaviours: windows are a period
apart, a charge falls within a period of its window's start, a transfer in flight still
fits, and so each window is within the limit; a span of the period's length meets two windows
at most (`OneWindowWithin`). Both theorems assume that the limit of the command line is
below `MaxAmount`: the accumulator saturates at `u128::MAX`, so a limit of `u128::MAX` is never
exceeded and bounds nothing. The run's limit is below it.

`A2ATasks_proofs`. A step lemma for each side says what a step does to it (`ClientSteps`,
`PaymentSteps`, `ProviderSteps`, `RequestSteps`), so that each invariant has a handful of
cases. `NewTaskTakesFreeId` and `FileDropsNoTask` are by `Tracked`: the counters in
memory and in the file are above every id tracked, and the file knows no task that memory
does not. `PaidAtLeastAsRequested` counts, with one payment owed a request while a request
is about to be published (`PaidAhead`). `SettledOnce` is by `Batch` (what is on the topic or
in the batch was published under its number) and `OnceEach` (on an evicting backend a request
is in one place: on the topic, in the batch, or settled, and only the first of the batch,
once its outcome is known, is in two).
`LedgerIsTruthful` is by `Truthful`, the same statement of the updates on their way and of the
files.

`KeepsTaskPromise` has no hypothesis. Most of an abstract step is one of the theorems above;
what they lack is that a client's book holds nothing the client did not ask for. `OnlyAsked`
says so of the file, of the ledger in memory, and of the id in hand once its request is out,
and that rests on the order of `run_task`: publish, then record. There is one lemma for each
abstract action (`PromisePay`, `PromiseAsk`, `PromiseSettle`, `PromiseKeep`), and one for the
steps that change nothing the promise speaks of (`PromiseRests`).

`AgentStartup_proofs`. `OneIdentity` does not survive a step by itself, for it says nothing
about the account the next process will take: `SameAgent` adds that the state file names the
account that ran, unless none did, and that a process on its way to the owner carries the
account the file names. `ForgetsNothing` is by `Kept`, which says it of the files and of the memory of a
process on its way to serving.

`AgentSession_proofs`. `ReturnedIsListed` and `ListedIsStored` are inductive as they stand,
`JoinedHears` once it is known that a joined topic is subscribed (`Hears`).

What stays with TLC: the liveness properties `ApprovalTakesEffect`, `LimitTakesEffect` and
`RequestIsSettled` (the prover handles neither fairness nor `ENABLED`), and the properties
of the runs that expect a violation. No module here declares a `RECURSIVE` operator.

## 6. Findings

Each is a disagreement of the code with what the repository says of it, shown by the run named.

* `owner_send_error`, `src/src/owner.rs:417`: process_owner_messages removes the spend from pending before it awaits send_approved and returns on its error, so a failed transfer forgets the approved spend and what was left of the poll; nothing retries it in this run of the process. bin/agent.rs:122-123 says "A transient failure (sequencer flap, nwaku restart) must not take the deployed agent down: report it and retry on the next poll." and docs/HEADLESS_DEPLOY.md:105-106 says the error "is reported and retried on the next poll". The run: one approved spend, one failed transfer, and the spend is never executed.
* `owner_id_reuse`, `src/src/owner.rs:356`: hold_for_approval names the request by next_id and takes the id only after the publish reported success. When the message was published although every attempt reported failure (a lost answer of the node), the owner sees a request whose id the next over-limit spend reuses; the approval of the first executes the second. owner.rs:346-347 says "A notification we cannot deliver must never leave a spend that could later be executed without the owner having seen it", docs/SOLUTION.md:127 "Above-threshold spends that are not approved are never executed." The run executes a spend whose content the owner never approved.
* `owner_repeat`, `src/src/owner.rs:472`: The removal from pending is written to the state file only after the whole batch, so a process that dies after the transfer comes back holding the spend it has executed, and the owner, who was not told of it, is still free to approve it: a second approval of the id executes it again. owner.rs:414-416 says "pending.remove is the dedupe: a decision re-delivered (InMemory backend) or seen twice finds no pending spend and is a no-op." The run, on nwaku, shows one approved id twice on the chain: the agent saw the approval once in each run of the process.
* `a2a_task_id`, `src/src/a2a.rs:557`: run_task pays, takes the id, publishes the request and only then writes next_task to the file. A client that dies in between restores the old counter and requests its next task under the same id: the provider serves both, and updates of one are taken for the other's. a2a.rs:418-419 says "Persisted so a restarted client keeps tracking in-flight tasks and never reuses a task id." The run publishes two requests with one id.


Five more sentences of the repository are wider than the code or contradict one another. No run is spent on them:

* After the last failed attempt to reach the owner the spend is dropped, not held
  (`src/src/owner.rs:102`); `docs/limitations.md:34-35` says "If the owner is permanently
  unreachable, the spend stays held until the owner returns."
* The period window tumbles (`src/src/lib.rs:337`), so one span of the period may see up to
  twice the limit, which is what `TwiceLimitAtMost` bounds; `README.md:75-76` says "rolling
  window".
* A torn file, and one from before `account_id`, also mint another account
  (`src/src/owner.rs:268-271`); `docs/HEADLESS_DEPLOY.md:99-100` says "A restart mints a new
  identity only when the state file is absent." `OneIdentity` covers the torn file: that start
  fails before it serves anyone.
* A `program.call` that declares no spend is priced `u128::MAX` (`CallUndeclared`), so it goes
  ahead where no limit below that is in force; the comment at `src/src/skills.rs:664` says "it is
  always held".
* `src/src/a2a.rs:911-913`, in a test, says "the real Waku backend's store has retention, not
  consumption"; `src/src/owner.rs:388-391` says that nwaku "evicts a message after it is first
  read", and `src/src/messaging.rs:199-233` reads the relay, not a store. The models follow the
  latter.
