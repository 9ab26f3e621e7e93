# GoodDollar Agent ID: verification project

TLA+ models of the GoodDollar Agent ID system: the contracts that bond, revoke and
attest agents, the API that registers and verifies them, and the host that deploys
them. The modules are model-checked with TLC on small instances, and their main
properties are proved with TLAPS for every value of the constants.

Paths below are relative to the repository. `PROJECT.json` maps every definition to the
lines it models, and lists runs, mutants, hazards, findings and theorems.

## 1. The system

A *human*, verified by GoodDollar, vouches for an *agent* (an address with a key of
its own) by signing a credential with the *operator* wallet, which also bonds G$ behind
the agent. Anybody may then ask whether the agent is vouched for.

| Component | State it keeps | Operations | Modelled |
|---|---|---|---|
| `AgentVault` (deployed bond) | operator, bond, unlock time of each agent | stake, requestUnstake, withdrawStake | `VaultLedger`, `AgentVault` |
| `AgentVaultV2` | the same, the agent's approval, its approval nonce | approveOperator(For), stake, requestUnstake, withdrawStake | `VaultLedger`, `AgentVaultV2` |
| `AgentRevocation` | `revokedAt` of each agent | revoke, reinstate, by the vault's `operatorOf` | `AgentRevocation` |
| `AgentAttestation` | `provenAt` of each agent | attest, attestFor | in `AgentRegistry` |
| Human proof providers | none | read GoodDollar's identity | a choice of the models |
| API: registration | `agent_credentials` rows | `POST /agent/issue` | `AgentRegistry` |
| API: verification | `verifyCache` | `GET /agent/verify`, `POST /agent/verify-auth` | `AgentVerify` |
| API: replay guard | `seenAuthNonces` | claim of an AgentAuth proof | `AgentAuth` |
| Deploy host: lifecycle | deploy rows, `runningPipelines`, `.wallet-index` | deploy, confirm-payment, run-pipeline, start, stop, the pipeline | `DeployHost` |
| PM2 processes, skill configuration, daily cap | PM2's list (cached 30 s), files on disk | start, stop, reload, enforce | `DeployProcess` |
| Partner endpoints | none but deploy rows | play, stop, one agent per person | play and stop, in `PartnerPlay`, `DeployProcess` |
| Deploy activity and live match | live and active match of a deploy, counters, logs | reports by the agents' workers | the matches, in `PartnerPlay` |
| GameArena workers | none of their own | play a match, report it | the throw worker, in `PartnerPlay` |
| Widget | the status a page shows | select, poll, pause, resume | its dashboard, in `DeployDashboard` |
| Deploy control signatures, arena spectator, Telegram streaks, agent runtime, skill SDK, ladder clients, MCP server, web pages, scripts, explorer | – | – | no (section 8) |

How they interact. The API reads the contracts over RPC (never writes them) and keeps
credentials in a database; what it reads may have changed by the time it acts. The
revocation registry reads the vault's `operatorOf` in each call. The host asks the API
whether an agent is vouched for before it starts it, writes deploy rows in the
database, and runs pipelines in the background, which outlive the request that set
them off. It commands PM2 and reads PM2's process list, which it keeps for 30 s. A
partner's play sets off a detached worker, which posts to the host what becomes of the
match. The widget polls the host for what to show.

What is hard.

* *Interleaving*: both services are single-threaded event loops, so code between two
  awaits is one step and everything may happen at an await. Handlers read once, await,
  and act on what they read.
* *Independent authorities*: vault, revocation, attestation and credential table are
  changed by different parties in different transactions.
* *Time*: cooldowns, TTLs, windows, each with a boundary second.
* *Partial failure*: RPC reads that fail (some are tolerated, some refuse), database
  writes that fail in an error path.
* *Restarts*: cache, replay guard, process list and set of pipelines live in memory;
  rows, the wallet file, PM2's processes and the workers outlive the host.
* *Messages*: a worker posts once, with a timeout and no retry; the dashboard has
  several requests in flight, whose answers come in any order.

What makes each component correct: G$ always refundable to the wallet that staked it
and moved by nobody else; a bond locked for a cooldown; V2 bindings consented and
single-use; vault and revocation keep one promise to their readers (`AgentBond`); nobody
registered without the agent's consent, beyond the human's cap, by a wallet other than
the bond's owner, or with an older credential; a verdict's age bounded in each of its
parts; a proof of key accepted once; a hosted agent's wallet its own; a deploy shown as
ready has a wallet; a pipeline never blocks its deploy for ever; nothing runs that nobody
vouched for; an agent at its cap is paused; an agent is busy only while a match is on;
a dashboard comes back to the truth.

## 2. The modules

| Module | What it is |
|---|---|
| `AgentBond` | abstract: what readers of the contracts may rely on (operator, bonded, revoked) |
| `VaultLedger` | token, clock, positions and the code both vaults share |
| `AgentRevocation` | the kill switch over the ledger's `operatorOf` |
| `AgentVault`, `AgentVaultV2` | the two vaults, each with the revocation registry that reads it; each implements `AgentBond` |
| `CredentialRegister` | abstract: what registration promises, a register that looks at everything and writes in one step |
| `AgentRegistry` | `POST /agent/issue` over `AgentBond`, await by await; implements `CredentialRegister` |
| `AgentVerify` | verification and its cache, await by await |
| `AgentAuth` | check and claim of an agent's proof |
| `DeployHost` | rows, handlers and pipelines of the deploy host, await by await |
| `DeployProcess` | one provisioned agent: row, PM2 process, the list the host keeps, handlers and sweep |
| `PartnerPlay` | one agent's matches on the fast path: live and active match, plays, workers and their posts |
| `DeployDashboard` | the widget's `useDashboard`: selection, polling effect, answers, commands |
| `MC<module>` | instance for TLC |
| `<module>_proofs` | theorems and proofs |

```
VaultLedger <- AgentRevocation <- AgentVault   --implements--> AgentBond
                               <- AgentVaultV2 --implements--> AgentBond
AgentBond   <- AgentRegistry --implements--> CredentialRegister
               (the contract steps of both are AgentBond's)
```

Correspondence:

* *Contracts.* An action is a transaction that succeeds; a revert is the absence of the
  action. A mapping is a function with 0 (or `NoAddress`) for "not set", so the clock
  starts at 1. `AgentVault.Stake` is `_ensureOperator` and the shared `Deposit`;
  `WithdrawStake` is `PayOut` and what each vault does to the binding. A signed V2
  approval is a message in `signed` that anybody may relay until its deadline.
* *Registration as one step.* `CredentialRegister` has the table and the contracts, no
  requests. The refinement maps its consents to `attested \cup seenProofs` and the agents
  its cap may leave out to `everRevoked`. Every step of a handler but the last is then a
  consent or a stutter, and `Issue` is `Register`, although what it relies on was read up
  to four awaits earlier. The map is also where the code promises less than one would
  like: the abstract cap leaves out agents that were ever revoked, not those that are.
* *Handlers* (all modules from `AgentRegistry` to `PartnerPlay`). A record
  per request, with the stage it will resume from and what it has read. Each action
  runs to the next await. A handler whose check fails changes nothing but its own
  record, so a check on a row just read is the guard of the reading step, and error
  responses are one action `Refuse` (or `Fail`) enabled at every stage.
* `issueAgentCredential` is one serializable transaction, so one action (`Issue`).
* The pipeline of `DeployHost` has a stage for each await that separates two writes:
  read the maximal index, write "provisioning", allocate or resume, record the wallet,
  fund/name/attest, install, and the two levels of catch and the finally.
  `Restart` stops the host at any of them, with or without the wallet file.
* In `DeployProcess` a handler reads the row, gives its PM2 command and writes the row:
  a command is synchronous, so `StartProcess`, `StopProcess`, `Reload`, `StopAutopilot`
  and `EnforceCap` are one step each with the reading of the list (`Look`) in them, and
  `WriteStatus` is the step after. `Look` is `readPm2ProcessList`: the young list, PM2's,
  or, when PM2 does not answer, the old one. Actions under "not the host's doing" are the
  skill's, PM2's, the owner's and the calendar's.
* In `PartnerPlay` the two reads of `isPartnerFastPathBusy` and the two writes of the
  marks, each pair under a `Promise.all`, come in either order. A worker's post is
  handled (`Deliver`), fails (`Lose`) or is given up on after 15 s and may still be
  handled (`GiveUp`, `DeliverLate`). Times are ages, since only ages are compared.
* In `DeployDashboard` a poll in flight carries what the host had read for it; the
  effect's dependencies are the record `Wanted`, and the effect runs whenever it differs
  from what it last ran for.
* *History variables* record what the properties speak of and no code reads:
  `bondedSince`, `relayed`, `consented` (vaults), `seenProofs`, `everRevoked`
  (registry), `lostAt`, `replacedAt`, `confirmed`, `unreadAt` (verify), `accepted`
  (auth), `vouched = "lapsed"` as against "never" (process), `over` (play).

Definitions that open with "Mutant:" are not part of the specification: each is a
plausible bug in the definition that follows it, named in `PROJECT.json`, that the
property named with it must refute.

## 3. Runs

Run one with `tlc -config <cfg> <module>`.

| Run | Module, cfg | Shows |
|---|---|---|
| `vault_v1` | `MCAgentVault` | Bonds are never dust or ownerless, G$ is conserved per wallet, the vault holds exactly the bonds on its books, a step moves G$ only between the vault and one agent's operator; the contracts implement `AgentBond`. |
| `vault_v1_cooldown` | `MCAgentVault`, `MCAgentVaultCooldown.cfg` | *Violated*: `LockedForCooldownStep`. Finding 1. |
| `vault_v2` | `MCAgentVaultV2` | Bindings are consented and backed, approvals single-use, pending unstakes belong to a bond, every bond is locked for a cooldown; `AgentBond` is implemented. |
| `registry` | `MCAgentRegistry` | Two racing registrations: consent first, one authority, cap over never-revoked agents, no older credential; the handler implements `CredentialRegister`. |
| `verify` | `MCAgentVerify` | A valid answer is at most TTL and one verification old; an uncached one sees its own request's time; one without the bond is never given again. |
| `verify_reissue` | `MCAgentVerifyReissue.cfg` | *Violated*: `ReissueIsVisible`. Finding 2. |
| `auth` | `MCAgentAuth` | Whatever was forgotten or swept, no proof is accepted twice with its nonce written alike by one process, and only replays are refused as replays. |
| `auth_number` | `MCAgentAuthNumber.cfg` | *Violated*: `SingleUse`. Finding 3. |
| `host` | `MCDeployHost` | Two deploys never share a wallet, none is shown as ready without one, with pipelines that fail or are cut off; a deploy stopped before it has a wallet is never taken up again; every deploy leaves the set of running pipelines again. |
| `process` | `MCDeployProcess` | However old the process list, whatever command fails and wherever a handler is cut off: nothing unvouched runs, and an agent at its cap does not stay shown as running. |
| `play` | `MCPartnerPlay` | With posts lost, late or after the end, and workers killed: AGENT_BUSY is said only for a match that is on or was until a moment ago, and never for ever. |
| `dashboard` | `MCDeployDashboard` | After late answers, answers for another agent, failed polls and commands never obeyed, the dashboard shows the truth again and again. |

### Bounds, and why they are enough

* *Vaults*: two wallets (symmetric), two agents in V1, one in V2, `MinStake` 2,
  `Cooldown` 2, `Endowment` 4 or 3, `MaxTime` 6 or 5. Two wallets can contend for an
  agent, one wallet can bond two agents, a partial withdrawal can leave exactly the
  minimum or dust, and time allows a bond, a full exit and a second bond with another
  cooldown. V2 has two signatures: one to use and one to keep.
* *Registry*: two agents of one human with `MaxPerHuman` 1, two requests racing for
  the last place, nonces 0 and 1 for an old and a new credential.
* *Verify*: one handler, TTL 2, `MaxLatency` 1, `MaxTime` 4: an entry can be filled,
  served at its last instant, expire and be refilled while facts change. Two handlers
  are beyond what a few minutes explore; the theorems cover any number. So is a second
  credential together with these times: that a replaced credential's verdict ages like any
  other is in `Bounded` for any number of credentials, and in this run's properties only
  for the other facts. `verify_reissue` has two credentials.
* *Auth*: two agents, two audiences, four signed proofs of one nonce that differ in one of
  agent, audience and date, and one of another nonce, which two texts read as; two requests, `SeenLimit` 1 so that the sweep
  happens, and `SeenTTL` 5, the smallest value above maxAge 2 + skew 1 + latency 1.
  `MaxTime` 8 lets an entry expire after the latest proof has.
* *Host*: two deploys, two pipelines and one request, wallet indices 0 and 1: two
  pipelines contend for one index, each can lose its number, and each deploy can end
  with a wallet. Two pipelines for one deploy at a time need two requests that are both
  in the wait of `start`: beyond what a few minutes explore together with the rest; the
  theorems cover any number of requests, pipelines and indices, and `PipelineEnds` is
  checked for one pipeline per deploy only.
* *Process*: two requests and the sweep, so that a start, a stop, a configuration change
  and two caps can overlap in pairs and with the sweep; one agent, since nothing but the
  list is shared between agents and it is refreshed as a whole.
* *Play*: two matches, so that the reports of one can reach the marks of the next; one
  request, one late post; `StalePlaying` 1 and `StaleEnded` 0, the smallest values in
  the order of the code's.
* *Dashboard*: two agents, one that plays, one lite poll, one full poll and one live
  poll in flight (the code's guards allow one full and one live poll). Two lite polls were
  explored for the type invariant (8.4 million states).

Symmetry is used over interchangeable wallets, requests and handlers, and never in a
run with a liveness property. Deadlock is checked in every run.

### Fairness

* `host` (`PipelineEnds`): weak fairness of each pipeline's next step. Every await of a
  pipeline is an RPC, HTTP or database call whose client gives up in the end, and a
  failed one is a step as well (`Throw`).
* `process` (`CapPauses`): the sweep is set off every 90 s (`WF` of reading the row), and
  neither an error nor a crash cuts every one of its rounds short (`SF` of its two steps:
  they are enabled again and again, never for ever, since a restart may come at any time).
* `play` (`BusyEnds`): time goes on; a post is answered or given up on within 15 s; a
  match has a last round (`SF` of `LastThrow`, between which and the start there are
  finitely many rounds). Nothing is assumed of deliveries: every post may be lost.
* `dashboard` (`ComesToTruth`): timers fire, effects run, lite and full polls end, and
  the host answers them again and again though not always. Nothing is assumed of live polls
  or of the owner.

No fairness is assumed of users, requests, partners, restarts or failures. Everything
else is safety.

## 4. Findings

1. *AgentVault, cooldown* (`AgentVault.sol:107`). After a full exit the operator may
   request an unstake with nothing bonded, wait, stake, and withdraw in the next block.
   `src/README.md:65` says "3-day cooldown". V2 requires a bond in `requestUnstake`, and
   `LockedForCooldownStep` holds there and is proved.
2. *Re-issue* (`apps/api/src/index.ts:546`). A verification in flight across a re-issue
   puts the old verdict back after the cache entry was dropped;
   `apps/api/src/index.ts:419` says any cached entry is dropped.
3. *Nonces as text* (`apps/api/src/index.ts:134`). `claimAuthNonce` keys its map by the
   nonce as the request carries it; `verifyAgentAuth` checks the signature for the number
   that text reads as (`agent-id/src/agent-auth.ts:149`), and a number may be written in
   several ways. A proof is accepted once for each of them, while `index.ts:119-121` says
   "keeping each single-use for its whole validity window". What holds, and is proved, is
   `SingleUseAsWritten`. Keyed by the number, the guard satisfies `SingleUse` (explored
   with the bounds of the run).

What else does not hold, met while modelling and without a run of its own:

* *Dashboard of a playing agent* (`widget/src/hooks/useDashboard.ts:194`). The polling
  effect opens with `setStatus(null)` and depends on `gamearenaOnline`, which is computed
  from that status. For an online GameArena agent each answer sets it, the effect runs
  again and clears the status, which unsets it, and the effect runs once more: the
  statistics of the last full answer go, and the page alternates between empty and
  filled as long as the agent plays, each clearing with a poll of its own.
  `useDashboard.ts:50` says "keep the last full snapshot fields". Setting the status to
  null only when `deployId` changes would do.
* *Cap over reinstated agents* (`agent-credentials.ts:80`). Revoke one agent, register
  another, reinstate the first: the human has more active agents than the 10 of
  `src/README.md:66`. What holds is `CapOfNeverRevoked`.
* *Registry over V2* (`AgentVaultV2.sol:219`). A full exit clears the binding and a later
  operator may revoke, while the stored registration names the first; the comment at
  `AgentRevocation.sol:18-20` says the two agree. `AuthoritiesAgree` holds, and is
  proved, for vaults that keep their operators, such as the deployed one.
* *Cached verdicts* (`apps/api/src/index.ts:472`). A default verification is answered from
  up to 15 s ago, against `src/README.md:46-47` ("never a cached snapshot").
  `BoundedStaleness` says how old exactly. The host keeps verdicts for its views, not for
  a start, for another 300 s (`apps/host/src/index.ts:509-527`).
* *A process that goes on at its cap* (`gamearena-daily-cap-enforce.ts:37`). A list up to
  30 s old may call a process stopped that was started since; its row is then paused and
  the process left online. `CapPauses` speaks of the row.
* *Two matches at once* (`partners/gamearena.ts:854`). Two plays may both find the agent
  free, since a match is marked only after it has been started.
* *A stopped agent started again* (`apply-config.ts:234`). A configuration change within
  30 s of a stop may trust the old list. A reload whose start fails leaves no process.
* *A log line of yesterday.* A poll that finds the cap's line still in the tail of the log
  pauses the agent after midnight as well (the model's `line`).
* *Start against stop* (`apps/host/src/index.ts:1457`). The row may say running for a
  process stopped, until the next request.
* *Stopped before it has a wallet* (`apps/host/src/index.ts:1406`). `stop` pauses a deploy
  in any status. One without a wallet cannot be started, and neither confirmed nor run,
  since those want another status: it stays paused. `StrandedForGood` states this limit,
  and it is proved.
* *Any ERC-20* (`AgentVault.sol:12`). The vault books the amount it asks for. With a token
  that keeps part of what is pulled, it would owe more than it holds: that is the mutant of
  `Solvent`. G$ moves exact amounts (section 6).
* *Settings form* (`DashboardPanel.tsx:171-188`). Its effect depends on `status.skills`,
  a new object with each poll, so that a poll overwrites what the owner is typing.

## 5. Proofs

All theorems are checked by `tlapm` to the last leaf. Each module proves an inductive
invariant `IInv` (a theorem of its own) and derives the listed properties from it. What
the two vaults share is proved once, in `AgentVault_proofs`, and cited by
`AgentVaultV2_proofs` through `INSTANCE` (`V1!`).

| Module | Theorems | Why the property alone is not inductive |
|---|---|---|
| `AgentVault_proofs` | `TypeCorrect`, `PositionsSound`, `NonCustodial`, `Conservation`, `Solvency`, `AlwaysRefundable`, `OperatorPermanent`, `RegistryEnvironment`, `Refinement` | that balances stay natural numbers needs the guards of `Transfer`; refinement needs `PositionSound` (a bond has an operator), and so does conservation: a wallet that binds an agent must not find a bond there |
| `AgentVaultV2_proofs` | `TypeCorrect`, `PositionsSound`, `BindingsEarned`, `PendingSound`, `Locked`, `SingleUse`, `NonCustodial`, `Conservation`, `Solvency`, `AlwaysRefundable`, `Refinement` | adds: an approval in force is one of the agent's consents since the last exit; accepted messages are for spent nonces; bonds were placed in the past |
| `AgentRegistry_proofs` | `TypeCorrect`, `Consented`, `Capped`, `Agreement`, `Monotone`, `Refinement`, `OperatorsBonded` | adds what handlers in flight have established: their agent consented, what they leave out of the cap was revoked once, the owner they saw is still the owner |
| `AgentVerify_proofs` | `TypeCorrect`, `Bounded`, `Live`, `Transient` | adds, per stage of a handler, the facts it has seen since its start, and what a cache entry stands for |
| `AgentAuth_proofs` | `TypeCorrect`, `AcceptedOnceAsWritten`, `OnlyReplaysRefused` | what was accepted has an entry that outlives every request that may carry it, or is too old for any; every entry was earned |
| `DeployProcess_proofs` | `TypeCorrect`, `OnlyVouchedRuns` | adds, for an agent never vouched for: the list never says online, and no handler is past the check of the vouching |
| `PartnerPlay_proofs` | `TypeCorrect`, `BusyRecent` | it speaks of the row, which a post, a late post or a play that writes its mark may set: every report under way, like the one in the row, is at least as old as the end of its match (`LiveCovers`, `LateCovers`, `MarkCovers`) |
| `DeployHost_proofs` | `TypeCorrect`, `WalletsApart`, `ReadyOnlyWithWallet`, `StrandedStays`, `BusyIsWorkedOn`, `WalletsForGood` | about every wallet the host knows of, in the table or carried by a handler or pipeline: either all are in the table still (`Settled`), so its maximum is above them, or the file is above them |

The refinements compose. `Refinement` of each vault shows that its initial states and
steps map to those of `AgentBond`, whose steps are all that `AgentRegistry` assumes of the
chain; and what it assumes on top where `KeepsOperator` is true, that bindings stay, is
discharged for the deployed vault by `RegistryEnvironment`. `Refinement` of
`AgentRegistry_proofs` then shows that the handlers, any number of them, implement
`CredentialRegister`. Its step for `Issue` is where the awaits matter. The owner read
earlier still is the owner, because bindings stay. What `ReadRevocations` left out of the
cap was revoked then, so it is in `everRevoked` now. And the rows counted are those of the
transaction itself, not the ones read before it, which serve only to ask for revocations.

`OperatorsBonded` is what remains of `Agreement` over any vault, V2 included: nobody is
registered as the operator of an agent without having owned its bond at some time. It speaks of the
past, so `everOwned` remembers every owner of a bond (`HSpec`, as below).

`BusyIsWorkedOn` is the safety half of `PipelineEnds`: a deploy in `runningPipelines` has a
pipeline in flight that will take it out. It is not the case that each pipeline has its
deploy in the set (two may work for one deploy, and the first to end takes it out), and
the proof does not need it.

`StrandedStays` needs no invariant beyond types: each handler that is not there yet is
turned away by the row it reads.

`WalletsForGood` speaks of the past too: every wallet a row has had, since the wallet file was
last lost, is remembered in a history variable, `given`, that exists in
`DeployHost_proofs` only and that no action reads (`HSpec`). Its invariant, `GivenInv`,
is `IInv`'s with "is known" replaced by "was ever known". TLC explored it for two
deploys, two requests, one pipeline and three wallets (1.8 million states, up to
symmetry), in which deploys do lose their wallets; the `host` run, with one request,
does not meet that case.

`Conserved` is a sum over the agents a wallet is bound to, `Solvent` one over all
agents, folds of the community modules. Neither follows from the other: a `Transfer`
that credits the vault less than it debits keeps every wallet's sum and leaves the vault
short (the mutant of `Solvent`). That these sums are well defined, do not depend on the
order in which they are taken, and change with one agent's bond as expected
(`SumExists`, `TotalIs`, `TotalWithout`) needs an induction over finite sets. The library's induction theorems
take an operator, which the provers cannot instantiate, so these lemmas take a smallest
counterexample instead: the strict subset ordering on a finite set is well-founded.

Assumptions, all evaluated by TLC in the runs:

* `LedgerAssumption`: `Vault` and `NoAddress` are no wallets, `Cooldown` is positive,
  amounts are natural numbers. `FinitelyManyAgents`: agents are addresses, of which
  there are 2^160; without it the sums of bonds have no meaning.
* `RegistryAssumption`: finitely many agents, a positive cap. `Agreement` speaks of
  vaults that keep their operators (`KeepsOperator`), which V2 does not.
* `VerifyAssumption`, `AuthAssumption`: the timing constants are natural numbers.
  `TTLAssumption` is the comment at `apps/api/src/index.ts:122` made exact: the entry's
  life exceeds the longest max-age by the clock skew and the wait (1200 s against
  900 s + 60 s).
* `HostAssumption`: the bound on wallet indices is a natural number.
* `ProcessAssumption`: the sweep is no request. `PlayAssumption`, `DashboardAssumption`:
  the staleness limits are ordered as in the code; agents with a skill are agents.

Of the two vaults' runs, `vault_v1` checks `Solvent`; V2 shares the code and has the
theorem. `RegistryEnvironment`, `OperatorsBonded`, `OperatorPermanent`, `AlwaysRefundable`,
`BusyIsWorkedOn` and `WalletsForGood` state what no run lists.

Model-checked only: `PipelineEnds`, `CapPauses`, `BusyEnds`, `ComesToTruth`, since liveness
under fairness is beyond the prover; the type invariant of `DeployDashboard`, whose one
other property is liveness; and what the three violated runs show. The strengthening in
`PartnerPlay_proofs` was explored in full for one request with `StalePlaying` 2 and
`StaleEnded` 1 (1.7 million states).

## 6. Abstractions

* G$ moves exact amounts: no fee on transfer, no reentrant token.
* A signature, on a credential, an approval, a proof or a control message, is valid
  exactly if the key's owner made it; an invalid one ends the request and changes
  nothing.
* In `AgentAuth` a request carries a signed proof and a text that reads as its nonce
  (`Wire`, `Reads`): the text is what the guard keys by, the number what is signed. Of the
  proof's other fields the date is read from text as well, but is in no key, and agent and
  audience are compared with what the request names. The key's three parts are joined by
  "|", of which an address and a text that reads as a number have none, so they are told
  apart.
* `MaxLatency` bounds one verification and one signer recovery. The code has no such
  bound of its own; the properties that mention it are relative to it.
* Re-issues in `AgentVerify` keep the human behind an operator.
* A restart empties the replay guard: `SingleUseAsWritten` and `SingleUse` speak of one
  process.
* In `DeployHost`, `agentAddress`, `walletDerivationIndex` and `pm2Name` are one value,
  since the code writes them together; a derivation index stands for its address. The
  scripts under `packages/runtime/scripts`, which write the same rows, are not run
  beside the host.
* A deploy may change its wallet: `run-pipeline` resumes from a row read before an await,
  and another pipeline may have recorded a wallet and ended by then. Wallets stay
  distinct all the same, and nobody else is given the old one (`WalletsForGood`) unless
  the wallet file is lost as well. The property "once given, a wallet stays" is
  therefore not claimed, and no document of the repository promises it.

* In `DeployProcess` the list goes out of date at any moment, not after 30 s, and a
  failing PM2 leaves a list of any age in use, as it does in the code. Files are always
  there (an agent without files is `DeployHost`'s re-provisioning), and a bounded number
  of automatic restarts is one step, `Exit`.
* `DeployProcess` and `DeployHost` are two views of one row: the first leaves out
  provisioning, the second processes. Both let any handler write at its last step,
  whatever has happened since it read.
* `PartnerPlay` models the fast path: a match the game service started. What the
  autopilot reports of matches of its own is left out, and so are the daily cap, to
  which fast-path matches do not count in the code, and ActionOrder, whose endpoints and
  busy check repeat GameArena's. At most one post is late at a time.
* `DeployDashboard` does not tell the row's status from the process's: the hook shows
  both from the same answer and sets both on a click. A live snapshot
  changes only the process (`mergeLiveSnapshot`); the match and the log it brings decide
  nothing that is polled, and are left out. A host
  reads what it answers when the poll is asked; what changes between is as if it changed
  just after.

## 7. Plan

Done: the contracts and `AgentBond`; registration and `CredentialRegister`; verification; the replay guard; the
deploy lifecycle; processes and the daily cap; the fast path of a match; the widget's
dashboard; proofs of all but the last.

Left, in order of what it would add:

1. The autopilot's own matches in `PartnerPlay`, and the rule that only an owner's first
   agent plays.
2. `TelegramStreaks`: claims recorded out of order of their days.
3. Two verification handlers at a smaller time bound, and attestation's nonces and
   deadlines as a module of their own.

## 8. Not modelled, and why

Most lines of the repository are pages, parsers, views, scripts and clients of
services outside it. What they do has no state that outlives a call or no other part
reads, so that a model of them would restate them line by line; the map covers the
parts in which several actors meet.

* Explorer, statistics, rate limiter, audit log: views and counters nothing depends on.
* ERC-8004 bridge, serialization, EIP-712 helpers: stateless conversions.
* Deploy control signatures: a time window and a signature check without a memory. A
  command may be repeated within its window, which `DeployProcess` covers, since its
  requests are arbitrary.
* Telegram streaks: one table with one rule, beside the rest. Claims recorded for an
  earlier day after a later one reset a streak; the hazard is listed.
* Live arena spectator: relays the game service's stream to a page.
* Skill statistics, identity and ENS names, balances: read-only views, and parsing of logs
  and configuration files.
* Agent runtime and skill SDK: skills loaded in a row; manifest validation is parsing.
* GameArena's ladder and play-once, and the ActionOrder clients: they drive a service
  outside the repository.
* MCP server: stateless calls of the API. Web pages and the rest of the widget: rendering
  and forms over requests that are modelled at the host. The web application's own
  `DeployDashboard.tsx` is another component than the widget's, with timers of its own.
* Contract deployment and shell scripts: run by hand, once.
