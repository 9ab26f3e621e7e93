----------------------------- MODULE DeployHost -----------------------------
(***************************************************************************)
(* The deploy host's lifecycle of hosted agents: the deploy rows in the    *)
(* database, the requests that move them (confirm-payment, run-pipeline,   *)
(* start, stop), the provisioning pipelines they set off in the            *)
(* background, and the file the agents' wallets are numbered from.  A      *)
(* request reads its row once, awaits, and acts on what it read; the code  *)
(* between two awaits is one step.  Processes are left to PM2: here they   *)
(* show only as the two ways a start can end.                              *)
(***************************************************************************)
EXTENDS Integers

CONSTANTS
  Deploy,    \* deploy ids
  Request,   \* requests in flight at one time
  Pipe,      \* pipelines in flight at one time
  MaxIndex   \* bound: wallet indices are 0..MaxIndex

ASSUME HostAssumption == MaxIndex \in Nat

VARIABLES
  row,          \* the deploy's row: status and walletDerivationIndex
  walletIndex,  \* the number in .wallet-index, 0 = no file
  running,      \* runningPipelines
  request,      \* the handlers in flight, each with what it read
  pipe          \* the pipelines in flight

vars == <<row, walletIndex, running, request, pipe>>

NoWallet == -1
Wallet == 0 .. MaxIndex
WalletOrNone == Wallet \cup {NoWallet}

Status ==
  {"pending_payment", "provisioning", "installing", "awaiting_vouch",
   "running", "paused", "failed"}

\* agentAddress, walletDerivationIndex and pm2Name are always written together.
Row == [status : Status, wallet : WalletOrNone]
NoRow == [status |-> "none", wallet |-> NoWallet]

\* Where a handler is.  "confirm", "run" and "start" have read the row; a start
\* is "checked" when it asks for the owner's vouching, and "scheduled" when it
\* has set off a pipeline and has its status still to write.
Idle == [stage |-> "idle"]
Pending ==   \* wallet: as the row had it
  [stage : {"confirm", "run"}, deploy : Deploy, wallet : WalletOrNone]
  \cup
  [stage : {"start", "checked", "scheduled"}, deploy : Deploy, wallet : Wallet]

\* Where a pipeline is: the step it does next.  Before "allocate" its wallet is
\* the one it resumes with, if any.
Early == {"max", "mark", "allocate"}
Late == {"record", "fund", "install"}
Ending == {"throw", "catch", "finally"}

Working ==
  [stage : Early \cup Ending, deploy : Deploy, wallet : WalletOrNone, min : 0 .. MaxIndex + 1]
  \cup
  [stage : Late, deploy : Deploy, wallet : Wallet, min : 0 .. MaxIndex + 1]

TypeOK ==
  /\ row \in [Deploy -> Row \cup {NoRow}]
  /\ walletIndex \in 0 .. MaxIndex + 1
  /\ running \subseteq Deploy
  /\ request \in [Request -> Pending \cup {Idle}]
  /\ pipe \in [Pipe -> Working \cup {Idle}]

Init ==
  /\ row = [d \in Deploy |-> NoRow]
  /\ walletIndex = 0
  /\ running = {}
  /\ request = [r \in Request |-> Idle]
  /\ pipe = [q \in Pipe |-> Idle]

-----------------------------------------------------------------------------

\* POST /deploy.
Create(d) ==
  /\ row[d] = NoRow
  /\ row' = [row EXCEPT ![d] = [status |-> "pending_payment", wallet |-> NoWallet]]
  /\ UNCHANGED <<walletIndex, running, request, pipe>>

\* updateDeployedAgent: one field, or some, of the row as it is by now.
WriteStatus(d, status) == row' = [row EXCEPT ![d].status = status]
WriteWallet(d, status, wallet) ==
  row' = [row EXCEPT ![d] = [status |-> status, wallet |-> wallet]]

Begin(r, stage, d) ==
  /\ request[r] = Idle
  /\ request' = [request EXCEPT ![r] =
       [stage |-> stage, deploy |-> d, wallet |-> row[d].wallet]]
  /\ UNCHANGED <<row, walletIndex, running, pipe>>

At(r, stage) == request[r].stage = stage

Reply(r) == request' = [request EXCEPT ![r] = Idle]

\* An error response, or no response at all.
Refuse(r) ==
  /\ ~At(r, "idle")
  /\ Reply(r)
  /\ UNCHANGED <<row, walletIndex, running, pipe>>

\* confirm-payment and skip-payment read the row and look at its status; the
\* row they write to may have moved on.
ReadToConfirm(r, d) == row[d].status = "pending_payment" /\ Begin(r, "confirm", d)

ConfirmPayment(r) ==
  /\ At(r, "confirm")
  /\ WriteStatus(request[r].deploy, "provisioning")
  /\ Reply(r)
  /\ UNCHANGED <<walletIndex, running, pipe>>

\* stop, whatever the deploy is doing.  The pauses of the daily cap and of the
\* partners' endpoints write the same.
Stop(d) ==
  /\ row[d] # NoRow
  /\ WriteStatus(d, "paused")
  /\ UNCHANGED <<walletIndex, running, request, pipe>>

\* scheduleDeployPipeline up to its first await: the caller's row says whether
\* there is a wallet to resume with.
Schedule(q, d, wallet) ==
  /\ pipe[q] = Idle
  /\ running' = running \cup {d}
  /\ pipe' = [pipe EXCEPT ![q] =
       [stage |-> "max", deploy |-> d, wallet |-> wallet, min |-> 0]]

\* run-pipeline reads the row, then checks the owner's signature: the status it
\* goes by is the one it read, the set is as it is after the wait.
ReadToRun(r, d) ==
  /\ row[d].status \in {"provisioning", "failed", "awaiting_vouch"}
  /\ Begin(r, "run", d)

RunPipeline(r, q) ==
  /\ At(r, "run")
  /\ request[r].deploy \notin running
  /\ Schedule(q, request[r].deploy, request[r].wallet)
  /\ Reply(r)
  /\ UNCHANGED <<row, walletIndex>>

\* Mutant: start does not ask for a provisioned deploy.
ReadToStartAny(r, d) == row[d] # NoRow /\ Begin(r, "start", d)

\* start reads the row, provisioned; then checks signature and set.
ReadToStart(r, d) == row[d].wallet # NoWallet /\ Begin(r, "start", d)

CheckStart(r) ==
  /\ At(r, "start")
  /\ request[r].deploy \notin running
  /\ request' = [request EXCEPT ![r].stage = "checked"]
  /\ UNCHANGED <<row, walletIndex, running, pipe>>

\* The owner vouched for the agent, and PM2 has it, or has its files.
Start(r) ==
  /\ At(r, "checked")
  /\ WriteStatus(request[r].deploy, "running")
  /\ Reply(r)
  /\ UNCHANGED <<walletIndex, running, pipe>>

\* AGENT_NOT_PROVISIONED: the files are gone, and a pipeline is to make them
\* again.  The set was looked at before the waiting.
Reprovision(r, q) ==
  /\ At(r, "checked")
  /\ Schedule(q, request[r].deploy, request[r].wallet)
  /\ request' = [request EXCEPT ![r].stage = "scheduled"]
  /\ UNCHANGED <<row, walletIndex>>

MarkReprovision(r) ==
  /\ At(r, "scheduled")
  /\ WriteStatus(request[r].deploy, "provisioning")
  /\ Reply(r)
  /\ UNCHANGED <<walletIndex, running, pipe>>

-----------------------------------------------------------------------------

Goto(q, stage) == pipe' = [pipe EXCEPT ![q].stage = stage]

\* One more than the greatest wallet in the table.
NextOfRows(n) ==
  /\ \A d \in Deploy : row[d].wallet < n
  /\ n = 0 \/ \E d \in Deploy : row[d].wallet = n - 1

\* maxWalletDerivationIndex, and what else runDeployPipeline is given.
ReadMaxIndex(q) ==
  /\ pipe[q].stage = "max"
  /\ \E n \in 0 .. MaxIndex + 1 :
       /\ NextOfRows(n)
       /\ pipe' = [pipe EXCEPT ![q].stage = "mark", ![q].min = n]
  /\ UNCHANGED <<row, walletIndex, running, request>>

\* The skills are in the registry: the deploy is (again) being provisioned.
MarkProvisioning(q) ==
  /\ pipe[q].stage = "mark"
  /\ WriteStatus(pipe[q].deploy, "provisioning")
  /\ Goto(q, "allocate")
  /\ UNCHANGED <<walletIndex, running, request>>

\* Mutant: the file alone numbers the wallets.
AllocateFromFile(q) ==
  /\ pipe[q].stage = "allocate"
  /\ pipe[q].wallet = NoWallet
  /\ walletIndex <= MaxIndex
  /\ walletIndex' = walletIndex + 1
  /\ pipe' = [pipe EXCEPT ![q].stage = "record", ![q].wallet = walletIndex]
  /\ UNCHANGED <<row, running, request>>

\* allocateDerivationIndex: above the table as it was, and above the file.
Allocate(q) ==
  LET index == IF walletIndex > pipe[q].min THEN walletIndex ELSE pipe[q].min IN
  /\ pipe[q].stage = "allocate"
  /\ pipe[q].wallet = NoWallet
  /\ index <= MaxIndex
  /\ walletIndex' = index + 1
  /\ pipe' = [pipe EXCEPT ![q].stage = "record", ![q].wallet = index]
  /\ UNCHANGED <<row, running, request>>

\* Mutant: a pipeline that need not resume goes on without a wallet.
ResumeWalletAny(q) ==
  /\ pipe[q].stage = "allocate"
  /\ Goto(q, "record")
  /\ UNCHANGED <<row, walletIndex, running, request>>

\* A pipeline that resumes keeps its wallet.
ResumeWallet(q) ==
  /\ pipe[q].stage = "allocate"
  /\ pipe[q].wallet # NoWallet
  /\ Goto(q, "record")
  /\ UNCHANGED <<row, walletIndex, running, request>>

RecordWallet(q) ==
  /\ pipe[q].stage = "record"
  /\ WriteWallet(pipe[q].deploy, "provisioning", pipe[q].wallet)
  /\ Goto(q, "fund")
  /\ UNCHANGED <<walletIndex, running, request>>

\* The wallet is funded, named and attested.
Fund(q) ==
  /\ pipe[q].stage = "fund"
  /\ WriteWallet(pipe[q].deploy, "installing", pipe[q].wallet)
  /\ Goto(q, "install")
  /\ UNCHANGED <<walletIndex, running, request>>

\* The skills' files are in place; a dry run ends without a word.
Install(q) ==
  /\ pipe[q].stage = "install"
  /\ \/ WriteWallet(pipe[q].deploy, "awaiting_vouch", pipe[q].wallet)
     \/ UNCHANGED row
  /\ Goto(q, "finally")
  /\ UNCHANGED <<walletIndex, running, request>>

\* Anything throws, inside runDeployPipeline ("throw") or before it ("catch").
Throw(q) ==
  /\ pipe[q].stage \in Early \cup Late
  /\ Goto(q, IF pipe[q].stage = "max" THEN "catch" ELSE "throw")
  /\ UNCHANGED <<row, walletIndex, running, request>>

\* Both levels write the failure; a database that is down ends neither.
WriteFailure(q) ==
  /\ pipe[q].stage \in {"throw", "catch"}
  /\ WriteStatus(pipe[q].deploy, "failed") \/ UNCHANGED row
  /\ Goto(q, IF pipe[q].stage = "throw" THEN "catch" ELSE "finally")
  /\ UNCHANGED <<walletIndex, running, request>>

\* Mutant: a failed deploy stays in the set.
FinallyOfSuccess(q) ==
  /\ pipe[q].stage = "finally"
  /\ running' = IF row[pipe[q].deploy].status = "failed"
                THEN running
                ELSE running \ {pipe[q].deploy}
  /\ pipe' = [pipe EXCEPT ![q] = Idle]
  /\ UNCHANGED <<row, walletIndex, request>>

\* finally: the deploy leaves the set, whoever else may be working on it.
Finally(q) ==
  /\ pipe[q].stage = "finally"
  /\ running' = running \ {pipe[q].deploy}
  /\ pipe' = [pipe EXCEPT ![q] = Idle]
  /\ UNCHANGED <<row, walletIndex, request>>

\* The host process stops and starts again; the database and, unless the host
\* is set up anew, the file are still there.
Restart(fileKept) ==
  /\ walletIndex' = IF fileKept THEN walletIndex ELSE 0
  /\ running' = {}
  /\ request' = [r \in Request |-> Idle]
  /\ pipe' = [q \in Pipe |-> Idle]
  /\ UNCHANGED row

PipeStep(q) ==
  \/ ReadMaxIndex(q)
  \/ MarkProvisioning(q)
  \/ Allocate(q)
  \/ ResumeWallet(q)
  \/ RecordWallet(q)
  \/ Fund(q)
  \/ Install(q)
  \/ Throw(q)
  \/ WriteFailure(q)
  \/ Finally(q)

RequestStep(r) ==
  \/ \E d \in Deploy : ReadToConfirm(r, d) \/ ReadToRun(r, d) \/ ReadToStart(r, d)
  \/ ConfirmPayment(r)
  \/ CheckStart(r)
  \/ Start(r)
  \/ MarkReprovision(r)
  \/ \E q \in Pipe : RunPipeline(r, q) \/ Reprovision(r, q)
  \/ Refuse(r)

Next ==
  \/ \E d \in Deploy : Create(d) \/ Stop(d)
  \/ \E r \in Request : RequestStep(r)
  \/ \E q \in Pipe : PipeStep(q)
  \/ \E fileKept \in BOOLEAN : Restart(fileKept)

Spec == Init /\ [][Next]_vars

\* Every await of a pipeline ends, well or badly: calls to nodes time out.
FairSpec == Spec /\ \A q \in Pipe : WF_vars(PipeStep(q))

-----------------------------------------------------------------------------

\* No two agents share a wallet: its index is taken before it is recorded, by
\* pipelines that read the table at different times, act on rows read earlier,
\* run twice for a deploy, are cut off, or find the file gone.
WalletsDistinct ==
  \A d, e \in Deploy :
    row[d].wallet # NoWallet /\ row[d].wallet = row[e].wallet => d = e

\* What is shown as installed, waiting to be vouched for or running has an
\* address to vouch for, whichever handler wrote the status last.
ReadyHasWallet ==
  \A d \in Deploy :
    row[d].status \in {"installing", "awaiting_vouch", "running"} =>
      row[d].wallet # NoWallet

\* Nobody is doing anything for deploy d.
Untouched(d) ==
  /\ \A r \in Request : request[r] = Idle \/ request[r].deploy # d
  /\ \A q \in Pipe : pipe[q] = Idle \/ pipe[q].deploy # d

Stranded(d) == row[d] = [status |-> "paused", wallet |-> NoWallet] /\ Untouched(d)

\* A limit of the code: stop pauses a deploy that has no wallet yet as well, and
\* no sequence of requests brings that one back, for confirm-payment and
\* run-pipeline want another status and start wants a wallet.
StrandedForGood == [][\A d \in Deploy : Stranded(d) => Stranded(d)']_vars

\* PIPELINE_ALREADY_RUNNING is no verdict for ever: the pipeline that put a
\* deploy into the set takes it out again, failed or not.
PipelineEnds == \A d \in Deploy : d \in running ~> d \notin running

=============================================================================
