---------------------------- MODULE DeployProcess ----------------------------
(***************************************************************************)
(* One provisioned agent: the status in its row, the PM2 process it runs   *)
(* as, and the requests that bring the two together.  The host sees the    *)
(* process through a list that it keeps for 30 s and that its own commands *)
(* do not refresh.  A handler reads the row, awaits, gives its PM2 command *)
(* without awaiting, and then awaits the write of the status; so do the    *)
(* pauses at the daily match cap, which a sweep of all rows and every      *)
(* dashboard's poll try for.                                               *)
(***************************************************************************)
EXTENDS Naturals

CONSTANTS
  Request,      \* requests in flight at one time
  Sweep,        \* the sweep, a handler that is there once
  CommandFails  \* whether a PM2 command may fail

ASSUME ProcessAssumption == Sweep \notin Request /\ CommandFails \in BOOLEAN

VARIABLES
  status,   \* the row's status
  process,  \* what PM2 has
  list,     \* the process list the host keeps: what it says of the agent
  full,     \* the skill's state file: today's matches have reached the cap
  logged,   \* the tail of the log shows the line of a cap reached
  vouched,  \* whether the owner vouches for the agent
  handler   \* the handlers in flight, each with what it read

vars == <<status, process, list, full, logged, vouched, handler>>
world == <<full, logged, vouched>>

Status == {"awaiting_vouch", "running", "paused"}
Process == {"absent", "stopped", "online"}
Vouching == {"never", "now", "lapsed"}
Handler == Request \cup {Sweep}

\* kind "ready": the partner's start, and its play before the match: an
\* autopilot is to stop.  seen: the status read; line: the tail, for a poll.
Idle == [kind |-> "idle"]
Pending ==
  [kind : {"stop", "start", "config", "ready", "cap"},
   stage : {"check", "act", "write"}, seen : Status, line : BOOLEAN]

TypeOK ==
  /\ status \in Status
  /\ process \in Process
  /\ list \in [view : Process, fresh : BOOLEAN]
  /\ full \in BOOLEAN
  /\ logged \in BOOLEAN
  /\ vouched \in Vouching
  /\ handler \in [Handler -> Pending \cup {Idle}]

\* Provisioned: files and a row, no process.  No list is a list without agents.
Unlisted == [view |-> "absent", fresh |-> FALSE]

Init ==
  /\ status = "awaiting_vouch"
  /\ process = "absent"
  /\ list = Unlisted
  /\ full = FALSE
  /\ logged = FALSE
  /\ vouched = "never"
  /\ handler = [r \in Handler |-> Idle]

-----------------------------------------------------------------------------

\* readPm2ProcessList: the list while it is young, else PM2's, else, if PM2
\* does not answer, the old one, or none.  s is what it says of the agent.
Look(s) ==
  \/ list.fresh /\ s = list.view /\ UNCHANGED list
  \/ ~list.fresh /\ s = process /\ list' = [view |-> process, fresh |-> TRUE]
  \/ ~list.fresh /\ CommandFails /\ s = list.view /\ UNCHANGED list

\* Any other request for the list.
Peek ==
  /\ Look(list.view) \/ Look(process)
  /\ UNCHANGED <<status, process, world, handler>>

Expire ==
  /\ list.fresh
  /\ list' = [list EXCEPT !.fresh = FALSE]
  /\ UNCHANGED <<status, process, world, handler>>

\* pm2 stop, its failure caught.
Pm2Stop ==
  \/ process' = IF process = "online" THEN "stopped" ELSE process
  \/ CommandFails /\ UNCHANGED process

Begin(r, kind, stage) ==
  /\ handler[r] = Idle
  /\ \E line \in {FALSE, logged} :
       handler' = [handler EXCEPT ![r] =
         [kind |-> kind, stage |-> stage, seen |-> status,
          line |-> kind = "cap" /\ r # Sweep /\ line]]
  /\ UNCHANGED <<status, process, list, world>>

At(r, kind, stage) ==
  /\ handler[r] # Idle
  /\ handler[r].kind = kind
  /\ handler[r].stage = stage

Goto(r, stage) == handler' = [handler EXCEPT ![r].stage = stage]
Reply(r) == handler' = [handler EXCEPT ![r] = Idle]

\* An error response, at any wait: the database, the signature, the chain.
Refuse(r) ==
  /\ handler[r] # Idle
  /\ Reply(r)
  /\ UNCHANGED <<status, process, list, world>>

\* Mutant: what PM2 says is written, not what a deploy can be.
WriteProcessStatus(r) ==
  /\ handler[r] # Idle
  /\ handler[r].stage = "write"
  /\ status' = IF handler[r].kind = "start" THEN "running" ELSE process
  /\ Reply(r)
  /\ UNCHANGED <<process, list, world>>

\* updateDeployedAgent, the last thing each handler does.
WriteStatus(r) ==
  /\ handler[r] # Idle
  /\ handler[r].stage = "write"
  /\ status' = IF handler[r].kind = "start" THEN "running" ELSE "paused"
  /\ Reply(r)
  /\ UNCHANGED <<process, list, world>>

\* POST /deploy/:id/stop and the partners' stop.
StopProcess(r) ==
  /\ At(r, "stop", "act")
  /\ Pm2Stop
  /\ Goto(r, "write")
  /\ UNCHANGED <<status, list, world>>

\* POST /deploy/:id/start: assertOwnerVouchedForAgent.
CheckVouched(r) ==
  /\ At(r, "start", "check")
  /\ vouched = "now"
  /\ Goto(r, "act")
  /\ UNCHANGED <<status, process, list, world>>

\* startDeployedAgent: what is listed goes by its name, which PM2 may have
\* lost since; what is not goes by its files.
StartProcess(r) ==
  /\ At(r, "start", "act")
  /\ \E s \in Process :
       /\ Look(s)
       /\ \/ /\ s = "absent" \/ process # "absent"
             /\ process' = "online"
             /\ Goto(r, "write")
          \/ /\ CommandFails \/ (s # "absent" /\ process = "absent")
             /\ UNCHANGED process
             /\ Reply(r)
  /\ UNCHANGED <<status, world>>

\* Mutant: a configuration is applied whether or not the agent runs.
ReloadAlways(r) ==
  /\ At(r, "config", "act")
  /\ \E s \in Process : Look(s)
  /\ process' = "online"
  /\ Reply(r)
  /\ UNCHANGED <<status, world>>

\* The configuration, a skill's switch, a new name: if the list says online,
\* the process is deleted and started from its new files.
Reload(r) ==
  /\ At(r, "config", "act")
  /\ \E s \in Process :
       /\ Look(s)
       /\ \/ s # "online" /\ UNCHANGED process
          \/ s = "online" /\ process' = "online"
          \/ s = "online" /\ CommandFails /\ process' = "absent"
  /\ Reply(r)
  /\ UNCHANGED <<status, world>>

\* stopPartnerAutopilot: only a deploy read as running, and listed online.
StopAutopilot(r) ==
  /\ At(r, "ready", "act")
  /\ IF handler[r].seen = "running"
     THEN /\ \E s \in Process : Look(s) /\ IF s = "online" THEN Pm2Stop ELSE UNCHANGED process
          /\ Goto(r, "write")
     ELSE Reply(r) /\ UNCHANGED <<process, list>>
  /\ UNCHANGED <<status, world>>

\* Mutant: a deploy listed as stopped is left as it is.
EnforceCapOnline(r) ==
  /\ At(r, "cap", "act")
  /\ IF full \/ handler[r].line
     THEN \E s \in Process :
            /\ Look(s)
            /\ IF s = "online"
               THEN Pm2Stop /\ Goto(r, "write")
               ELSE Reply(r) /\ UNCHANGED process
     ELSE Reply(r) /\ UNCHANGED <<process, list>>
  /\ UNCHANGED <<status, world>>

\* pauseGamearenaAgentAtDailyCap, for a row read as running.
EnforceCap(r) ==
  /\ At(r, "cap", "act")
  /\ IF full \/ handler[r].line
     THEN /\ \E s \in Process : Look(s) /\ IF s = "online" THEN Pm2Stop ELSE UNCHANGED process
          /\ Goto(r, "write")
     ELSE Reply(r) /\ UNCHANGED <<process, list>>
  /\ UNCHANGED <<status, world>>

ReadToCap(r) == status = "running" /\ Begin(r, "cap", "act")

\* The host starts again: its list and handlers are gone, PM2 stays, and
\* patchAllGamearenaDailyCapGuards stops the process of an agent at its cap.
Restart ==
  /\ IF full THEN Pm2Stop ELSE UNCHANGED process
  /\ list' = Unlisted
  /\ handler' = [r \in Handler |-> Idle]
  /\ UNCHANGED <<status, world>>

-----------------------------------------------------------------------------
\* What is not the host's doing.

\* The skill played its last match of the day, and says so.
ReachCap ==
  /\ process = "online"
  /\ full' = TRUE
  /\ logged' = TRUE
  /\ UNCHANGED <<status, process, list, vouched, handler>>

\* Other lines follow it in the log.
RollLog ==
  /\ process = "online"
  /\ logged' = FALSE
  /\ UNCHANGED <<status, process, list, full, vouched, handler>>

\* Midnight, or a cap set higher.
NewDay ==
  /\ full' = FALSE
  /\ UNCHANGED <<status, process, list, logged, vouched, handler>>

\* The process ends and is not restarted: too many restarts, or the guard's
\* exit code.  PM2 itself may come up without it.
Exit ==
  /\ process = "online"
  /\ process' \in {"stopped", "absent"}
  /\ UNCHANGED <<status, list, world, handler>>

Vouch ==
  /\ vouched' \in IF vouched = "now" THEN {"lapsed"} ELSE {"now"}
  /\ UNCHANGED <<status, process, list, full, logged, handler>>

HandlerStep(r) ==
  \/ StopProcess(r)
  \/ CheckVouched(r)
  \/ StartProcess(r)
  \/ Reload(r)
  \/ StopAutopilot(r)
  \/ EnforceCap(r)
  \/ WriteStatus(r)

RequestStep(r) ==
  \/ \E kind \in {"stop", "config", "ready"} : Begin(r, kind, "act")
  \/ Begin(r, "start", "check")
  \/ ReadToCap(r)
  \/ Refuse(r)
  \/ HandlerStep(r)

\* The sweep catches what fails, and comes again.
SweepStep == ReadToCap(Sweep) \/ Refuse(Sweep) \/ HandlerStep(Sweep)

Next ==
  \/ \E r \in Request : RequestStep(r)
  \/ SweepStep
  \/ Peek \/ Expire \/ Restart
  \/ ReachCap \/ RollLog \/ NewDay \/ Exit \/ Vouch

Spec == Init /\ [][Next]_vars

\* setInterval brings the sweep round again every 90 s; its waits for the
\* database end, and neither an error nor a crash cuts every sweep short.
FairSpec ==
  /\ Spec
  /\ WF_vars(ReadToCap(Sweep))
  /\ SF_vars(EnforceCap(Sweep))
  /\ SF_vars(WriteStatus(Sweep))

-----------------------------------------------------------------------------

\* Nothing runs, or is shown as running, for which no owner has ever vouched:
\* neither start after its waits, nor a configuration change that trusts an
\* old list, nor what is done at the cap puts such an agent online.
RunsOnlyVouched == process = "online" \/ status = "running" => vouched # "never"

\* An agent at its cap does not stay shown as running, whatever the list says
\* of its process, and whether the process ended by itself or not.
CapPauses == full /\ status = "running" ~> ~full \/ status # "running"

=============================================================================
