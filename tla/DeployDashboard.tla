--------------------------- MODULE DeployDashboard ---------------------------
(***************************************************************************)
(* The widget's dashboard of an owner's agents (useDashboard): the agent   *)
(* selected, the status shown for it, and the requests that fill it in.    *)
(* Lite answers bring the status without statistics, full answers both,    *)
(* live snapshots the process alone; they come in any order, and an answer *)
(* asked for one agent may come when another is selected.  Pause and resume *)
(* are shown before the owner has signed them.  What the host says of a    *)
(* process changes at any time.                                            *)
(***************************************************************************)
CONSTANTS
  Deploy,     \* the owner's agents
  GameArena,  \* those with a GameArena skill
  Lite,       \* lite polls in flight at one time
  NoDeploy    \* no agent

ASSUME DashboardAssumption == GameArena \subseteq Deploy /\ NoDeploy \notin Deploy

VARIABLES
  online,   \* what the host says of each agent's process
  shown,    \* the agent selected
  view,     \* the status shown: whose it is, its process, whose statistics
  effect,   \* what the polling effect last ran for
  lite,     \* lite polls in flight, with what the host read for them
  full,     \* the full poll in flight: fullPollInFlight
  live,     \* the poll of the live match in flight: livePollInFlight
  control   \* controlBusy, with the command under way

vars == <<online, shown, view, effect, lite, full, live, control>>

NoView == [deploy |-> NoDeploy]
View == [deploy : Deploy, online : BOOLEAN, stats : Deploy \cup {NoDeploy}]
NoPoll == [deploy |-> NoDeploy]

\* after: what follows the answer, or its failure.  The effect's first poll and
\* that of a command obeyed ("done") are followed by a full poll, the effect's
\* by a live one as well if it ran for an agent that plays; a command's, obeyed
\* or not, sets its buttons free.
After == {"none", "full", "live", "done", "undone"}
LitePoll == [deploy : Deploy, online : BOOLEAN, after : After]
Poll == [deploy : Deploy, online : BOOLEAN]

\* A command waits for its signature and the host, or for the poll after it.
NoControl == [deploy |-> NoDeploy]
Control == [deploy : Deploy, resume : BOOLEAN, stage : {"command", "poll"}]

TypeOK ==
  /\ online \in [Deploy -> BOOLEAN]
  /\ shown \in Deploy
  /\ view \in View \cup {NoView}
  /\ effect \in [deploy : Deploy \cup {NoDeploy}, arena : BOOLEAN]
  /\ lite \in [Lite -> LitePoll \cup {NoPoll}]
  /\ full \in Poll \cup {NoPoll}
  /\ live \in Poll \cup {NoPoll}
  /\ control \in Control \cup {NoControl}

Init ==
  /\ online \in [Deploy -> BOOLEAN]
  /\ shown \in Deploy
  /\ view = NoView
  /\ effect = [deploy |-> NoDeploy, arena |-> FALSE]
  /\ lite = [p \in Lite |-> NoPoll]
  /\ full = NoPoll
  /\ live = NoPoll
  /\ control = NoControl

-----------------------------------------------------------------------------

\* gamearenaOnline: by the status shown, whosever it is.
GamearenaOnline == view # NoView /\ view.deploy \in GameArena /\ view.online

\* GET /deploy/:id/status?lite=1.
PollLite(p, d, after) ==
  /\ lite[p] = NoPoll
  /\ lite' = [lite EXCEPT ![p] = [deploy |-> d, online |-> online[d], after |-> after]]

\* GET /deploy/:id/status, if none is in flight, for whichever agent.
PollFull(d) ==
  full' = IF full = NoPoll THEN [deploy |-> d, online |-> online[d]] ELSE full

\* GET /deploy/:id/live-snapshot, likewise.
PollLive(d) ==
  live' = IF live = NoPoll THEN [deploy |-> d, online |-> online[d]] ELSE live

Select(d) ==
  /\ d # shown
  /\ shown' = d
  /\ UNCHANGED <<online, view, effect, lite, full, live, control>>

\* What the polling effect depends on.
Wanted == [deploy |-> shown, arena |-> GamearenaOnline]

\* Mutant: the effect runs once.
RunEffectOnMount(p) ==
  /\ effect # Wanted
  /\ effect.deploy = NoDeploy
  /\ effect' = Wanted
  /\ view' = NoView
  /\ PollLite(p, shown, IF GamearenaOnline THEN "live" ELSE "full")
  /\ UNCHANGED <<online, shown, full, live, control>>

\* The polling effect runs again for another agent, and whenever the agent's
\* arena timers are to be set or cleared: it begins with setStatus(null).
RunEffect(p) ==
  /\ effect # Wanted
  /\ effect' = Wanted
  /\ view' = NoView
  /\ PollLite(p, shown, IF GamearenaOnline THEN "live" ELSE "full")
  /\ UNCHANGED <<online, shown, full, live, control>>

\* The effect's timers.
LiteTimer(p) ==
  /\ effect.deploy # NoDeploy
  /\ PollLite(p, effect.deploy, "none")
  /\ UNCHANGED <<online, shown, view, effect, full, live, control>>

FullTimer ==
  /\ effect.deploy # NoDeploy
  /\ full = NoPoll
  /\ PollFull(effect.deploy)
  /\ UNCHANGED <<online, shown, view, effect, lite, live, control>>

\* Set only for an agent that plays.
LiveTimer ==
  /\ effect.arena
  /\ live = NoPoll
  /\ PollLive(effect.deploy)
  /\ UNCHANGED <<online, shown, view, effect, lite, full, control>>

\* mergeLiteStatus: the statistics shown are kept.
MergeLite(poll) ==
  [deploy |-> poll.deploy, online |-> poll.online,
   stats |-> IF view = NoView THEN NoDeploy ELSE view.stats]

EndLite(p, answered) ==
  LET poll == lite[p] IN
  /\ poll # NoPoll
  /\ lite' = [lite EXCEPT ![p] = NoPoll]
  /\ view' = IF answered THEN MergeLite(poll) ELSE view
  /\ IF poll.after = "live" THEN PollLive(poll.deploy) ELSE UNCHANGED live
  /\ IF poll.after \in {"full", "live", "done"} THEN PollFull(poll.deploy) ELSE UNCHANGED full
  /\ control' = IF poll.after \in {"done", "undone"} THEN NoControl ELSE control
  /\ UNCHANGED <<online, shown, effect>>

\* A full answer replaces the status; its statistics are null if the host
\* could not read them.
EndFull(answer) ==
  /\ full # NoPoll
  /\ full' = NoPoll
  /\ view' = IF answer = "error" THEN view ELSE
       [deploy |-> full.deploy, online |-> full.online,
        stats |-> IF answer = "stats" THEN full.deploy ELSE NoDeploy]
  /\ UNCHANGED <<online, shown, effect, lite, live, control>>

\* A live answer is merged into the status shown, whosever it is: of what is
\* told apart here it changes the process, if the host could read PM2.
EndLive(pm2Read) ==
  /\ live # NoPoll
  /\ live' = NoPoll
  /\ view' = IF pm2Read /\ view # NoView THEN [view EXCEPT !.online = live.online] ELSE view
  /\ UNCHANGED <<online, shown, effect, lite, full, control>>

\* Mutant: what was clicked is shown even where nothing was.
ClickBlank(resume) ==
  /\ control = NoControl
  /\ control' = [deploy |-> shown, resume |-> resume, stage |-> "command"]
  /\ view' = IF view = NoView THEN [deploy |-> NoDeploy, online |-> resume, stats |-> NoDeploy]
             ELSE [view EXCEPT !.online = resume]
  /\ UNCHANGED <<online, shown, effect, lite, full, live>>

\* pause and resume: shown at once, then signed and sent.
Click(resume) ==
  /\ control = NoControl
  /\ control' = [deploy |-> shown, resume |-> resume, stage |-> "command"]
  /\ view' = IF view = NoView THEN view ELSE [view EXCEPT !.online = resume]
  /\ UNCHANGED <<online, shown, effect, lite, full, live>>

\* The host obeyed; what it says of the process may come from an older list.
Obeyed(p) ==
  /\ control # NoControl
  /\ control.stage = "command"
  /\ online' \in {online, [online EXCEPT ![control.deploy] = control.resume]}
  /\ control' = [control EXCEPT !.stage = "poll"]
  /\ PollLite(p, control.deploy, "done")
  /\ UNCHANGED <<shown, view, effect, full, live>>

\* The owner did not sign, the host refused, or its answer was lost.
Refused(p) ==
  /\ control # NoControl
  /\ control.stage = "command"
  /\ control' = [control EXCEPT !.stage = "poll"]
  /\ PollLite(p, control.deploy, "undone")
  /\ UNCHANGED <<online, shown, view, effect, full, live>>

\* Anything else that starts or stops the process.
HostMoves(d) ==
  /\ online' = [online EXCEPT ![d] = ~@]
  /\ UNCHANGED <<shown, view, effect, lite, full, live, control>>

Next ==
  \/ \E d \in Deploy : Select(d) \/ HostMoves(d)
  \/ \E p \in Lite :
       \/ RunEffect(p) \/ LiteTimer(p) \/ Obeyed(p) \/ Refused(p)
       \/ \E answered \in BOOLEAN : EndLite(p, answered)
  \/ FullTimer
  \/ LiveTimer
  \/ \E answer \in {"stats", "bare", "error"} : EndFull(answer)
  \/ \E pm2Read \in BOOLEAN : EndLive(pm2Read)
  \/ \E resume \in BOOLEAN : Click(resume)

Spec == Init /\ [][Next]_vars

\* Effects run, timers fire, lite and full polls end, and the host answers them
\* again and again.  Nothing is assumed of live polls or of the owner.
FairSpec ==
  /\ Spec
  /\ SF_vars(\E p \in Lite : RunEffect(p))
  /\ WF_vars(FullTimer)
  /\ \A p \in Lite : WF_vars(LiteTimer(p)) /\ SF_vars(EndLite(p, TRUE))
  /\ SF_vars(EndFull("stats"))

-----------------------------------------------------------------------------

Shows(d, o) == view = [deploy |-> d, online |-> o, stats |-> d]

\* The dashboard comes back to the truth: when an agent stays selected and its
\* process stays as it is, status and statistics shown are again and again
\* its own, after late answers for another agent, answers out of order,
\* failed polls, and commands shown that were never obeyed.
ComesToTruth ==
  \A d \in Deploy : \A o \in BOOLEAN :
    <>[](shown = d /\ online[d] = o) => []<>Shows(d, o)

=============================================================================
