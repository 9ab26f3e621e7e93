----------------------------- MODULE PartnerPlay -----------------------------
(***************************************************************************)
(* Matches started by a partner for one hosted agent, on the fast path: the *)
(* host starts a match with the game service, sets off a detached worker   *)
(* that plays it, and marks the match in the agent's row; the worker       *)
(* reports its rounds and its end to the host by posts that may be lost or *)
(* come late.  Whether the agent is busy is read from the row: the active  *)
(* match, and the live match with its phase and the time it was reported.  *)
(* Times are ages, in ticks.                                               *)
(***************************************************************************)
EXTENDS Naturals

CONSTANTS
  MaxMatch,      \* bound: the matches started are 1..MaxMatch
  Request,       \* the partners' requests in flight at one time
  StalePlaying,  \* LIVE_STALE_PLAYING_MS
  StaleEnded     \* LIVE_STALE_ENDED_MS

ASSUME PlayAssumption ==
  /\ MaxMatch \in Nat
  /\ StalePlaying \in Nat
  /\ StaleEnded \in Nat
  /\ StaleEnded < StalePlaying

VARIABLES
  live,      \* the row's live match, with the age of its updatedAt
  active,    \* the row's active arena match
  request,   \* the handlers in flight
  clearing,  \* some reader has read a stale live match and is to clear it
  worker,    \* the worker of each match: the post it awaits, or what it does
  late,      \* a post whose worker no longer waits for it: one at a time
  over       \* how long ago the worker of a match was done

vars == <<live, active, request, clearing, worker, late, over>>

\* An age stops where every report is stale.
Old == StalePlaying + 1
Age == 0 .. Old
Match == 1 .. MaxMatch
NoMatch == 0
MatchOrNone == Match \cup {NoMatch}

Phase == {"starting", "playing", "ended"}
Live == [match : Match, phase : Phase, age : Age]
NoLive == [match |-> NoMatch]

Post == {"playing", "ended", "end", "clear"}
Stage == Post \cup {"none", "throw", "over"}
NoPost == [post |-> "none"]

\* A play looks whether the agent is busy ("look": what it has still to read,
\* and the match the first of two reads found), clears the row ("unset",
\* "unlive"), starts a match and marks it ("mark": what is still to write, and
\* how old its time is).  A stop clears the row and no more.
Idle == [kind |-> "idle"]
Pending ==
  [kind : {"play", "stop"}, stage : {"look", "unset", "unlive", "start", "mark"},
   todo : SUBSET {"live", "active", "clear"}, match : MatchOrNone, age : Age]

TypeOK ==
  /\ live \in Live \cup {NoLive}
  /\ active \in MatchOrNone
  /\ request \in [Request -> Pending \cup {Idle}]
  /\ clearing \in BOOLEAN
  /\ worker \in [Match -> [stage : Stage, age : Age]]
  /\ late \in [post : Post, match : Match, age : Age] \cup {NoPost}
  /\ over \in [Match -> Age]

Init ==
  /\ live = NoLive
  /\ active = NoMatch
  /\ request = [r \in Request |-> Idle]
  /\ clearing = FALSE
  /\ worker = [m \in Match |-> [stage |-> "none", age |-> 0]]
  /\ late = NoPost
  /\ over = [m \in Match |-> 0]

-----------------------------------------------------------------------------

Stale ==
  /\ live # NoLive
  /\ live.age > IF live.phase = "ended" THEN StaleEnded ELSE StalePlaying

\* The match that getDeployLiveMatch says is starting or playing.
Playing ==
  IF live # NoLive /\ live.phase # "ended" /\ ~Stale THEN live.match ELSE NoMatch

Reply(r) == request' = [request EXCEPT ![r] = Idle]
At(r, stage) == request[r] # Idle /\ request[r].stage = stage
Goto(r, stage) == request' = [request EXCEPT ![r].stage = stage]

\* A request is read, signed by the owner, for an agent that is verified and
\* below its cap; what becomes of an autopilot is in DeployProcess.
BeginPlay(r) ==
  /\ request[r] = Idle
  /\ request' = [request EXCEPT ![r] =
       [kind |-> "play", stage |-> "look", todo |-> {"live", "active"},
        match |-> NoMatch, age |-> 0]]
  /\ UNCHANGED <<live, active, clearing, worker, late, over>>

\* The partners' stop, and their start, which starts no match.
BeginStop(r) ==
  /\ request[r] = Idle
  /\ request' = [request EXCEPT ![r] =
       [kind |-> "stop", stage |-> "unset", todo |-> {}, match |-> NoMatch, age |-> 0]]
  /\ UNCHANGED <<live, active, clearing, worker, late, over>>

\* An error at any wait, or a crash of the host.
Refuse(r) ==
  /\ request[r] # Idle
  /\ Reply(r)
  /\ UNCHANGED <<live, active, clearing, worker, late, over>>

\* isPartnerFastPathBusy: two reads side by side; busy if they find one match.
See(r, field, m, more) ==
  LET other == {"live", "active"} \ {field} IN
  /\ At(r, "look")
  /\ field \in request[r].todo
  /\ IF other \subseteq request[r].todo
     THEN request' = [request EXCEPT ![r].todo = other \cup more, ![r].match = m]
     ELSE IF m # NoMatch /\ m = request[r].match
          THEN Reply(r)
          ELSE request' = [request EXCEPT
                 ![r].todo = (@ \ {field}) \cup more, ![r].match = NoMatch]

ReadLive(r) ==
  /\ See(r, "live", Playing, IF Stale THEN {"clear"} ELSE {})
  /\ UNCHANGED <<live, active, clearing, worker, late, over>>

ReadActive(r) ==
  /\ See(r, "active", active, {})
  /\ UNCHANGED <<live, active, clearing, worker, late, over>>

\* A stale live match is cleared by the reader that found it, after its read.
ClearStale(r) ==
  /\ At(r, "look")
  /\ "clear" \in request[r].todo
  /\ live' = NoLive
  /\ request' = [request EXCEPT ![r].todo = @ \ {"clear"}]
  /\ UNCHANGED <<active, clearing, worker, late, over>>

\* Any other reader: a dashboard, a snapshot for a partner.
PollStale ==
  /\ Stale
  /\ clearing' = TRUE
  /\ UNCHANGED <<live, active, request, worker, late, over>>

PollClear ==
  /\ clearing
  /\ live' = NoLive
  /\ clearing' = FALSE
  /\ UNCHANGED <<active, request, worker, late, over>>

\* clearPartnerPlayLiveState, at the end of stopPartnerAutopilot.
UnsetActive(r) ==
  /\ At(r, "unset") \/ (At(r, "look") /\ request[r].todo = {})
  /\ active' = NoMatch
  /\ Goto(r, "unlive")
  /\ UNCHANGED <<live, clearing, worker, late, over>>

ClearLive(r) ==
  /\ At(r, "unlive")
  /\ live' = NoLive
  /\ IF request[r].kind = "play" THEN Goto(r, "start") ELSE Reply(r)
  /\ UNCHANGED <<active, clearing, worker, late, over>>

\* gamearenaPlayFast: a match is started, its worker set off, and the time
\* taken that the match will be marked with.
StartMatch(r, m) ==
  /\ At(r, "start")
  /\ \A n \in Match : worker[n].stage = "none" <=> n >= m
  /\ worker' = [worker EXCEPT ![m].stage = "throw"]
  /\ request' = [request EXCEPT
       ![r].stage = "mark", ![r].todo = {"live", "active"}, ![r].match = m, ![r].age = 0]
  /\ UNCHANGED <<live, active, clearing, late, over>>

\* Two writes side by side.
Marked(r, field) ==
  /\ At(r, "mark")
  /\ field \in request[r].todo
  /\ IF request[r].todo = {field}
     THEN Reply(r)
     ELSE request' = [request EXCEPT ![r].todo = @ \ {field}]

MarkActive(r) ==
  /\ Marked(r, "active")
  /\ active' = request[r].match
  /\ UNCHANGED <<live, clearing, worker, late, over>>

MarkLive(r) ==
  /\ Marked(r, "live")
  /\ live' = [match |-> request[r].match, phase |-> "starting", age |-> request[r].age]
  /\ UNCHANGED <<active, clearing, worker, late, over>>

-----------------------------------------------------------------------------

\* The match's worker: rounds until the last one, or an error, then its end.
Throw(m) ==
  /\ worker[m].stage = "throw"
  /\ worker' = [worker EXCEPT ![m] = [stage |-> "playing", age |-> 0]]
  /\ UNCHANGED <<live, active, request, clearing, late, over>>

LastThrow(m) ==
  /\ worker[m].stage = "throw"
  /\ \E stage \in {"ended", "end"} :
       worker' = [worker EXCEPT ![m] = [stage |-> stage, age |-> 0]]
  /\ UNCHANGED <<live, active, request, clearing, late, over>>

\* Mutant: the loop goes on after the last round.
ContinueEver(m) ==
  worker' = [worker EXCEPT ![m] =
    [stage |-> CASE @.stage \in {"playing", "ended"} -> "throw"
                 [] @.stage = "end" -> "clear"
                 [] @.stage = "clear" -> "over",
     age |-> 0]]

\* What the worker does after a post.
Continue(m) ==
  worker' = [worker EXCEPT ![m] =
    [stage |-> CASE @.stage = "playing" -> "throw"
                 [] @.stage = "ended" -> "end"
                 [] @.stage = "end" -> "clear"
                 [] @.stage = "clear" -> "over",
     age |-> 0]]

\* Mutant: a report counts from when it is handled.
ApplyStamped(post, m, age) ==
  /\ live' = CASE post \in {"playing", "ended"} -> [match |-> m, phase |-> post, age |-> 0]
               [] post = "clear" -> NoLive
               [] OTHER -> live
  /\ active' = IF post = "end" THEN NoMatch ELSE active

\* Mutant: every report is one of the live match.
ApplyAsLive(post, m, age) ==
  /\ live' = IF post = "clear" THEN NoLive ELSE [match |-> m, phase |-> post, age |-> age]
  /\ active' = IF post = "end" THEN NoMatch ELSE active

\* POST /deploy/:id/activity: a report keeps the time its sender gave it; the
\* end of a match, and the clearing after it, ask for no match id.
Apply(post, m, age) ==
  /\ live' = CASE post \in {"playing", "ended"} -> [match |-> m, phase |-> post, age |-> age]
               [] post = "clear" -> NoLive
               [] OTHER -> live
  /\ active' = IF post = "end" THEN NoMatch ELSE active

\* postDeployActivity: the post is handled, fails, or is given up on while the
\* host may still handle it.
Deliver(m) ==
  /\ worker[m].stage \in Post
  /\ Apply(worker[m].stage, m, worker[m].age)
  /\ Continue(m)
  /\ UNCHANGED <<request, clearing, late, over>>

Lose(m) ==
  /\ worker[m].stage \in Post
  /\ Continue(m)
  /\ UNCHANGED <<live, active, request, clearing, late, over>>

GiveUp(m) ==
  /\ worker[m].stage \in Post
  /\ late = NoPost
  /\ late' = [post |-> worker[m].stage, match |-> m, age |-> worker[m].age]
  /\ Continue(m)
  /\ UNCHANGED <<live, active, request, clearing, over>>

DeliverLate ==
  /\ late # NoPost
  /\ Apply(late.post, late.match, late.age)
  /\ late' = NoPost
  /\ UNCHANGED <<request, clearing, worker, over>>

\* The worker's process is killed: it reports no end.
Die(m) ==
  /\ worker[m].stage \notin {"none", "over"}
  /\ worker' = [worker EXCEPT ![m] = [stage |-> "over", age |-> 0]]
  /\ UNCHANGED <<live, active, request, clearing, late, over>>

Older(age) == IF age = Old THEN Old ELSE age + 1

Tick ==
  /\ live' = IF live = NoLive THEN NoLive ELSE [live EXCEPT !.age = Older(@)]
  /\ request' = [r \in Request |->
       IF At(r, "mark") THEN [request[r] EXCEPT !.age = Older(@)] ELSE request[r]]
  /\ worker' = [m \in Match |->
       IF worker[m].stage \in {"playing", "ended"}
       THEN [worker[m] EXCEPT !.age = Older(@)] ELSE worker[m]]
  /\ late' = IF late = NoPost THEN NoPost ELSE [late EXCEPT !.age = Older(@)]
  /\ over' = [m \in Match |->
       IF worker[m].stage = "over" THEN Older(over[m]) ELSE over[m]]
  /\ UNCHANGED <<active, clearing>>

RequestStep(r) ==
  \/ BeginPlay(r) \/ BeginStop(r) \/ Refuse(r)
  \/ ReadLive(r) \/ ReadActive(r) \/ ClearStale(r)
  \/ UnsetActive(r) \/ ClearLive(r)
  \/ \E m \in Match : StartMatch(r, m)
  \/ MarkActive(r) \/ MarkLive(r)

Settle(m) == Deliver(m) \/ Lose(m)

WorkerStep(m) ==
  \/ Throw(m) \/ LastThrow(m)
  \/ Settle(m) \/ GiveUp(m)
  \/ Die(m)

Next ==
  \/ \E r \in Request : RequestStep(r)
  \/ PollStale \/ PollClear
  \/ \E m \in Match : WorkerStep(m)
  \/ DeliverLate
  \/ Tick

Spec == Init /\ [][Next]_vars

\* Time goes on, a worker's posts are waited for 15 s at most, and a match has
\* finitely many rounds.
FairSpec ==
  /\ Spec
  /\ WF_vars(Tick)
  /\ \A m \in Match : WF_vars(Settle(m)) /\ SF_vars(LastThrow(m))

-----------------------------------------------------------------------------

\* What a play finds if it looks now: AGENT_BUSY.
Busy(m) == Playing = m /\ active = m

InFlight(m) == worker[m].stage \notin {"none", "over"}

\* AGENT_BUSY is said for a match that is being played, or was no longer ago
\* than a live match is believed, even if its marks are written after its end
\* and its posts come late or after it.
BusyIsRecent ==
  \A m \in Match : Busy(m) => InFlight(m) \/ (worker[m].stage = "over" /\ over[m] <= StalePlaying)

\* No match keeps the agent busy for ever, though its worker die, or every
\* report of its end be lost.
BusyEnds == \A m \in Match : Busy(m) ~> ~Busy(m)

=============================================================================
