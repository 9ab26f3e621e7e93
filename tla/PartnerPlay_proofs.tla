------------------------- MODULE PartnerPlay_proofs -------------------------
(***************************************************************************)
(* Why AGENT_BUSY is only said for a match that is played, or was not long *)
(* ago, for any number of matches and of requests.  BusyIsRecent is not    *)
(* inductive: it speaks of the row alone, and a report may reach the row   *)
(* from a post, from a late one or from a play that marks its match.  The  *)
(* invariant is that every report under way, like the one in the row, is   *)
(* at least as old as the end of its match.                                *)
(***************************************************************************)
EXTENDS PartnerPlay, TLAPS

\* A report of this age is of a match that was started, and was not yet over
\* for longer than that.
Covers(m, age) == worker[m].stage # "none" /\ over[m] <= age

\* A match is over since its worker was done, not before.
CountsFromEnd == \A m \in Match : worker[m].stage # "over" => over[m] = 0

\* The report in the row, a post that is late, and a mark not yet written.
LiveCovers == live # NoLive => Covers(live.match, live.age)

LateCovers == late # NoPost /\ late.post \in {"playing", "ended"} => Covers(late.match, late.age)

MarkCovers ==
  \A r \in Request :
    At(r, "mark") => request[r].match \in Match /\ Covers(request[r].match, request[r].age)

IInv ==
  /\ TypeOK
  /\ CountsFromEnd
  /\ LiveCovers
  /\ LateCovers
  /\ MarkCovers

\* Ages are numbers, and what is older stays so.
LEMMA Ages ==
  /\ Old \in Nat /\ Age \subseteq Nat /\ 0 \in Age
  /\ \A age \in Age : Older(age) \in Age /\ age <= Older(age)
  /\ \A a, b \in Age : a <= b => Older(a) <= Older(b)
BY PlayAssumption DEF Old, Age, Older

\* At first nothing is reported.
LEMMA Initially == Init => IInv
<1> SUFFICES ASSUME Init PROVE IInv
  OBVIOUS
<1>1. TypeOK
  BY Ages DEF Init, TypeOK, MatchOrNone, Stage
<1>2. CountsFromEnd /\ LiveCovers /\ LateCovers /\ MarkCovers
  BY DEF Init, CountsFromEnd, LiveCovers, LateCovers, MarkCovers, At
<1> QED
  BY <1>1, <1>2 DEF IInv

\* A handler's next step: what it is to mark must be covered.
LEMMA NewRequest ==
  ASSUME IInv, NEW r \in Request, NEW q \in Pending \cup {Idle},
         request' = [request EXCEPT ![r] = q],
         \A m \in Match : worker'[m].stage = "none" => worker[m].stage = "none",
         UNCHANGED over,
         q # Idle /\ q.stage = "mark" => q.match \in Match /\ Covers(q.match, q.age)'
  PROVE  request' \in [Request -> Pending \cup {Idle}] /\ MarkCovers'
<1>1. request' \in [Request -> Pending \cup {Idle}]
  BY DEF IInv, TypeOK
<1>2. MarkCovers'
  <2> SUFFICES ASSUME NEW s \in Request, At(s, "mark")'
               PROVE  request'[s].match \in Match
                      /\ Covers(request[s].match, request[s].age)'
    BY DEF MarkCovers
  <2>1. CASE s = r
    BY <2>1 DEF IInv, TypeOK, At, Covers
  <2>2. CASE s # r
    BY <2>2 DEF IInv, TypeOK, At, MarkCovers, Covers
  <2> QED
    BY <2>1, <2>2
<1> QED
  BY <1>1, <1>2

\* A handler's step that starts no match and reports none: it may read the row,
\* write the active match, or clear the live one.
Quiet(r, q) ==
  /\ q \in Pending \cup {Idle}
  /\ request' = [request EXCEPT ![r] = q]
  /\ q # Idle /\ q.stage = "mark" =>
       At(r, "mark") /\ q.match = request[r].match /\ q.age = request[r].age
  /\ live' \in {live, NoLive}
  /\ active' \in MatchOrNone
  /\ UNCHANGED <<clearing, worker, late, over>>

\* Such a step changes no report but to take it back.
LEMMA QuietStep ==
  ASSUME IInv, NEW r \in Request, NEW q, Quiet(r, q)
  PROVE  IInv'
<1>1. q # Idle /\ q.stage = "mark" => q.match \in Match /\ Covers(q.match, q.age)'
  BY DEF Quiet, IInv, MarkCovers, At, Covers
<1>2. request' \in [Request -> Pending \cup {Idle}] /\ MarkCovers'
  <2>1. \A m \in Match : worker'[m].stage = "none" => worker[m].stage = "none"
    BY DEF Quiet
  <2> QED
    BY <1>1, <2>1, NewRequest DEF Quiet
<1>3. CountsFromEnd' /\ LateCovers'
  BY DEF Quiet, IInv, CountsFromEnd, LateCovers, Covers
<1>4. LiveCovers'
  BY DEF Quiet, IInv, LiveCovers, Covers
<1>5. TypeOK'
  BY <1>2 DEF Quiet, IInv, TypeOK
<1> QED
  BY <1>2, <1>3, <1>4, <1>5 DEF IInv

\* Every handler's step.
LEMMA HandlerStep ==
  ASSUME IInv, NEW r \in Request, RequestStep(r)
  PROVE  IInv'
<1> USE DEF IInv, TypeOK
<1>1. request[r] = Idle \/ request[r] \in Pending
  OBVIOUS
<1>2. CASE BeginPlay(r)
  <2> DEFINE q == [kind |-> "play", stage |-> "look", todo |-> {"live", "active"},
                   match |-> NoMatch, age |-> 0]
  <2>1. Quiet(r, q)
    BY <1>2, Ages DEF Quiet, BeginPlay, Pending, MatchOrNone
  <2> QED
    BY ONLY <2>1, IInv, r \in Request, QuietStep
<1>3. CASE BeginStop(r)
  <2> DEFINE q == [kind |-> "stop", stage |-> "unset", todo |-> {}, match |-> NoMatch, age |-> 0]
  <2>1. Quiet(r, q)
    BY <1>3, Ages DEF Quiet, BeginStop, Pending, MatchOrNone
  <2> QED
    BY <2>1, QuietStep
<1>4. CASE Refuse(r)
  <2>1. Quiet(r, Idle)
    BY <1>4 DEF Quiet, Refuse, Reply
  <2> QED
    BY <2>1, QuietStep
<1>5. ASSUME NEW field \in {"live", "active"}, NEW m \in MatchOrNone,
             NEW more \in SUBSET {"clear"}, See(r, field, m, more),
             UNCHANGED <<live, active, clearing, worker, late, over>>
      PROVE  IInv'
  <2>1. request[r] \in Pending /\ request[r].stage = "look"
    BY <1>5, <1>1 DEF See, At
  <2>2. PICK q \in Pending \cup {Idle} :
          request' = [request EXCEPT ![r] = q] /\ (q # Idle => q.stage = "look")
    BY <1>5, <2>1 DEF See, Reply, Pending, MatchOrNone
  <2>3. Quiet(r, q)
    BY <1>5, <2>2 DEF Quiet
  <2> QED
    BY <2>3, QuietStep
<1>6. CASE ClearStale(r)
  <2> DEFINE q == [request[r] EXCEPT !.todo = @ \ {"clear"}]
  <2>1. Quiet(r, q)
    BY <1>1, <1>6 DEF Quiet, ClearStale, At, Pending
  <2> QED
    BY <2>1, QuietStep
<1>7. CASE UnsetActive(r)
  <2> DEFINE q == [request[r] EXCEPT !.stage = "unlive"]
  <2>1. Quiet(r, q)
    BY <1>1, <1>7 DEF Quiet, UnsetActive, At, Goto, Pending, MatchOrNone
  <2> QED
    BY <2>1, QuietStep
<1>8. CASE ClearLive(r)
  <2> DEFINE q == IF request[r].kind = "play" THEN [request[r] EXCEPT !.stage = "start"] ELSE Idle
  <2>1. Quiet(r, q)
    BY <1>1, <1>8 DEF Quiet, ClearLive, At, Goto, Reply, Pending
  <2> QED
    BY <2>1, QuietStep
<1>9. CASE MarkActive(r)
  <2> DEFINE q == IF request[r].todo = {"active"} THEN Idle
                  ELSE [request[r] EXCEPT !.todo = @ \ {"active"}]
  <2>1. Quiet(r, q)
    BY <1>1, <1>9 DEF Quiet, MarkActive, Marked, At, Reply, Pending
  <2> QED
    BY <2>1, QuietStep
<1>10. CASE ReadLive(r)
  <2>1. Playing \in MatchOrNone
    BY DEF Playing, Live, MatchOrNone
  <2> QED
    BY <1>5, <1>10, <2>1 DEF ReadLive
<1>11. CASE ReadActive(r)
  BY <1>5, <1>11 DEF ReadActive
<1>12. ASSUME NEW m \in Match, StartMatch(r, m)
       PROVE  IInv'
  <2>1. PICK q \in Pending :
          /\ q.stage = "mark" /\ q.match = m /\ q.age = 0
          /\ request' = [request EXCEPT ![r] = q]
    <3> DEFINE q == [request[r] EXCEPT !.stage = "mark", !.todo = {"live", "active"},
                                       !.match = m, !.age = 0]
    <3>1. request[r] \in Pending
      BY <1>1, <1>12 DEF StartMatch, At
    <3>2. q \in Pending /\ q.stage = "mark" /\ q.match = m /\ q.age = 0
      BY <3>1, Ages DEF Pending, MatchOrNone
    <3>3. request' = [request EXCEPT ![r] = q]
      BY <1>12 DEF StartMatch
    <3> QED
      BY <3>2, <3>3
  <2>2. /\ worker[m].stage = "none"
        /\ worker' = [worker EXCEPT ![m].stage = "throw"]
        /\ UNCHANGED <<live, active, clearing, late, over>>
    BY <1>12 DEF StartMatch, Match
  <2>3. worker' \in [Match -> [stage : Stage, age : Age]]
    BY <2>2 DEF Stage
  <2>4. over[m] = 0 /\ worker'[m].stage = "throw"
    BY <2>2, <2>3 DEF CountsFromEnd
  <2>5. \A n \in Match : worker'[n].stage = "none" => worker[n].stage = "none"
    BY <2>2
  <2>6. request' \in [Request -> Pending \cup {Idle}] /\ MarkCovers'
    <3>1. Covers(q.match, q.age)'
      BY <2>1, <2>2, <2>4 DEF Covers
    <3> HIDE DEF IInv
    <3> QED
      BY <2>1, <2>2, <2>5, <3>1, NewRequest
  <2>7. CountsFromEnd'
    BY <2>2, <2>4 DEF CountsFromEnd
  <2>8. LiveCovers' /\ LateCovers'
    BY <2>2, <2>5 DEF LiveCovers, LateCovers, Covers, Live
  <2> QED
    BY <2>2, <2>3, <2>6, <2>7, <2>8
<1>13. CASE MarkLive(r)
  <2>1. request[r] \in Pending /\ request[r].stage = "mark" /\ At(r, "mark")
    BY <1>1, <1>13 DEF MarkLive, Marked, At
  <2>2. PICK q \in Pending \cup {Idle} :
          /\ request' = [request EXCEPT ![r] = q]
          /\ q # Idle => q.match = request[r].match /\ q.age = request[r].age
          /\ UNCHANGED <<active, clearing, worker, late, over>>
    BY <1>13, <2>1 DEF MarkLive, Marked, Reply, Pending
  <2>3. request[r].match \in Match /\ Covers(request[r].match, request[r].age)
    BY <2>1 DEF MarkCovers
  <2>4. request' \in [Request -> Pending \cup {Idle}] /\ MarkCovers'
    <3>1. /\ q # Idle /\ q.stage = "mark" => q.match \in Match /\ Covers(q.match, q.age)'
          /\ \A m \in Match : worker'[m].stage = "none" => worker[m].stage = "none"
      BY <2>2, <2>3 DEF Covers
    <3> HIDE DEF IInv
    <3> QED
      BY <2>2, <3>1, NewRequest
  <2>5. /\ live' \in Live
        /\ live'.match = request[r].match /\ live'.age = request[r].age
    BY <1>13, <2>1, <2>3 DEF MarkLive, Live, Phase, Pending
  <2>6. LiveCovers' /\ LateCovers' /\ CountsFromEnd'
    BY <2>2, <2>3, <2>5 DEF LiveCovers, LateCovers, CountsFromEnd, Covers
  <2> QED
    BY <2>2, <2>4, <2>5, <2>6
<1> QED
  BY <1>2, <1>3, <1>4, <1>6, <1>7, <1>8, <1>9, <1>10, <1>11, <1>12, <1>13 DEF RequestStep

\* The clearing of a stale live match by any other reader.
LEMMA PollKeeps ==
  ASSUME IInv, PollStale \/ PollClear
  PROVE  IInv'
BY DEF PollStale, PollClear, IInv, TypeOK, CountsFromEnd, LiveCovers, LateCovers, MarkCovers,
       Covers, At

\* A worker that goes on, its report delivered, lost or late: until its end
\* its match is not over, and what it reports is covered.
LEMMA WorkerGoesOn ==
  ASSUME IInv, NEW m \in Match, worker[m].stage \notin {"none", "over"},
         NEW stage \in Stage \ {"none"}, worker' = [worker EXCEPT ![m] = [stage |-> stage, age |-> 0]],
         UNCHANGED <<request, clearing, over>>
  PROVE  /\ worker' \in [Match -> [stage : Stage, age : Age]]
         /\ CountsFromEnd'
         /\ MarkCovers'
         /\ \A n \in Match, age \in Age : Covers(n, age) => Covers(n, age)'
         /\ \A age \in Age : Covers(m, age)'
<1> USE DEF IInv, TypeOK
<1>1. worker' \in [Match -> [stage : Stage, age : Age]]
  BY Ages
<1>2. over[m] = 0
  BY DEF CountsFromEnd
<1>3. \A n \in Match : worker[n].stage # "none" => worker'[n].stage # "none"
  OBVIOUS
<1>4. CountsFromEnd'
  BY <1>2 DEF CountsFromEnd
<1>5. MarkCovers'
  BY <1>3 DEF MarkCovers, Covers, At
<1> QED
  BY <1>1, <1>2, <1>3, <1>4, <1>5, Ages DEF Covers

\* Every step of a worker.
LEMMA WorkerKeeps ==
  ASSUME IInv, NEW m \in Match, WorkerStep(m)
  PROVE  IInv'
<1> USE DEF IInv, TypeOK
<1>1. CASE Throw(m) \/ LastThrow(m) \/ Die(m)
  <2>1. PICK stage \in {"playing", "ended", "end", "over"} :
          /\ worker' = [worker EXCEPT ![m] = [stage |-> stage, age |-> 0]]
          /\ worker[m].stage \notin {"none", "over"}
          /\ UNCHANGED <<live, active, request, clearing, late, over>>
    BY <1>1 DEF Throw, LastThrow, Die
  <2>2. stage \in Stage \ {"none"}
    BY DEF Stage, Post
  <2>3. /\ worker' \in [Match -> [stage : Stage, age : Age]]
        /\ CountsFromEnd' /\ MarkCovers'
        /\ \A n \in Match, age \in Age : Covers(n, age) => Covers(n, age)'
    BY <2>1, <2>2, WorkerGoesOn
  <2>4. LiveCovers' /\ LateCovers'
    BY <2>1, <2>3 DEF LiveCovers, LateCovers, Live, Covers
  <2> QED
    BY <2>1, <2>3, <2>4
<1>2. ASSUME worker[m].stage \in Post, Continue(m), UNCHANGED <<request, clearing, over>>
      PROVE  /\ worker' \in [Match -> [stage : Stage, age : Age]]
             /\ CountsFromEnd' /\ MarkCovers'
             /\ \A n \in Match, age \in Age : Covers(n, age) => Covers(n, age)'
             /\ \A age \in Age : Covers(m, age)'
  <2>1. PICK stage \in {"throw", "end", "clear", "over"} :
          worker' = [worker EXCEPT ![m] = [stage |-> stage, age |-> 0]]
    BY <1>2 DEF Continue, Post
  <2>2. stage \in Stage \ {"none"} /\ worker[m].stage \notin {"none", "over"}
    BY <1>2 DEF Stage, Post
  <2> QED
    BY <1>2, <2>1, <2>2, WorkerGoesOn
<1>3. CASE Lose(m)
  <2>1. LiveCovers' /\ LateCovers'
    BY <1>2, <1>3 DEF Lose, LiveCovers, LateCovers, Live
  <2> QED
    BY <1>2, <1>3, <2>1 DEF Lose
<1>4. CASE Deliver(m)
  <2>1. /\ live' \in {live, NoLive, [match |-> m, phase |-> "playing", age |-> worker[m].age],
                      [match |-> m, phase |-> "ended", age |-> worker[m].age]}
        /\ active' \in {active, NoMatch}
        /\ UNCHANGED late
    BY <1>4 DEF Deliver, Apply, Post
  <2>2. live' \in Live \cup {NoLive} /\ active' \in MatchOrNone
    BY <2>1 DEF Live, Phase, MatchOrNone
  <2>3. LiveCovers'
    BY <1>2, <1>4, <2>1 DEF Deliver, LiveCovers, Live
  <2>4. LateCovers'
    BY <1>2, <1>4, <2>1 DEF Deliver, LateCovers
  <2> QED
    BY <1>2, <1>4, <2>1, <2>2, <2>3, <2>4 DEF Deliver
<1>5. CASE GiveUp(m)
  <2>1. late' \in [post : Post, match : Match, age : Age] /\ late'.match = m
    BY <1>5 DEF GiveUp
  <2>2. LateCovers' /\ LiveCovers'
    BY <1>2, <1>5, <2>1 DEF GiveUp, LateCovers, LiveCovers, Live
  <2> QED
    BY <1>2, <1>5, <2>1, <2>2 DEF GiveUp
<1> QED
  BY <1>1, <1>3, <1>4, <1>5 DEF WorkerStep, Settle

\* A late report is as old as it says.
LEMMA LateKeeps ==
  ASSUME IInv, DeliverLate
  PROVE  IInv'
<1> USE DEF IInv, TypeOK
<1>1. late \in [post : Post, match : Match, age : Age]
  BY DEF DeliverLate
<1>2. /\ live' \in {live, NoLive} \/
           (late.post \in {"playing", "ended"} /\
            live' = [match |-> late.match, phase |-> late.post, age |-> late.age])
      /\ active' \in {active, NoMatch}
      /\ late' = NoPost
      /\ UNCHANGED <<request, clearing, worker, over>>
  BY DEF DeliverLate, Apply
<1>3. live' \in Live \cup {NoLive} /\ active' \in MatchOrNone
  BY <1>1, <1>2 DEF Live, Phase, MatchOrNone
<1>4. LiveCovers' /\ LateCovers'
  BY <1>1, <1>2 DEF LiveCovers, LateCovers, Covers, DeliverLate
<1>5. CountsFromEnd' /\ MarkCovers'
  BY <1>2 DEF CountsFromEnd, MarkCovers, Covers, At
<1> QED
  BY <1>2, <1>3, <1>4, <1>5

\* A tick ages every report with the end it is compared with.
LEMMA TickKeeps ==
  ASSUME IInv, Tick
  PROVE  IInv'
<1> USE DEF IInv, TypeOK
<1>1. /\ \A m \in Match : worker'[m].stage = worker[m].stage
      /\ worker' \in [Match -> [stage : Stage, age : Age]]
  BY Ages DEF Tick
<1>2. /\ over' \in [Match -> Age]
      /\ \A m \in Match : over'[m] \in {over[m], Older(over[m])}
      /\ \A m \in Match : worker[m].stage # "over" => over'[m] = over[m]
  BY Ages DEF Tick
<1>3. CountsFromEnd'
  BY <1>1, <1>2 DEF CountsFromEnd
<1>4. \A m \in Match, age \in Age : Covers(m, age) => Covers(m, Older(age))'
  <2> SUFFICES ASSUME NEW m \in Match, NEW age \in Age, Covers(m, age)
               PROVE  worker'[m].stage # "none" /\ over'[m] <= Older(age)
    BY DEF Covers
  <2>1. over[m] \in Age /\ over[m] <= age
    BY DEF Covers
  <2>2. over[m] <= Older(age) /\ Older(over[m]) <= Older(age)
    <3>1. age \in Nat /\ over[m] \in Nat /\ Older(age) \in Nat /\ age <= Older(age)
      BY <2>1, Ages
    <3> QED
      BY <2>1, <3>1, Ages
  <2>3. over'[m] \in {over[m], Older(over[m])}
    BY <1>2
  <2> QED
    BY <1>1, <2>2, <2>3 DEF Covers
<1>5. \/ live = NoLive /\ live' = NoLive
      \/ /\ live' \in Live
         /\ live # NoLive /\ live'.match = live.match /\ live'.age = Older(live.age)
  BY Ages DEF Tick, Live
<1>6. LiveCovers'
  BY <1>4, <1>5 DEF LiveCovers, Live
<1>7. \/ late = NoPost /\ late' = NoPost
      \/ /\ late' \in [post : Post, match : Match, age : Age]
         /\ late # NoPost /\ late'.post = late.post
         /\ late'.match = late.match /\ late'.age = Older(late.age)
  BY Ages DEF Tick
<1>8. LateCovers'
  BY <1>4, <1>7 DEF LateCovers
<1>9. \A r \in Request :
        \/ ~ At(r, "mark") /\ request'[r] = request[r]
        \/ /\ At(r, "mark") /\ request'[r] \in Pending /\ request'[r].match = request[r].match
           /\ request'[r].age = Older(request[r].age)
  BY Ages DEF Tick, At, Pending
<1>10. request' \in [Request -> Pending \cup {Idle}]
  BY <1>9 DEF Tick
<1>11. MarkCovers'
  BY <1>4, <1>9 DEF MarkCovers, At, Pending
<1> QED
  BY <1>1, <1>2, <1>3, <1>5, <1>6, <1>7, <1>8, <1>10, <1>11 DEF Tick

\* Every reachable state satisfies IInv.
THEOREM Invariance == Spec => []IInv
<1>1. IInv /\ [Next]_vars => IInv'
  <2>1. ASSUME IInv, UNCHANGED vars
        PROVE  IInv'
    BY <2>1 DEF vars, IInv, TypeOK, CountsFromEnd, LiveCovers, LateCovers, MarkCovers, Covers, At
  <2> QED
    BY <2>1, HandlerStep, PollKeeps, WorkerKeeps, LateKeeps, TickKeeps DEF Next
<1> QED
  BY Initially, <1>1, PTL DEF Spec

\* The row, the handlers, the workers and their posts keep their types.
THEOREM TypeCorrect == Spec => []TypeOK
<1>1. IInv => TypeOK
  BY DEF IInv
<1> QED
  BY <1>1, Invariance, PTL

\* AGENT_BUSY is said of a match that is being played, or was no longer ago
\* than a live match is believed.
THEOREM BusyRecent == Spec => []BusyIsRecent
<1>1. IInv => BusyIsRecent
  <2> SUFFICES ASSUME IInv, NEW m \in Match, Busy(m)
               PROVE  InFlight(m) \/ (worker[m].stage = "over" /\ over[m] <= StalePlaying)
    BY DEF BusyIsRecent
  <2>1. m # NoMatch
    BY DEF Match, NoMatch
  <2>2. live # NoLive /\ live.phase # "ended" /\ ~ Stale /\ live.match = m
    BY <2>1 DEF Busy, Playing
  <2>3. live.age \in Nat /\ over[m] \in Nat /\ StalePlaying \in Nat
    BY <2>2, Ages, PlayAssumption DEF IInv, TypeOK, Live
  <2>4. live.age <= StalePlaying
    BY <2>2, <2>3 DEF Stale
  <2>5. worker[m].stage # "none" /\ over[m] <= live.age
    BY <2>2 DEF IInv, LiveCovers, Covers
  <2> QED
    BY <2>3, <2>4, <2>5 DEF InFlight
<1> QED
  BY <1>1, Invariance, PTL

=============================================================================
