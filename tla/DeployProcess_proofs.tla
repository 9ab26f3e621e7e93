------------------------ MODULE DeployProcess_proofs ------------------------
(***************************************************************************)
(* No agent runs that nobody ever vouched for, for any number of requests. *)
(* A process comes online in two ways: a start, past its check, and a      *)
(* reload, which trusts the list.  So as long as nobody has vouched, no    *)
(* start is past its check, and neither PM2 nor the list, which only       *)
(* copies what PM2 had at some time, has the process online.               *)
(***************************************************************************)
EXTENDS DeployProcess, TLAPS

\* Nobody vouched yet, and nothing that needs it has happened.
Unvouched ==
  vouched = "never" =>
    /\ status # "running"
    /\ process # "online"
    /\ list.view # "online"
    /\ \A r \in Handler :
         handler[r] # Idle /\ handler[r].kind = "start" => handler[r].stage = "check"

IInv == TypeOK /\ Unvouched

\* A look at the list is a view of it, and the list stays one.
LEMMA LookSound ==
  ASSUME TypeOK, NEW s \in Process, Look(s)
  PROVE  /\ list' \in [view : Process, fresh : BOOLEAN]
         /\ list.view # "online" /\ process # "online" =>
              s # "online" /\ list'.view # "online"
<1>1. list \in [view : Process, fresh : BOOLEAN] /\ process \in Process
  BY DEF TypeOK
<1>2. CASE s = list.view /\ UNCHANGED list
  BY <1>1, <1>2
<1>3. CASE s = process /\ list' = [view |-> process, fresh |-> TRUE]
  BY <1>1, <1>3
<1> QED
  BY <1>2, <1>3 DEF Look

\* pm2 stop keeps the type of a process and brings none online.
LEMMA StopSound ==
  ASSUME TypeOK, Pm2Stop
  PROVE  process' \in Process /\ (process # "online" => process' # "online")
BY DEF TypeOK, Pm2Stop, Process

\* A handler moved on or ended keeps the type of all.
LEMMA HandlerMoves ==
  ASSUME TypeOK, NEW r \in Handler, handler[r] # Idle,
         NEW stage \in {"check", "act", "write"},
         Goto(r, stage) \/ Reply(r)
  PROVE  handler' \in [Handler -> Pending \cup {Idle}]
<1>1. handler[r] \in Pending
  BY DEF TypeOK
<1>2. CASE Goto(r, stage)
  <2>1. [handler[r] EXCEPT !.stage = stage] \in Pending
    BY <1>1 DEF Pending
  <2> QED
    BY <1>2, <2>1 DEF TypeOK, Goto
<1>3. CASE Reply(r)
  BY <1>3 DEF TypeOK, Reply
<1> QED
  BY <1>2, <1>3

\* Every handler but a start past its check keeps what holds of the unvouched.
LEMMA HandlersKeep ==
  ASSUME IInv, vouched = "never", NEW r \in Handler, handler[r] # Idle,
         NEW stage \in {"check", "act", "write"},
         handler[r].kind # "start" \/ stage = "check",
         Goto(r, stage) \/ Reply(r)
  PROVE  \A q \in Handler :
           handler'[q] # Idle /\ handler'[q].kind = "start" => handler'[q].stage = "check"
<1>1. handler[r] \in Pending
  BY DEF IInv, TypeOK
<1>2. CASE Goto(r, stage)
  BY <1>1, <1>2 DEF IInv, TypeOK, Unvouched, Goto, Pending, Idle
<1>3. CASE Reply(r)
  BY <1>3 DEF IInv, TypeOK, Unvouched, Reply
<1> QED
  BY <1>2, <1>3

LEMMA InitIInv == Init => IInv
<1> SUFFICES ASSUME Init PROVE IInv
  OBVIOUS
<1>1. handler \in [Handler -> Pending \cup {Idle}]
  BY DEF Init
<1>2. list \in [view : Process, fresh : BOOLEAN] /\ list.view = "absent"
  BY DEF Init, Unlisted, Process
<1>3. TypeOK
  BY <1>1, <1>2 DEF Init, TypeOK, Status, Process, Vouching
<1>4. \A r \in Handler : handler[r] = Idle
  BY DEF Init
<1>5. Unvouched
  BY <1>2, <1>4 DEF Init, Unvouched
<1> QED
  BY <1>3, <1>5 DEF IInv

LEMMA BeginIInv ==
  ASSUME IInv, NEW r \in Handler, NEW kind \in {"stop", "start", "config", "ready", "cap"},
         NEW stage \in {"check", "act"}, kind = "start" => stage = "check",
         Begin(r, kind, stage)
  PROVE  IInv'
<1>1. PICK line \in {FALSE, logged} :
        handler' = [handler EXCEPT ![r] =
          [kind |-> kind, stage |-> stage, seen |-> status,
           line |-> kind = "cap" /\ r # Sweep /\ line]]
  BY DEF Begin
<1>2. PICK b \in BOOLEAN : b = (kind = "cap" /\ r # Sweep /\ line)
  OBVIOUS
<1>3. [kind |-> kind, stage |-> stage, seen |-> status, line |-> b] \in Pending
  BY <1>2 DEF IInv, TypeOK, Pending
<1>4. handler' \in [Handler -> Pending \cup {Idle}]
  BY <1>1, <1>2, <1>3 DEF IInv, TypeOK
<1>5. TypeOK'
  BY <1>4 DEF IInv, TypeOK, Begin, world
<1>6. Unvouched'
  BY <1>1 DEF IInv, TypeOK, Unvouched, Begin, world
<1> QED
  BY <1>5, <1>6 DEF IInv

LEMMA HandlerStepIInv ==
  ASSUME IInv, NEW r \in Handler, HandlerStep(r)
  PROVE  IInv'
<1>1. CASE StopProcess(r)
  <2>1. handler' \in [Handler -> Pending \cup {Idle}]
    BY <1>1, HandlerMoves DEF IInv, StopProcess, At
  <2>2. TypeOK'
    BY <1>1, <2>1, StopSound DEF IInv, TypeOK, StopProcess, world
  <2>3. Unvouched'
    BY <1>1, HandlersKeep, StopSound DEF IInv, Unvouched, StopProcess, At, world
  <2> QED
    BY <2>2, <2>3 DEF IInv
<1>2. CASE CheckVouched(r)
  <2>1. handler' \in [Handler -> Pending \cup {Idle}]
    BY <1>2, HandlerMoves DEF IInv, CheckVouched, At
  <2> QED
    BY <1>2, <2>1 DEF IInv, TypeOK, Unvouched, CheckVouched, world
<1>3. CASE StartProcess(r)
  <2>1. PICK s \in Process : Look(s)
    BY <1>3 DEF StartProcess
  <2>2. handler' \in [Handler -> Pending \cup {Idle}]
    BY <1>3, HandlerMoves DEF IInv, StartProcess, At
  <2>3. TypeOK'
    BY <1>3, <2>1, <2>2, LookSound DEF IInv, TypeOK, StartProcess, Process, world
  <2>4. vouched # "never"
    BY <1>3 DEF IInv, Unvouched, StartProcess, At
  <2> QED
    BY <1>3, <2>3, <2>4 DEF IInv, Unvouched, StartProcess, world
<1>4. CASE Reload(r)
  <2>1. PICK s \in Process :
          /\ Look(s)
          /\ \/ s # "online" /\ UNCHANGED process
             \/ s = "online" /\ process' = "online"
             \/ s = "online" /\ CommandFails /\ process' = "absent"
    BY <1>4 DEF Reload
  <2>2. handler' \in [Handler -> Pending \cup {Idle}]
    BY <1>4, HandlerMoves DEF IInv, Reload, At
  <2>3. TypeOK'
    BY <1>4, <2>1, <2>2, LookSound DEF IInv, TypeOK, Reload, Process, world
  <2>4. Unvouched'
    BY <1>4, <2>1, LookSound, HandlersKeep DEF IInv, Unvouched, Reload, At, world
  <2> QED
    BY <2>3, <2>4 DEF IInv
<1>5. CASE StopAutopilot(r)
  <2>1. handler' \in [Handler -> Pending \cup {Idle}]
    BY <1>5, HandlerMoves DEF IInv, StopAutopilot, At
  <2>2. /\ list' \in [view : Process, fresh : BOOLEAN]
        /\ process' \in Process
        /\ list.view # "online" /\ process # "online" =>
             process' # "online" /\ list'.view # "online"
    BY <1>5, LookSound, StopSound DEF IInv, TypeOK, StopAutopilot
  <2>3. TypeOK'
    BY <1>5, <2>1, <2>2 DEF IInv, TypeOK, StopAutopilot, world
  <2>4. Unvouched'
    BY <1>5, <2>2, HandlersKeep DEF IInv, Unvouched, StopAutopilot, At, world
  <2> QED
    BY <2>3, <2>4 DEF IInv
<1>6. CASE EnforceCap(r)
  <2>1. handler' \in [Handler -> Pending \cup {Idle}]
    BY <1>6, HandlerMoves DEF IInv, EnforceCap, At
  <2>2. /\ list' \in [view : Process, fresh : BOOLEAN]
        /\ process' \in Process
        /\ list.view # "online" /\ process # "online" =>
             process' # "online" /\ list'.view # "online"
    BY <1>6, LookSound, StopSound DEF IInv, TypeOK, EnforceCap
  <2>3. TypeOK'
    BY <1>6, <2>1, <2>2 DEF IInv, TypeOK, EnforceCap, world
  <2>4. Unvouched'
    BY <1>6, <2>2, HandlersKeep DEF IInv, Unvouched, EnforceCap, At, world
  <2> QED
    BY <2>3, <2>4 DEF IInv
<1>7. CASE WriteStatus(r)
  <2>1. handler' \in [Handler -> Pending \cup {Idle}]
    BY <1>7, HandlerMoves DEF IInv, WriteStatus
  <2>2. TypeOK'
    BY <1>7, <2>1 DEF IInv, TypeOK, WriteStatus, Status, world
  <2>3. Unvouched'
    BY <1>7, HandlersKeep DEF IInv, Unvouched, WriteStatus, world
  <2> QED
    BY <2>2, <2>3 DEF IInv
<1> QED
  BY <1>1, <1>2, <1>3, <1>4, <1>5, <1>6, <1>7 DEF HandlerStep

LEMMA RefuseIInv ==
  ASSUME IInv, NEW r \in Handler, Refuse(r)
  PROVE  IInv'
<1>1. handler' \in [Handler -> Pending \cup {Idle}]
  BY HandlerMoves DEF IInv, Refuse
<1>2. TypeOK'
  BY <1>1 DEF IInv, TypeOK, Refuse, world
<1>3. Unvouched'
  BY HandlersKeep DEF IInv, Unvouched, Refuse, world
<1> QED
  BY <1>2, <1>3 DEF IInv

LEMMA NextIInv == IInv /\ [Next]_vars => IInv'
<1> SUFFICES ASSUME IInv, [Next]_vars PROVE IInv'
  OBVIOUS
<1>1. ASSUME NEW r \in Request, RequestStep(r) PROVE IInv'
  <2>0. r \in Handler
    BY DEF Handler
  <2>1. CASE \E kind \in {"stop", "config", "ready"} : Begin(r, kind, "act")
    BY <2>0, <2>1, BeginIInv
  <2>2. CASE Begin(r, "start", "check")
    BY <2>0, <2>2, BeginIInv
  <2>3. CASE ReadToCap(r)
    BY <2>0, <2>3, BeginIInv DEF ReadToCap
  <2>4. CASE Refuse(r)
    BY <2>0, <2>4, RefuseIInv
  <2>5. CASE HandlerStep(r)
    BY <2>0, <2>5, HandlerStepIInv
  <2> QED
    BY <1>1, <2>1, <2>2, <2>3, <2>4, <2>5 DEF RequestStep
<1>2. CASE SweepStep
  <2>0. Sweep \in Handler
    BY DEF Handler
  <2>1. CASE ReadToCap(Sweep)
    BY <2>0, <2>1, BeginIInv DEF ReadToCap
  <2>2. CASE Refuse(Sweep)
    BY <2>0, <2>2, RefuseIInv
  <2>3. CASE HandlerStep(Sweep)
    BY <2>0, <2>3, HandlerStepIInv
  <2> QED
    BY <1>2, <2>1, <2>2, <2>3 DEF SweepStep
<1>3. CASE Peek
  BY <1>3, LookSound DEF IInv, TypeOK, Unvouched, Peek, world
<1>4. CASE Expire
  BY <1>4 DEF IInv, TypeOK, Unvouched, Expire, world
<1>5. CASE Restart
  BY <1>5, StopSound DEF IInv, TypeOK, Unvouched, Restart, Unlisted, Process, world
<1>6. CASE ReachCap
  BY <1>6 DEF IInv, TypeOK, Unvouched, ReachCap
<1>7. CASE RollLog
  BY <1>7 DEF IInv, TypeOK, Unvouched, RollLog
<1>8. CASE NewDay
  BY <1>8 DEF IInv, TypeOK, Unvouched, NewDay
<1>9. CASE Exit
  BY <1>9 DEF IInv, TypeOK, Unvouched, Exit, Process, world
<1>10. CASE Vouch
  BY <1>10 DEF IInv, TypeOK, Unvouched, Vouch, Vouching
<1>11. CASE UNCHANGED vars
  BY <1>11 DEF IInv, TypeOK, Unvouched, vars
<1> QED
  BY <1>1, <1>2, <1>3, <1>4, <1>5, <1>6, <1>7, <1>8, <1>9, <1>10, <1>11 DEF Next

THEOREM SpecIInv == Spec => []IInv
BY InitIInv, NextIInv, PTL DEF Spec

\* The row, the process, the list and the handlers keep their types.
THEOREM TypeCorrect == Spec => []TypeOK
<1>1. IInv => TypeOK
  BY DEF IInv
<1> QED
  BY <1>1, SpecIInv, PTL

\* Nothing runs, or is shown as running, that no owner ever vouched for,
\* however its starts, stops, reloads and pauses overlap and PM2 fails.
THEOREM OnlyVouchedRuns == Spec => []RunsOnlyVouched
<1>1. IInv => RunsOnlyVouched
  BY DEF IInv, Unvouched, RunsOnlyVouched
<1> QED
  BY <1>1, SpecIInv, PTL

=============================================================================
