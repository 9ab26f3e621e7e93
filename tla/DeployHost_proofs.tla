-------------------------- MODULE DeployHost_proofs --------------------------
(***************************************************************************)
(* Wallets stay apart for any number of deploys, requests and pipelines.   *)
(* The argument is about the wallets the running host knows of: those in   *)
(* the table, and those that handlers and pipelines carry from an earlier  *)
(* look at it.  Until a pipeline allocates, all of them are in the table,  *)
(* and its maximum is above them; from then on the file is.                *)
(***************************************************************************)
EXTENDS DeployHost, TLAPS

\* Wallet w is, or was when somebody looked, the wallet of deploy d.
Knows(w, d) ==
  \/ row[d].wallet = w
  \/ \E r \in Request : request[r] # Idle /\ request[r].deploy = d /\ request[r].wallet = w
  \/ \E q \in Pipe : pipe[q] # Idle /\ pipe[q].deploy = d /\ pipe[q].wallet = w

Owned ==
  \A w \in Wallet, d, e \in Deploy : Knows(w, d) /\ Knows(w, e) => d = e

\* Nothing was allocated since the host started.
Settled == \A w \in Wallet, d \in Deploy : Knows(w, d) => row[d].wallet = w

BelowFile == \A w \in Wallet, d \in Deploy : Knows(w, d) => w < walletIndex

Below(n) == \A w \in Wallet, d \in Deploy : Knows(w, d) => w < n

Allocates(q) == pipe[q].stage \in {"mark", "allocate"} /\ pipe[q].wallet = NoWallet

\* A deploy that is being started had a wallet, and a row never loses it.
StartsProvisioned ==
  \A r \in Request :
    request[r].stage \in {"start", "checked", "scheduled"} =>
      row[request[r].deploy].wallet # NoWallet

\* A step learns of no wallet, takes none from a row, leaves the file alone, and
\* lets no pipeline of P into the allocating stages.
Quiet(P) ==
  /\ walletIndex' = walletIndex
  /\ \A w \in Wallet, d \in Deploy : Knows(w, d)' => Knows(w, d)
  /\ \A d \in Deploy : row[d].wallet \in Wallet => row'[d].wallet \in Wallet
  /\ \A q \in P : Allocates(q)' => Allocates(q) /\ pipe'[q].min = pipe[q].min

IInv ==
  /\ TypeOK
  /\ Owned
  /\ Settled \/ BelowFile
  /\ \A q \in Pipe : Allocates(q) => BelowFile \/ Below(pipe[q].min)
  /\ StartsProvisioned
  /\ ReadyHasWallet

\* The table stays settled while nothing is learned.
LEMMA StaysSettled ==
  ASSUME Settled, NEW P, Quiet(P) PROVE Settled'
<1> SUFFICES ASSUME NEW w \in Wallet, NEW d \in Deploy, Knows(w, d)'
             PROVE  row'[d].wallet = w
  BY DEF Settled
<1>1. row[d].wallet = w
  BY DEF Quiet, Settled
<1>2. PICK v \in Wallet : row'[d].wallet = v
  BY <1>1 DEF Quiet
<1>3. Knows(v, d)'
  BY <1>2 DEF Knows
<1>4. Knows(v, d)
  BY <1>3 DEF Quiet
<1> QED
  BY <1>1, <1>2, <1>4 DEF Settled

\* A quiet step keeps what the invariant says of wallets.
LEMMA NothingNew ==
  ASSUME IInv, TypeOK', StartsProvisioned', ReadyHasWallet', Quiet(Pipe)
  PROVE  IInv'
<1> USE DEF Quiet
<1>1. Owned'
  BY DEF IInv, Owned
<1>2. BelowFile => BelowFile'
  BY DEF BelowFile
<1>3. ASSUME NEW q \in Pipe, Allocates(q)' PROVE BelowFile' \/ Below(pipe[q].min)'
  <2>1. BelowFile \/ Below(pipe[q].min)
    BY <1>3 DEF IInv
  <2>2. Below(pipe[q].min) => Below(pipe[q].min)'
    BY <1>3 DEF Below
  <2> QED
    BY <1>2, <2>1, <2>2
<1> QED
  BY <1>1, <1>2, <1>3, StaysSettled DEF IInv

\* What a handler or a pipeline is, when it is not idle.
LEMMA Shapes ==
  ASSUME TypeOK
  PROVE  /\ \A r \in Request : request[r].stage # "idle" => request[r] \in Pending
         /\ \A q \in Pipe : pipe[q].stage # "idle" => pipe[q] \in Working
         /\ \A r \in Request : request[r] \in Pending => request[r] # Idle
         /\ \A q \in Pipe : pipe[q] \in Working => pipe[q] # Idle
  BY DEF TypeOK, Idle, Pending, Working, Early, Late, Ending

\* A status written to a row disturbs nothing but the statuses.
LEMMA StatusOnly ==
  ASSUME IInv, NEW d \in Deploy, NEW status \in Status,
         WriteStatus(d, status),
         status \in {"installing", "awaiting_vouch", "running"} => row[d].wallet # NoWallet
  PROVE  /\ row' \in [Deploy -> Row \cup {NoRow}]
         /\ \A e \in Deploy : row'[e].wallet = row[e].wallet
         /\ ReadyHasWallet'
<1>1. row' = [row EXCEPT ![d].status = status]
  BY DEF WriteStatus
<1>2. row[d] \in Row \cup {NoRow}
  BY DEF IInv, TypeOK
<1>3. row'[d] = [status |-> status, wallet |-> row[d].wallet]
  BY <1>1, <1>2 DEF IInv, TypeOK, Row, NoRow
<1>4. row'[d] \in Row /\ row'[d].wallet = row[d].wallet /\ row'[d].status = status
  BY <1>2, <1>3 DEF Row, NoRow, WalletOrNone
<1>5. \A e \in Deploy \ {d} : row'[e] = row[e]
  BY <1>1 DEF IInv, TypeOK
<1> QED
  BY <1>1, <1>4, <1>5 DEF IInv, TypeOK, ReadyHasWallet

\* A wallet written to a row disturbs no other.
LEMMA WalletWritten ==
  ASSUME IInv, NEW d \in Deploy, NEW status \in Status, NEW w \in Wallet,
         WriteWallet(d, status, w)
  PROVE  /\ row' \in [Deploy -> Row \cup {NoRow}]
         /\ row'[d].wallet = w
         /\ \A e \in Deploy \ {d} : row'[e] = row[e]
         /\ ReadyHasWallet'
<1>1. row' = [row EXCEPT ![d] = [status |-> status, wallet |-> w]]
  BY DEF WriteWallet
<1>2. row'[d] = [status |-> status, wallet |-> w]
  BY <1>1 DEF IInv, TypeOK
<1>3. row'[d] \in Row
  BY <1>2 DEF Row, WalletOrNone
<1>4. w # NoWallet
  BY HostAssumption DEF Wallet, NoWallet
<1>5. \A e \in Deploy \ {d} : row'[e] = row[e]
  BY <1>1 DEF IInv, TypeOK
<1> QED
  BY <1>1, <1>2, <1>3, <1>4, <1>5 DEF IInv, TypeOK, ReadyHasWallet

\* A handler that ends, or stays as it is, while no wallet moves.
LEMMA RepliesKeep ==
  ASSUME IInv,
         row' \in [Deploy -> Row \cup {NoRow}],
         \A d \in Deploy : row'[d].wallet = row[d].wallet,
         ReadyHasWallet',
         UNCHANGED <<walletIndex, pipe>>,
         running' \subseteq Deploy,
         request' \in [Request -> Pending \cup {Idle}],
         \A r \in Request : request'[r] \in {request[r], Idle}
  PROVE  IInv' /\ Quiet(Pipe)
<1>1. TypeOK'
  BY DEF IInv, TypeOK
<1>2. \A w \in Wallet, d \in Deploy : Knows(w, d)' => Knows(w, d)
  BY DEF Knows
<1>3. \A q \in Pipe : Allocates(q)' => Allocates(q) /\ pipe'[q].min = pipe[q].min
  BY DEF Allocates
<1>4. Quiet(Pipe)
  BY <1>2, <1>3 DEF Quiet
<1>5. StartsProvisioned'
  <2> SUFFICES ASSUME NEW r \in Request,
                      request'[r].stage \in {"start", "checked", "scheduled"}
               PROVE  row'[request'[r].deploy].wallet # NoWallet
    BY DEF StartsProvisioned
  <2>1. request'[r] = request[r] /\ request[r] \in Pending
    BY Shapes DEF IInv, Idle
  <2>2. request[r].deploy \in Deploy
    BY <2>1 DEF Pending
  <2> QED
    BY <2>1, <2>2 DEF IInv, StartsProvisioned
<1> QED
  BY <1>1, <1>4, <1>5, NothingNew DEF IInv

\* The handlers that write a status and reply, and stop.
LEMMA StatusKeeps ==
  ASSUME IInv, NEW d \in Deploy, NEW status \in Status,
         WriteStatus(d, status),
         status \in {"installing", "awaiting_vouch", "running"} => row[d].wallet # NoWallet,
         UNCHANGED <<walletIndex, running, pipe>>,
         UNCHANGED request \/ \E r \in Request : Reply(r)
  PROVE  IInv' /\ Quiet(Pipe)
<1>1. /\ row' \in [Deploy -> Row \cup {NoRow}]
      /\ \A e \in Deploy : row'[e].wallet = row[e].wallet
      /\ ReadyHasWallet'
  BY StatusOnly
<1>2. /\ request' \in [Request -> Pending \cup {Idle}]
      /\ \A r \in Request : request'[r] \in {request[r], Idle}
  BY DEF Reply, IInv, TypeOK
<1> QED
  BY <1>1, <1>2, RepliesKeep DEF IInv, TypeOK

\* A handler that has read a row knows what the row knows.
LEMMA BeginKeeps ==
  ASSUME IInv, NEW r \in Request, NEW d \in Deploy,
         NEW stage \in {"confirm", "run", "start"},
         stage = "start" => row[d].wallet # NoWallet,
         Begin(r, stage, d)
  PROVE  IInv' /\ Quiet(Pipe)
<1> DEFINE new == [stage |-> stage, deploy |-> d, wallet |-> row[d].wallet]
<1>1. /\ request' = [request EXCEPT ![r] = new]
      /\ UNCHANGED <<row, walletIndex, running, pipe>>
  BY DEF Begin
<1>2. row[d].wallet \in WalletOrNone
  BY DEF IInv, TypeOK, Row, NoRow, WalletOrNone
<1>3. new \in Pending
  BY <1>2 DEF Pending, WalletOrNone
<1>4. TypeOK'
  BY <1>1, <1>3 DEF IInv, TypeOK
<1>5. ASSUME NEW w \in Wallet, NEW e \in Deploy, Knows(w, e)' PROVE Knows(w, e)
  <2>1. CASE \E s \in Request : /\ request'[s] # Idle
                               /\ request'[s].deploy = e /\ request'[s].wallet = w
    <3>1. PICK s \in Request : /\ request'[s] # Idle
                              /\ request'[s].deploy = e /\ request'[s].wallet = w
      BY <2>1
    <3>2. CASE s = r
      <4>1. request'[s] = new
        BY <1>1, <3>2 DEF IInv, TypeOK
      <4> QED
        BY <3>1, <4>1 DEF Knows
    <3>3. CASE s # r
      BY <1>1, <3>1, <3>3 DEF Knows, IInv, TypeOK
    <3> QED
      BY <3>2, <3>3
  <2> QED
    BY <1>1, <1>5, <2>1 DEF Knows
<1>6. \A q \in Pipe : Allocates(q)' => Allocates(q) /\ pipe'[q].min = pipe[q].min
  BY <1>1 DEF Allocates
<1>7. StartsProvisioned'
  <2> SUFFICES ASSUME NEW s \in Request,
                      request'[s].stage \in {"start", "checked", "scheduled"}
               PROVE  row'[request'[s].deploy].wallet # NoWallet
    BY DEF StartsProvisioned
  <2>1. CASE s = r
    <3>1. request'[s] = new
      BY <1>1, <2>1 DEF IInv, TypeOK
    <3> QED
      BY <1>1, <3>1
  <2>2. CASE s # r
    BY <1>1, <2>2 DEF IInv, TypeOK, StartsProvisioned
  <2> QED
    BY <2>1, <2>2
<1>8. Quiet(Pipe)
  BY <1>1, <1>5, <1>6 DEF Quiet
<1>9. ReadyHasWallet'
  BY <1>1 DEF IInv, ReadyHasWallet
<1> QED
  BY <1>4, <1>7, <1>8, <1>9, NothingNew DEF IInv

\* A handler of start that goes on stands for the same deploy and wallet.
LEMMA StageKeeps ==
  ASSUME IInv, NEW r \in Request, request[r].stage \in {"start", "checked"},
         NEW stage \in {"checked", "scheduled"},
         request' = [request EXCEPT ![r].stage = stage]
  PROVE  /\ request' \in [Request -> Pending \cup {Idle}]
         /\ request'[r] # Idle /\ request[r] # Idle
         /\ \A s \in Request : request'[s].deploy = request[s].deploy
                              /\ request'[s].wallet = request[s].wallet
                              /\ (request'[s] # Idle => request[s] # Idle)
         /\ UNCHANGED row => StartsProvisioned'
<1>1. /\ request[r] \in Pending
      /\ request[r].stage \in {"start", "checked", "scheduled"}
  BY Shapes DEF IInv
<1>2. request[r] \in [stage : {"start", "checked", "scheduled"}, deploy : Deploy, wallet : Wallet]
  BY <1>1 DEF Pending
<1>3. request'[r] = [request[r] EXCEPT !.stage = stage]
  BY DEF IInv, TypeOK
<1>4. request'[r] = [stage |-> stage, deploy |-> request[r].deploy, wallet |-> request[r].wallet]
  BY <1>2, <1>3
<1>5. request'[r] \in Pending
  BY <1>2, <1>4 DEF Pending
<1>6. request'[r] # Idle /\ request[r] # Idle
  BY <1>2, <1>4 DEF Idle
<1>7. \A s \in Request \ {r} : request'[s] = request[s]
  BY DEF IInv, TypeOK
<1> QED
  BY <1>1, <1>4, <1>5, <1>6, <1>7 DEF IInv, TypeOK, StartsProvisioned

\* A pipeline starts out with what the handler that schedules it knows.
LEMMA ScheduleKeeps ==
  ASSUME IInv, NEW q \in Pipe, NEW r \in Request, request[r] \in Pending,
         Schedule(q, request[r].deploy, request[r].wallet),
         UNCHANGED <<row, walletIndex>>,
         request' \in [Request -> Pending \cup {Idle}],
         \A s \in Request :
           request'[s] # Idle =>
             /\ request[s] # Idle
             /\ request'[s].deploy = request[s].deploy
             /\ request'[s].wallet = request[s].wallet,
         StartsProvisioned'
  PROVE  IInv' /\ Quiet(Pipe)
<1> DEFINE new == [stage |-> "max", deploy |-> request[r].deploy,
                   wallet |-> request[r].wallet, min |-> 0]
<1>1. /\ pipe[q] = Idle
      /\ running' = running \cup {request[r].deploy}
      /\ pipe' = [pipe EXCEPT ![q] = new]
  BY DEF Schedule
<1>2. request[r].deploy \in Deploy /\ request[r].wallet \in WalletOrNone
  BY DEF Pending, WalletOrNone
<1>3. new \in Working
  BY <1>2, HostAssumption DEF Working, Early
<1>4. TypeOK'
  BY <1>1, <1>2, <1>3 DEF IInv, TypeOK
<1>5. request[r] # Idle
  BY Shapes DEF IInv
<1>6. ASSUME NEW w \in Wallet, NEW e \in Deploy, Knows(w, e)' PROVE Knows(w, e)
  <2>1. CASE \E p \in Pipe : pipe'[p] # Idle /\ pipe'[p].deploy = e /\ pipe'[p].wallet = w
    <3>1. PICK p \in Pipe : pipe'[p] # Idle /\ pipe'[p].deploy = e /\ pipe'[p].wallet = w
      BY <2>1
    <3>2. CASE p = q
      <4>1. pipe'[p] = new
        BY <1>1, <3>2 DEF IInv, TypeOK
      <4>2. request[r].deploy = e /\ request[r].wallet = w
        BY <3>1, <4>1
      <4> QED
        BY <1>5, <4>2 DEF Knows
    <3>3. CASE p # q
      BY <1>1, <3>1, <3>3 DEF Knows, IInv, TypeOK
    <3> QED
      BY <3>2, <3>3
  <2>2. CASE \E s \in Request : /\ request'[s] # Idle
                               /\ request'[s].deploy = e /\ request'[s].wallet = w
    BY <2>2 DEF Knows
  <2> QED
    BY <1>6, <2>1, <2>2 DEF Knows
<1>7. ASSUME NEW p \in Pipe, Allocates(p)' PROVE Allocates(p) /\ pipe'[p].min = pipe[p].min
  <2>1. p # q
    BY <1>1, <1>7 DEF Allocates, IInv, TypeOK
  <2> QED
    BY <1>1, <1>7, <2>1 DEF Allocates, IInv, TypeOK
<1>8. Quiet(Pipe)
  BY <1>6, <1>7 DEF Quiet
<1>9. ReadyHasWallet'
  BY DEF IInv, ReadyHasWallet
<1> QED
  BY <1>4, <1>8, <1>9, NothingNew DEF IInv

\* A pipeline that goes on with the wallet it has, perhaps writing it down.
LEMMA PipeKeeps ==
  ASSUME IInv, NEW q \in Pipe, pipe[q] \in Working,
         NEW stage \in Early \cup Late \cup Ending,
         Goto(q, stage),
         UNCHANGED <<walletIndex, running, request>>,
         row' \in [Deploy -> Row \cup {NoRow}],
         ReadyHasWallet',
         stage \in Late => pipe[q].wallet \in Wallet,
         stage \in {"mark", "allocate"} => pipe[q].stage \in {"mark", "allocate"},
         \A e \in Deploy :
           \/ row'[e].wallet = row[e].wallet
           \/ /\ e = pipe[q].deploy
              /\ pipe[q].wallet \in Wallet
              /\ row'[e].wallet = pipe[q].wallet
  PROVE  IInv' /\ Quiet(Pipe)
<1>1. pipe' = [pipe EXCEPT ![q].stage = stage]
  BY DEF Goto
<1>2. /\ pipe[q].deploy \in Deploy
      /\ pipe[q].wallet \in WalletOrNone
      /\ pipe[q].min \in 0 .. MaxIndex + 1
      /\ pipe[q] = [stage |-> pipe[q].stage, deploy |-> pipe[q].deploy,
                    wallet |-> pipe[q].wallet, min |-> pipe[q].min]
  BY DEF Working, WalletOrNone
<1>3. pipe'[q] = [stage |-> stage, deploy |-> pipe[q].deploy,
                  wallet |-> pipe[q].wallet, min |-> pipe[q].min]
  BY <1>1, <1>2 DEF IInv, TypeOK
<1>4. pipe'[q] \in Working
  BY <1>2, <1>3 DEF Working
<1>5. \A p \in Pipe \ {q} : pipe'[p] = pipe[p]
  BY <1>1 DEF IInv, TypeOK
<1>6. TypeOK'
  BY <1>1, <1>4, <1>5 DEF IInv, TypeOK
<1>7. pipe[q] # Idle
  BY Shapes DEF IInv
<1>8. ASSUME NEW w \in Wallet, NEW e \in Deploy, Knows(w, e)' PROVE Knows(w, e)
  <2>1. CASE row'[e].wallet = w
    BY <1>7, <2>1 DEF Knows
  <2>2. CASE \E p \in Pipe : pipe'[p] # Idle /\ pipe'[p].deploy = e /\ pipe'[p].wallet = w
    <3>1. PICK p \in Pipe : pipe'[p] # Idle /\ pipe'[p].deploy = e /\ pipe'[p].wallet = w
      BY <2>2
    <3>2. pipe[p] # Idle /\ pipe[p].deploy = e /\ pipe[p].wallet = w
      BY <1>3, <1>5, <1>7, <3>1
    <3> QED
      BY <3>2 DEF Knows
  <2> QED
    BY <1>8, <2>1, <2>2 DEF Knows
<1>9. \A e \in Deploy : row[e].wallet \in Wallet => row'[e].wallet \in Wallet
  OBVIOUS
<1>10. ASSUME NEW p \in Pipe, Allocates(p)' PROVE Allocates(p) /\ pipe'[p].min = pipe[p].min
  BY <1>3, <1>5, <1>10 DEF Allocates
<1>11. Quiet(Pipe)
  BY <1>8, <1>9, <1>10 DEF Quiet
<1>12. StartsProvisioned'
  <2> SUFFICES ASSUME NEW r \in Request,
                      request[r].stage \in {"start", "checked", "scheduled"}
               PROVE  row'[request[r].deploy].wallet # NoWallet
    BY DEF StartsProvisioned
  <2>1. request[r].deploy \in Deploy
    BY Shapes DEF IInv, Pending
  <2>2. row[request[r].deploy].wallet # NoWallet
    BY DEF IInv, StartsProvisioned
  <2> QED
    BY <2>1, <2>2, HostAssumption DEF Wallet, NoWallet
<1> QED
  BY <1>6, <1>11, <1>12, NothingNew DEF IInv

\* A pipeline that ends takes its knowledge along.
LEMMA FinallyKeeps == ASSUME IInv, NEW q \in Pipe, Finally(q) PROVE IInv' /\ Quiet(Pipe)
<1>1. /\ pipe' = [pipe EXCEPT ![q] = Idle]
      /\ running' = running \ {pipe[q].deploy}
      /\ UNCHANGED <<row, walletIndex, request>>
  BY DEF Finally
<1>2. \A p \in Pipe : pipe'[p] = Idle \/ pipe'[p] = pipe[p]
  BY <1>1 DEF IInv, TypeOK
<1>3. TypeOK'
  BY <1>1 DEF IInv, TypeOK
<1>4. \A w \in Wallet, d \in Deploy : Knows(w, d)' => Knows(w, d)
  BY <1>1, <1>2 DEF Knows
<1>5. \A p \in Pipe : Allocates(p)' => Allocates(p) /\ pipe'[p].min = pipe[p].min
  BY <1>2 DEF Allocates, Idle
<1>6. Quiet(Pipe)
  BY <1>1, <1>4, <1>5 DEF Quiet
<1>7. StartsProvisioned' /\ ReadyHasWallet'
  BY <1>1 DEF IInv, StartsProvisioned, ReadyHasWallet
<1> QED
  BY <1>3, <1>6, <1>7, NothingNew DEF IInv

\* The greatest wallet of the table is above all that is known, while the table
\* is settled.
LEMMA ReadMaxKeeps ==
  ASSUME IInv, NEW q \in Pipe, ReadMaxIndex(q)
  PROVE  /\ IInv'
         /\ Quiet(Pipe \ {q})
         /\ \E n \in 0 .. MaxIndex + 1 : NextOfRows(n) /\ pipe'[q].min = n
<1>1. PICK n \in 0 .. MaxIndex + 1 :
        /\ NextOfRows(n)
        /\ pipe' = [pipe EXCEPT ![q].stage = "mark", ![q].min = n]
  BY DEF ReadMaxIndex
<1>2. pipe[q].stage = "max" /\ UNCHANGED <<row, walletIndex, running, request>>
  BY DEF ReadMaxIndex
<1>3. pipe[q] \in [stage : Early \cup Ending, deploy : Deploy, wallet : WalletOrNone,
                   min : 0 .. MaxIndex + 1]
  BY <1>2, Shapes DEF IInv, Working, Late
<1>4. pipe'[q] = [stage |-> "mark", deploy |-> pipe[q].deploy,
                  wallet |-> pipe[q].wallet, min |-> n]
  BY <1>1, <1>3 DEF IInv, TypeOK
<1>5. pipe'[q] \in Working
  BY <1>3, <1>4 DEF Working, Early
<1>6. \A p \in Pipe \ {q} : pipe'[p] = pipe[p]
  BY <1>1 DEF IInv, TypeOK
<1>7. TypeOK'
  BY <1>1, <1>2, <1>5 DEF IInv, TypeOK
<1>8. pipe[q] # Idle
  BY <1>2 DEF Idle
<1>9. ASSUME NEW w \in Wallet, NEW e \in Deploy, Knows(w, e)' PROVE Knows(w, e)
  <2>1. CASE \E p \in Pipe : pipe'[p] # Idle /\ pipe'[p].deploy = e /\ pipe'[p].wallet = w
    <3>1. PICK p \in Pipe : pipe'[p] # Idle /\ pipe'[p].deploy = e /\ pipe'[p].wallet = w
      BY <2>1
    <3>2. pipe[p] # Idle /\ pipe[p].deploy = e /\ pipe[p].wallet = w
      BY <1>4, <1>6, <1>8, <3>1
    <3> QED
      BY <3>2 DEF Knows
  <2> QED
    BY <1>2, <1>9, <2>1 DEF Knows
<1>10. Owned'
  BY <1>9 DEF IInv, Owned
<1>11. BelowFile => BelowFile'
  BY <1>2, <1>9 DEF BelowFile
<1>12. Settled => Settled'
  BY <1>2, <1>9 DEF Settled
<1>13. Settled => Below(n)
  BY <1>1 DEF Settled, Below, NextOfRows
<1>14. ASSUME NEW p \in Pipe, Allocates(p)' PROVE BelowFile' \/ Below(pipe[p].min)'
  <2>1. CASE p = q
    <3>1. pipe'[p].min = n
      BY <1>4, <2>1
    <3>2. Below(n) => Below(pipe[p].min)'
      BY <1>9, <3>1 DEF Below
    <3> QED
      BY <1>11, <1>13, <3>2 DEF IInv
  <2>2. CASE p # q
    <3>1. Allocates(p) /\ pipe'[p].min = pipe[p].min
      BY <1>6, <1>14, <2>2 DEF Allocates
    <3>2. Below(pipe[p].min) => Below(pipe[p].min)'
      BY <1>9, <3>1 DEF Below
    <3> QED
      BY <1>11, <3>1, <3>2 DEF IInv
  <2> QED
    BY <2>1, <2>2
<1>15. StartsProvisioned' /\ ReadyHasWallet'
  BY <1>2 DEF IInv, StartsProvisioned, ReadyHasWallet
<1>16. Quiet(Pipe \ {q})
  BY <1>2, <1>6, <1>9 DEF Quiet, Allocates
<1>17. NextOfRows(n) /\ pipe'[q].min = n
  BY <1>1, <1>4
<1>18. IInv'
  BY <1>7, <1>10, <1>11, <1>12, <1>14, <1>15 DEF IInv
<1> QED
  BY <1>16, <1>17, <1>18

\* A wallet that is allocated is above all that is known, and so nobody's; and
\* from then on the file is above all that is known.
LEMMA AllocateKeeps ==
  ASSUME IInv, NEW q \in Pipe, Allocate(q)
  PROVE  /\ IInv'
         /\ UNCHANGED row
         /\ Allocates(q)
         /\ \E n \in Wallet :
              /\ walletIndex <= n /\ pipe[q].min <= n /\ walletIndex' = n + 1
              /\ \A w \in Wallet, e \in Deploy :
                   Knows(w, e)' => Knows(w, e) \/ (w = n /\ e = pipe[q].deploy)
<1> DEFINE index == IF walletIndex > pipe[q].min THEN walletIndex ELSE pipe[q].min
<1>1. /\ pipe[q].stage = "allocate" /\ pipe[q].wallet = NoWallet
      /\ index <= MaxIndex
      /\ walletIndex' = index + 1
      /\ pipe' = [pipe EXCEPT ![q].stage = "record", ![q].wallet = index]
      /\ UNCHANGED <<row, running, request>>
  BY DEF Allocate
<1>2. pipe[q] \in [stage : Early \cup Ending, deploy : Deploy, wallet : WalletOrNone,
                   min : 0 .. MaxIndex + 1]
  BY <1>1, Shapes DEF IInv, Working, Late
<1>3. index \in Wallet
  BY <1>1, <1>2, HostAssumption DEF IInv, TypeOK, Wallet
<1>4. pipe'[q] = [stage |-> "record", deploy |-> pipe[q].deploy,
                  wallet |-> index, min |-> pipe[q].min]
  BY <1>1, <1>2 DEF IInv, TypeOK
<1>5. pipe'[q] \in Working
  BY <1>2, <1>3, <1>4 DEF Working, Late
<1>6. \A p \in Pipe \ {q} : pipe'[p] = pipe[p]
  BY <1>1 DEF IInv, TypeOK
<1>7. walletIndex' \in 0 .. MaxIndex + 1
  BY <1>1, <1>3, HostAssumption DEF Wallet
<1>8. TypeOK'
  BY <1>1, <1>5, <1>7 DEF IInv, TypeOK
<1>9. Below(index)
  <2>1. BelowFile \/ Below(pipe[q].min)
    BY <1>1 DEF IInv, Allocates
  <2> QED
    BY <1>2, <2>1, HostAssumption DEF BelowFile, Below, IInv, TypeOK, Wallet
<1>10. ASSUME NEW w \in Wallet, NEW e \in Deploy, Knows(w, e)'
       PROVE  Knows(w, e) \/ (w = index /\ e = pipe[q].deploy)
  <2>1. CASE \E p \in Pipe : pipe'[p] # Idle /\ pipe'[p].deploy = e /\ pipe'[p].wallet = w
    <3>1. PICK p \in Pipe : pipe'[p] # Idle /\ pipe'[p].deploy = e /\ pipe'[p].wallet = w
      BY <2>1
    <3>2. CASE p = q
      BY <1>4, <3>1, <3>2
    <3>3. CASE p # q
      BY <1>6, <3>1, <3>3 DEF Knows
    <3> QED
      BY <3>2, <3>3
  <2> QED
    BY <1>1, <1>10, <2>1 DEF Knows
<1>11. Owned'
  <2> SUFFICES ASSUME NEW w \in Wallet, NEW d \in Deploy, NEW e \in Deploy,
                      Knows(w, d)', Knows(w, e)'
               PROVE  d = e
    BY DEF Owned
  <2>1. ~(w < w)
    BY HostAssumption DEF Wallet
  <2> QED
    BY <1>9, <1>10, <2>1 DEF IInv, Owned, Below
<1>12. BelowFile'
  <2> SUFFICES ASSUME NEW w \in Wallet, NEW e \in Deploy, Knows(w, e)'
               PROVE  w < walletIndex'
    BY DEF BelowFile
  <2>1. w = index \/ w < index
    BY <1>9, <1>10 DEF Below
  <2> QED
    BY <1>1, <1>3, <2>1, HostAssumption DEF Wallet
<1>13. StartsProvisioned' /\ ReadyHasWallet'
  BY <1>1 DEF IInv, StartsProvisioned, ReadyHasWallet
<1>14. walletIndex <= index /\ pipe[q].min <= index
  BY <1>2, HostAssumption DEF IInv, TypeOK
<1>15. Allocates(q)
  BY <1>1 DEF Allocates
<1> QED
  BY <1>1, <1>3, <1>8, <1>10, <1>11, <1>12, <1>13, <1>14, <1>15 DEF IInv

\* A host that starts knows only its table.
LEMMA RestartKeeps == ASSUME IInv, NEW fileKept \in BOOLEAN, Restart(fileKept) PROVE IInv'
<1>1. /\ walletIndex' \in 0 .. MaxIndex + 1
      /\ running' = {}
      /\ request' = [r \in Request |-> Idle]
      /\ pipe' = [q \in Pipe |-> Idle]
      /\ row' = row
  BY HostAssumption DEF Restart, IInv, TypeOK
<1>2. TypeOK'
  BY <1>1 DEF IInv, TypeOK
<1>3. \A w \in Wallet, d \in Deploy : Knows(w, d)' => row[d].wallet = w
  BY <1>1 DEF Knows
<1>4. Settled'
  BY <1>1, <1>3 DEF Settled
<1>5. Owned'
  <2>1. \A w \in Wallet, d \in Deploy : Knows(w, d)' => Knows(w, d)
    BY <1>3 DEF Knows
  <2> QED
    BY <2>1 DEF IInv, Owned
<1>6. \A q \in Pipe : ~Allocates(q)'
  BY <1>1 DEF Allocates, Idle
<1>7. StartsProvisioned' /\ ReadyHasWallet'
  BY <1>1 DEF IInv, StartsProvisioned, ReadyHasWallet, Idle
<1> QED
  BY <1>2, <1>4, <1>5, <1>6, <1>7 DEF IInv

\* A new deploy has no wallet.
LEMMA CreateKeeps == ASSUME IInv, NEW d \in Deploy, Create(d) PROVE IInv' /\ Quiet(Pipe)
<1>1. /\ row' = [row EXCEPT ![d] = [status |-> "pending_payment", wallet |-> NoWallet]]
      /\ row[d] = NoRow
      /\ UNCHANGED <<walletIndex, running, request, pipe>>
  BY DEF Create
<1>2. /\ row' \in [Deploy -> Row \cup {NoRow}]
      /\ \A e \in Deploy : row'[e].wallet = row[e].wallet
      /\ ReadyHasWallet'
  BY <1>1 DEF IInv, TypeOK, Row, NoRow, Status, WalletOrNone, ReadyHasWallet
<1> QED
  BY <1>1, <1>2, RepliesKeep DEF IInv, TypeOK

\* No request breaks the invariant.
LEMMA RequestKeeps == ASSUME IInv, NEW r \in Request, RequestStep(r) PROVE IInv' /\ Quiet(Pipe)
<1> USE DEF At
<1>1. ASSUME NEW d \in Deploy, ReadToConfirm(r, d) PROVE IInv' /\ Quiet(Pipe)
  BY <1>1, BeginKeeps DEF ReadToConfirm
<1>2. ASSUME NEW d \in Deploy, ReadToRun(r, d) PROVE IInv' /\ Quiet(Pipe)
  BY <1>2, BeginKeeps DEF ReadToRun
<1>3. ASSUME NEW d \in Deploy, ReadToStart(r, d) PROVE IInv' /\ Quiet(Pipe)
  BY <1>3, BeginKeeps DEF ReadToStart
<1>4. CASE ConfirmPayment(r)
  <2>1. request[r].deploy \in Deploy
    BY <1>4, Shapes DEF ConfirmPayment, IInv, Pending
  <2> QED
    BY <1>4, <2>1, StatusKeeps DEF ConfirmPayment, Status
<1>5. CASE CheckStart(r)
  <2>1. /\ request[r].stage = "start"
        /\ request' = [request EXCEPT ![r].stage = "checked"]
        /\ UNCHANGED <<row, walletIndex, running, pipe>>
    BY <1>5 DEF CheckStart
  <2>2. /\ request' \in [Request -> Pending \cup {Idle}]
        /\ \A s \in Request : request'[s].deploy = request[s].deploy
                             /\ request'[s].wallet = request[s].wallet
                             /\ (request'[s] # Idle => request[s] # Idle)
        /\ StartsProvisioned'
    BY <2>1, StageKeeps
  <2>3. TypeOK'
    BY <2>1, <2>2 DEF IInv, TypeOK
  <2>4. \A w \in Wallet, d \in Deploy : Knows(w, d)' => Knows(w, d)
    BY <2>1, <2>2 DEF Knows
  <2>5. \A q \in Pipe : Allocates(q)' => Allocates(q) /\ pipe'[q].min = pipe[q].min
    BY <2>1 DEF Allocates
  <2>6. Quiet(Pipe)
    BY <2>1, <2>4, <2>5 DEF Quiet
  <2>7. ReadyHasWallet'
    BY <2>1 DEF IInv, ReadyHasWallet
  <2> QED
    BY <2>2, <2>3, <2>6, <2>7, NothingNew DEF IInv
<1>6. CASE Start(r)
  <2>1. request[r].deploy \in Deploy
    BY <1>6, Shapes DEF Start, IInv, Pending
  <2>2. row[request[r].deploy].wallet # NoWallet
    BY <1>6 DEF Start, IInv, StartsProvisioned
  <2> QED
    BY <1>6, <2>1, <2>2, StatusKeeps DEF Start, Status
<1>7. CASE MarkReprovision(r)
  <2>1. request[r].deploy \in Deploy
    BY <1>7, Shapes DEF MarkReprovision, IInv, Pending
  <2> QED
    BY <1>7, <2>1, StatusKeeps DEF MarkReprovision, Status
<1>8. ASSUME NEW q \in Pipe, RunPipeline(r, q) PROVE IInv' /\ Quiet(Pipe)
  <2>1. request[r] \in Pending
    BY <1>8, Shapes DEF RunPipeline, IInv
  <2>2. /\ request' \in [Request -> Pending \cup {Idle}]
        /\ \A s \in Request : request'[s] # Idle => request'[s] = request[s]
    BY <1>8 DEF RunPipeline, Reply, IInv, TypeOK
  <2>3. UNCHANGED <<row, walletIndex>>
    BY <1>8 DEF RunPipeline
  <2>4. StartsProvisioned'
    BY <2>2, <2>3 DEF StartsProvisioned, IInv, Idle
  <2> QED
    BY <1>8, <2>1, <2>2, <2>3, <2>4, ScheduleKeeps DEF RunPipeline
<1>9. ASSUME NEW q \in Pipe, Reprovision(r, q) PROVE IInv' /\ Quiet(Pipe)
  <2>1. request[r] \in Pending /\ request[r].stage = "checked"
    BY <1>9, Shapes DEF Reprovision, IInv
  <2>2. /\ request' = [request EXCEPT ![r].stage = "scheduled"]
        /\ UNCHANGED <<row, walletIndex>>
    BY <1>9 DEF Reprovision
  <2>3. /\ request' \in [Request -> Pending \cup {Idle}]
        /\ \A s \in Request : request'[s].deploy = request[s].deploy
                             /\ request'[s].wallet = request[s].wallet
                             /\ (request'[s] # Idle => request[s] # Idle)
        /\ StartsProvisioned'
    BY <2>1, <2>2, StageKeeps
  <2> QED
    BY <1>9, <2>1, <2>2, <2>3, ScheduleKeeps DEF Reprovision
<1>10. CASE Refuse(r)
  <2>1. /\ request' \in [Request -> Pending \cup {Idle}]
        /\ \A s \in Request : request'[s] \in {request[s], Idle}
        /\ UNCHANGED <<row, walletIndex, running, pipe>>
    BY <1>10 DEF Refuse, Reply, IInv, TypeOK
  <2>2. ReadyHasWallet'
    BY <2>1 DEF IInv, ReadyHasWallet
  <2> QED
    BY <2>1, <2>2, RepliesKeep DEF IInv, TypeOK
<1> QED
  BY <1>1, <1>2, <1>3, <1>4, <1>5, <1>6, <1>7, <1>8, <1>9, <1>10 DEF RequestStep

\* A step of a pipeline that writes no wallet.
LEMMA PipeStatusKeeps ==
  ASSUME IInv, NEW q \in Pipe, pipe[q] \in Working,
         NEW stage \in Early \cup Late \cup Ending, Goto(q, stage),
         UNCHANGED <<walletIndex, running, request>>,
         stage \in Late => pipe[q].wallet \in Wallet,
         stage \in {"mark", "allocate"} => pipe[q].stage \in {"mark", "allocate"},
         UNCHANGED row \/ \E status \in {"provisioning", "failed"} :
                            WriteStatus(pipe[q].deploy, status)
  PROVE  IInv' /\ Quiet(Pipe)
<1>1. pipe[q].deploy \in Deploy
  BY DEF Working
<1>2. /\ row' \in [Deploy -> Row \cup {NoRow}]
      /\ \A e \in Deploy : row'[e].wallet = row[e].wallet
      /\ ReadyHasWallet'
  <2>1. CASE UNCHANGED row
    BY <2>1 DEF IInv, TypeOK, ReadyHasWallet
  <2>2. ASSUME NEW status \in {"provisioning", "failed"},
               WriteStatus(pipe[q].deploy, status)
        PROVE  /\ row' \in [Deploy -> Row \cup {NoRow}]
               /\ \A e \in Deploy : row'[e].wallet = row[e].wallet
               /\ ReadyHasWallet'
    BY <1>1, <2>2, StatusOnly DEF Status
  <2> QED
    BY <2>1, <2>2
<1> QED
  BY <1>2, PipeKeeps

\* A step of a pipeline that writes its wallet to its deploy's row.
LEMMA PipeWalletKeeps ==
  ASSUME IInv, NEW q \in Pipe, pipe[q] \in Working, pipe[q].wallet \in Wallet,
         NEW stage \in Late \cup Ending, Goto(q, stage),
         UNCHANGED <<walletIndex, running, request>>,
         NEW status \in Status,
         WriteWallet(pipe[q].deploy, status, pipe[q].wallet)
  PROVE  IInv' /\ Quiet(Pipe)
<1>1. pipe[q].deploy \in Deploy
  BY DEF Working
<1>2. /\ row' \in [Deploy -> Row \cup {NoRow}]
      /\ row'[pipe[q].deploy].wallet = pipe[q].wallet
      /\ \A e \in Deploy \ {pipe[q].deploy} : row'[e] = row[e]
      /\ ReadyHasWallet'
  BY <1>1, WalletWritten
<1>3. stage \notin {"mark", "allocate"}
  BY DEF Late, Ending
<1> QED
  BY <1>2, <1>3, PipeKeeps

\* No pipeline breaks the invariant.
LEMMA PipeStepKeeps ==
  ASSUME IInv, NEW q \in Pipe, PipeStep(q)
  PROVE  /\ IInv'
         /\ Quiet(Pipe) \/ ReadMaxIndex(q) \/ Allocate(q)
<1>1. CASE ReadMaxIndex(q)
  BY <1>1, ReadMaxKeeps
<1>2. CASE Allocate(q)
  BY <1>2, AllocateKeeps
<1>3. CASE Finally(q)
  BY <1>3, FinallyKeeps
<1>4. CASE MarkProvisioning(q)
  <2>1. pipe[q] \in Working
    BY <1>4, Shapes DEF MarkProvisioning, IInv
  <2> QED
    BY <1>4, <2>1, PipeStatusKeeps DEF MarkProvisioning, Early, Late
<1>5. CASE ResumeWallet(q)
  <2>1. pipe[q] \in Working
    BY <1>5, Shapes DEF ResumeWallet, IInv
  <2>2. pipe[q].wallet \in Wallet
    BY <1>5, <2>1 DEF ResumeWallet, Working, WalletOrNone
  <2> QED
    BY <1>5, <2>1, <2>2, PipeStatusKeeps DEF ResumeWallet, Late
<1>6. CASE RecordWallet(q)
  <2>1. pipe[q] \in Working
    BY <1>6, Shapes DEF RecordWallet, IInv
  <2>2. pipe[q].wallet \in Wallet
    BY <1>6, <2>1 DEF RecordWallet, Working, Early, Ending
  <2> QED
    BY <1>6, <2>1, <2>2, PipeWalletKeeps DEF RecordWallet, Late, Status
<1>7. CASE Fund(q)
  <2>1. pipe[q] \in Working
    BY <1>7, Shapes DEF Fund, IInv
  <2>2. pipe[q].wallet \in Wallet
    BY <1>7, <2>1 DEF Fund, Working, Early, Ending
  <2> QED
    BY <1>7, <2>1, <2>2, PipeWalletKeeps DEF Fund, Late, Status
<1>8. CASE Install(q)
  <2>1. pipe[q] \in Working /\ Goto(q, "finally") /\ UNCHANGED <<walletIndex, running, request>>
    BY <1>8, Shapes DEF Install, IInv
  <2>2. pipe[q].wallet \in Wallet
    BY <1>8, <2>1 DEF Install, Working, Early, Ending
  <2>3. CASE WriteWallet(pipe[q].deploy, "awaiting_vouch", pipe[q].wallet)
    BY <2>1, <2>2, <2>3, PipeWalletKeeps DEF Ending, Status
  <2>4. CASE UNCHANGED row
    BY <2>1, <2>2, <2>4, PipeStatusKeeps DEF Ending
  <2> QED
    BY <1>8, <2>3, <2>4 DEF Install
<1>9. CASE Throw(q)
  <2>1. pipe[q] \in Working
    BY <1>9, Shapes DEF Throw, IInv, Early, Late
  <2>2. /\ Goto(q, "catch") \/ Goto(q, "throw")
        /\ UNCHANGED <<row, walletIndex, running, request>>
    BY <1>9 DEF Throw
  <2> QED
    BY <2>1, <2>2, PipeStatusKeeps DEF Ending, Late
<1>10. CASE WriteFailure(q)
  <2>1. pipe[q] \in Working
    BY <1>10, Shapes DEF WriteFailure, IInv
  <2>2. /\ Goto(q, "catch") \/ Goto(q, "finally")
        /\ UNCHANGED row \/ WriteStatus(pipe[q].deploy, "failed")
        /\ UNCHANGED <<walletIndex, running, request>>
    BY <1>10 DEF WriteFailure
  <2> QED
    BY <2>1, <2>2, PipeStatusKeeps DEF Ending, Late
<1> QED
  BY <1>1, <1>2, <1>3, <1>4, <1>5, <1>6, <1>7, <1>8, <1>9, <1>10 DEF PipeStep

\* A host without deploys.
LEMMA Initially == Init => IInv
  BY HostAssumption
  DEF Init, IInv, TypeOK, Owned, Settled, Knows, Allocates, StartsProvisioned,
      ReadyHasWallet, NoRow, Idle, Wallet, NoWallet

\* What a step of the host is: quiet, or one of three.
LEMMA StepKeeps ==
  ASSUME IInv, [Next]_vars
  PROVE  /\ IInv'
         /\ \/ Quiet(Pipe)
            \/ \E q \in Pipe : ReadMaxIndex(q) \/ Allocate(q)
            \/ \E fileKept \in BOOLEAN : Restart(fileKept)
<1>1. ASSUME NEW d \in Deploy, Create(d) PROVE IInv' /\ Quiet(Pipe)
  BY <1>1, CreateKeeps
<1>2. ASSUME NEW d \in Deploy, Stop(d) PROVE IInv' /\ Quiet(Pipe)
  BY <1>2, StatusKeeps DEF Stop, Status
<1>3. ASSUME NEW r \in Request, RequestStep(r) PROVE IInv' /\ Quiet(Pipe)
  BY <1>3, RequestKeeps
<1>4. ASSUME NEW q \in Pipe, PipeStep(q)
      PROVE  IInv' /\ (Quiet(Pipe) \/ ReadMaxIndex(q) \/ Allocate(q))
  BY <1>4, PipeStepKeeps
<1>5. ASSUME NEW fileKept \in BOOLEAN, Restart(fileKept) PROVE IInv'
  BY <1>5, RestartKeeps
<1>6. CASE UNCHANGED vars
  <2>1. /\ row' \in [Deploy -> Row \cup {NoRow}]
        /\ request' \in [Request -> Pending \cup {Idle}]
        /\ UNCHANGED <<row, walletIndex, running, request, pipe>>
    BY <1>6 DEF vars, IInv, TypeOK
  <2>2. ReadyHasWallet'
    BY <2>1 DEF IInv, ReadyHasWallet
  <2> QED
    BY <2>1, <2>2, RepliesKeep DEF IInv, TypeOK
<1> QED
  BY <1>1, <1>2, <1>3, <1>4, <1>5, <1>6 DEF Next

\* The inductive invariant holds throughout.
THEOREM Invariant == Spec => []IInv
<1>1. IInv /\ [Next]_vars => IInv'
  BY StepKeeps
<1> QED
  BY Initially, <1>1, PTL DEF Spec

\* The rows, handlers and pipelines of the host keep their types.
THEOREM TypeCorrect == Spec => []TypeOK
<1>1. IInv => TypeOK
  BY DEF IInv
<1> QED
  BY <1>1, Invariant, PTL

\* allocateDerivationIndex and the pipelines around it never give two deploys
\* one wallet.
THEOREM WalletsApart == Spec => []WalletsDistinct
<1>1. ASSUME IInv PROVE WalletsDistinct
  <2> SUFFICES ASSUME NEW d \in Deploy, NEW e \in Deploy,
                      row[d].wallet # NoWallet, row[d].wallet = row[e].wallet
               PROVE  d = e
    BY DEF WalletsDistinct
  <2>1. row[d].wallet \in Wallet
    BY <1>1 DEF IInv, TypeOK, Row, NoRow, WalletOrNone
  <2>2. Knows(row[d].wallet, d) /\ Knows(row[d].wallet, e)
    BY DEF Knows
  <2> QED
    BY <1>1, <2>1, <2>2 DEF IInv, Owned
<1> QED
  BY <1>1, Invariant, PTL

\* The host never shows a deploy without an address as ready.
THEOREM ReadyOnlyWithWallet == Spec => []ReadyHasWallet
<1>1. IInv => ReadyHasWallet
  BY DEF IInv
<1> QED
  BY <1>1, Invariant, PTL

-----------------------------------------------------------------------------

\* A handler's step that starts or continues nothing for d leaves d to itself.
LEMMA NewOnlyFor ==
  ASSUME NEW d \in Deploy, Untouched(d),
         \A r \in Request :
           request'[r] = Idle \/ request'[r] = request[r] \/ request'[r].deploy # d,
         \A q \in Pipe : pipe'[q] = Idle \/ pipe'[q] = pipe[q] \/ pipe'[q].deploy # d
  PROVE  Untouched(d)'
BY DEF Untouched

\* No request takes a stranded deploy up, none in flight is for it.
LEMMA RequestLeavesStranded ==
  ASSUME TypeOK, NEW d \in Deploy, Stranded(d), NEW r \in Request, RequestStep(r)
  PROVE  Stranded(d)'
<1> USE DEF Stranded
<1>1. /\ row[d].status = "paused" /\ row[d].wallet = NoWallet
      /\ request[r].stage # "idle" => request[r].deploy # d /\ request[r].deploy \in Deploy
  BY Shapes DEF Untouched, Pending
<1>2. ASSUME NEW e \in Deploy, NEW stage, Begin(r, stage, e), e # d
      PROVE  Stranded(d)'
  <2>1. /\ UNCHANGED <<row, pipe>>
        /\ \A p \in Request \ {r} : request'[p] = request[p]
        /\ request'[r].deploy = e
    BY <1>2 DEF Begin, TypeOK
  <2> QED
    BY <1>2, <2>1, NewOnlyFor
<1>3. ASSUME NEW e \in Deploy,
             ReadToConfirm(r, e) \/ ReadToRun(r, e) \/ ReadToStart(r, e)
      PROVE  Stranded(d)'
  <2>1. e # d
    BY <1>1, <1>3 DEF ReadToConfirm, ReadToRun, ReadToStart
  <2> QED
    BY <1>2, <1>3, <2>1 DEF ReadToConfirm, ReadToRun, ReadToStart
<1>4. ASSUME NEW q \in Pipe, RunPipeline(r, q) \/ Reprovision(r, q)
      PROVE  Stranded(d)'
  <2>1. request[r].stage # "idle"
    BY <1>4 DEF RunPipeline, Reprovision, At
  <2>2. /\ UNCHANGED row
        /\ \A p \in Request \ {r} : request'[p] = request[p]
        /\ request'[r] = Idle \/ request'[r].deploy = request[r].deploy
        /\ \A p \in Pipe \ {q} : pipe'[p] = pipe[p]
        /\ pipe'[q].deploy = request[r].deploy
    BY <1>4, <2>1, Shapes DEF RunPipeline, Reprovision, Schedule, Reply, TypeOK, Pending
  <2>3. request'[r] = Idle \/ request'[r].deploy # d
    BY <1>1, <2>1, <2>2
  <2>4. pipe'[q].deploy # d
    BY <1>1, <2>1, <2>2
  <2> QED
    BY <2>2, <2>3, <2>4, NewOnlyFor
<1>5. CASE Refuse(r) \/ CheckStart(r) \/ ConfirmPayment(r) \/ Start(r) \/ MarkReprovision(r)
  <2>1. request[r].stage # "idle"
    BY <1>5 DEF Refuse, CheckStart, ConfirmPayment, Start, MarkReprovision, At
  <2>2. /\ row'[d] = row[d]
        /\ UNCHANGED pipe
        /\ \A p \in Request \ {r} : request'[p] = request[p]
        /\ request'[r] = Idle \/ request'[r].deploy = request[r].deploy
    BY <1>1, <1>5, <2>1, Shapes
    DEF Refuse, CheckStart, ConfirmPayment, Start, MarkReprovision, Reply, WriteStatus,
        TypeOK, Pending
  <2>3. request'[r] = Idle \/ request'[r].deploy # d
    BY <1>1, <2>1, <2>2
  <2> QED
    BY <2>2, <2>3, NewOnlyFor
<1> QED
  BY <1>3, <1>4, <1>5 DEF RequestStep

\* No pipeline is for it.
LEMMA PipeLeavesStranded ==
  ASSUME TypeOK, NEW d \in Deploy, Stranded(d), NEW q \in Pipe, PipeStep(q)
  PROVE  Stranded(d)'
<1> USE DEF Stranded
<1>1. pipe[q].stage # "idle"
  BY DEF PipeStep, ReadMaxIndex, MarkProvisioning, Allocate, ResumeWallet, RecordWallet, Fund,
         Install, Throw, WriteFailure, Finally, Early, Late
<1>2. pipe[q] \in Working /\ pipe[q].deploy # d /\ pipe[q].deploy \in Deploy
  BY <1>1, Shapes DEF Untouched, Working
<1>3. row'[d] = row[d] /\ UNCHANGED request
  BY <1>2 DEF PipeStep, ReadMaxIndex, MarkProvisioning, Allocate, ResumeWallet, RecordWallet,
     Fund, Install, Throw, WriteFailure, Finally, WriteStatus, WriteWallet, TypeOK
<1>4. /\ \A p \in Pipe \ {q} : pipe'[p] = pipe[p]
      /\ pipe'[q] = Idle \/ pipe'[q].deploy = pipe[q].deploy
  BY <1>2 DEF PipeStep, ReadMaxIndex, MarkProvisioning, Allocate, ResumeWallet, RecordWallet,
     Fund, Install, Throw, WriteFailure, Finally, Goto, TypeOK, Working
<1> QED
  BY <1>2, <1>3, <1>4, NewOnlyFor

\* A deploy that was stopped before it had a wallet, and that nobody is working
\* on, stays as it is: the guards of every request that could move it fail.
THEOREM StrandedStays == Spec => StrandedForGood
<1> DEFINE Stays == \A d \in Deploy : Stranded(d) => Stranded(d)'
<1>1. TypeOK /\ [Next]_vars => [Stays]_vars
  <2> SUFFICES ASSUME TypeOK, Next, NEW d \in Deploy, Stranded(d)
               PROVE  Stranded(d)'
    OBVIOUS
  <2>1. ASSUME NEW e \in Deploy, Create(e) \/ Stop(e)
        PROVE  Stranded(d)'
    <3>1. row[d] = [status |-> "paused", wallet |-> NoWallet] /\ row[d] # NoRow
      BY DEF Stranded, NoRow
    <3>2. row'[d] = [status |-> "paused", wallet |-> NoWallet] /\ UNCHANGED <<request, pipe>>
      BY <2>1, <3>1 DEF Create, Stop, WriteStatus, TypeOK
    <3> QED
      BY <3>2 DEF Stranded, Untouched
  <2>2. ASSUME NEW fileKept \in BOOLEAN, Restart(fileKept)
        PROVE  Stranded(d)'
    BY <2>2 DEF Restart, Stranded, Untouched
  <2> QED
    BY <2>1, <2>2, RequestLeavesStranded, PipeLeavesStranded DEF Next
<1> QED
  BY <1>1, TypeCorrect, PTL DEF Spec, StrandedForGood

-----------------------------------------------------------------------------

\* The set of busy deploys: each has a pipeline that will take it out.
BusyHasPipeline ==
  \A d \in running : \E q \in Pipe : pipe[q] # Idle /\ pipe[q].deploy = d

\* A pipeline at work stays at work for its deploy, until it takes it out.
LEMMA PipeKeepsBusy ==
  ASSUME TypeOK, BusyHasPipeline, NEW q \in Pipe, PipeStep(q)
  PROVE  BusyHasPipeline'
<1>1. pipe[q].stage # "idle"
  BY DEF PipeStep, ReadMaxIndex, MarkProvisioning, Allocate, ResumeWallet, RecordWallet, Fund,
         Install, Throw, WriteFailure, Finally, Early, Late
<1>2. pipe[q] \in Working
  BY <1>1, Shapes
<1>3. CASE Finally(q)
  <2>1. /\ running' = running \ {pipe[q].deploy}
        /\ \A p \in Pipe \ {q} : pipe'[p] = pipe[p]
    BY <1>3 DEF Finally, TypeOK
  <2> QED
    BY <2>1 DEF BusyHasPipeline
<1>4. CASE ~ Finally(q)
  <2>1. /\ running' = running
        /\ \A p \in Pipe \ {q} : pipe'[p] = pipe[p]
        /\ pipe'[q].deploy = pipe[q].deploy /\ pipe'[q].stage # "idle"
    BY <1>2, <1>4
    DEF PipeStep, ReadMaxIndex, MarkProvisioning, Allocate, ResumeWallet, RecordWallet, Fund,
        Install, Throw, WriteFailure, Goto, TypeOK, Working
  <2> QED
    BY <2>1 DEF BusyHasPipeline, Idle
<1> QED
  BY <1>3, <1>4

\* PIPELINE_ALREADY_RUNNING is answered only while a pipeline runs for the
\* deploy, for any number of them: after a crash, a failure, or two pipelines
\* for one deploy of which the first has ended.  What PipelineEnds adds under
\* fairness is that this pipeline ends.
THEOREM BusyIsWorkedOn == Spec => []BusyHasPipeline
<1>1. Init => BusyHasPipeline
  BY DEF Init, BusyHasPipeline
<1>2. TypeOK /\ BusyHasPipeline /\ [Next]_vars => BusyHasPipeline'
  <2> SUFFICES ASSUME TypeOK, BusyHasPipeline, [Next]_vars
               PROVE  BusyHasPipeline'
    OBVIOUS
  <2>1. ASSUME NEW q \in Pipe, NEW d, NEW w, Schedule(q, d, w)
        PROVE  BusyHasPipeline'
    <3>1. /\ running' = running \cup {d}
          /\ pipe[q] = Idle
          /\ \A p \in Pipe \ {q} : pipe'[p] = pipe[p]
          /\ pipe'[q].deploy = d /\ pipe'[q].stage = "max"
      BY <2>1 DEF Schedule, TypeOK
    <3> QED
      BY <3>1 DEF BusyHasPipeline, Idle
  <2>2. ASSUME NEW fileKept \in BOOLEAN, Restart(fileKept)
        PROVE  BusyHasPipeline'
    BY <2>2 DEF Restart, BusyHasPipeline
  <2>3. CASE UNCHANGED <<running, pipe>>
    BY <2>3 DEF BusyHasPipeline
  <2> QED
    BY <2>1, <2>2, <2>3, PipeKeepsBusy
    DEF Next, Create, Stop, RequestStep, ReadToConfirm, ReadToRun, ReadToStart, Begin,
        ConfirmPayment, CheckStart, Start, MarkReprovision, RunPipeline, Reprovision, Refuse,
        vars
<1> QED
  BY <1>1, <1>2, TypeCorrect, PTL DEF Spec

-----------------------------------------------------------------------------

(***************************************************************************)
(* A deploy may lose its wallet: run-pipeline resumes from a row read      *)
(* before its wait, and another pipeline may have recorded a wallet since. *)
(* The table forgets the old one; what has been sent to it is still there. *)
(* That it is never given to another deploy needs a history variable,      *)
(* which only this argument reads: every wallet a row has had since the    *)
(* wallet file was last lost, with its deploy.                             *)
(***************************************************************************)
VARIABLE given

Recorded == {<<row[d].wallet, d>> : d \in {e \in Deploy : row[e].wallet # NoWallet}}

Remember == given' = (IF walletIndex' < walletIndex THEN {} ELSE given) \cup Recorded'

HSpec == Init /\ given = {} /\ [][Next /\ Remember]_<<vars, given>>

\* A wallet is one deploy's for good.
NeverReused ==
  \A w \in Wallet, d, e \in Deploy : <<w, d>> \in given /\ <<w, e>> \in given => d = e

\* The invariant above, about all that was ever known.
EverKnown(w, d) == Knows(w, d) \/ <<w, d>> \in given

EverOwned ==
  \A w \in Wallet, d, e \in Deploy : EverKnown(w, d) /\ EverKnown(w, e) => d = e

EverSettled == \A w \in Wallet, d \in Deploy : EverKnown(w, d) => row[d].wallet = w

EverBelow(n) == \A w \in Wallet, d \in Deploy : EverKnown(w, d) => w < n

GivenInv ==
  /\ given \subseteq Wallet \X Deploy
  /\ \A d \in Deploy : row[d].wallet \in Wallet => <<row[d].wallet, d>> \in given
  /\ EverOwned
  /\ EverSettled \/ EverBelow(walletIndex)
  /\ \A q \in Pipe : Allocates(q) => EverBelow(walletIndex) \/ EverBelow(pipe[q].min)

\* What is in the table is remembered, as long as the file is not lost.
LEMMA Remembered ==
  ASSUME IInv, IInv', GivenInv, Remember
  PROVE  /\ given' \subseteq Wallet \X Deploy
         /\ \A d \in Deploy : row'[d].wallet \in Wallet => <<row'[d].wallet, d>> \in given'
         /\ \A w \in Wallet, d \in Deploy :
              <<w, d>> \in given' => <<w, d>> \in given \/ row'[d].wallet = w
         /\ walletIndex' < walletIndex =>
              \A w \in Wallet, d \in Deploy : <<w, d>> \in given' => row'[d].wallet = w
<1>1. \A d \in Deploy : row'[d].wallet \in Wallet \cup {NoWallet}
  BY DEF IInv, TypeOK, Row, NoRow, WalletOrNone
<1>2. NoWallet \notin Wallet
  BY HostAssumption DEF Wallet, NoWallet
<1>3. \A x : x \in Recorded' <=>
        \E d \in Deploy : row'[d].wallet # NoWallet /\ x = <<row'[d].wallet, d>>
  BY DEF Recorded
<1> QED
  BY <1>1, <1>2, <1>3 DEF Remember, GivenInv

\* A quiet step learns nothing that was not ever known.
LEMMA QuietLearnsNothing ==
  ASSUME IInv, IInv', GivenInv, Remember, NEW P, Quiet(P),
         NEW w \in Wallet, NEW d \in Deploy, EverKnown(w, d)'
  PROVE  EverKnown(w, d)
<1>1. CASE Knows(w, d)'
  BY <1>1 DEF Quiet, EverKnown
<1>2. CASE <<w, d>> \in given'
  <2>1. <<w, d>> \in given \/ row'[d].wallet = w
    BY <1>2, Remembered
  <2>2. row'[d].wallet = w => Knows(w, d)'
    BY DEF Knows
  <2> QED
    BY <2>1, <2>2 DEF Quiet, EverKnown
<1> QED
  BY <1>1, <1>2 DEF EverKnown

\* A quiet step keeps the history sound, if the pipelines outside P allocate
\* only above it.
LEMMA QuietKeepsGiven ==
  ASSUME IInv, IInv', GivenInv, Remember, NEW P, Quiet(P),
         \A q \in Pipe \ P :
           Allocates(q)' => EverBelow(walletIndex)' \/ EverBelow(pipe[q].min)'
  PROVE  GivenInv'
<1>1. \A w \in Wallet, d \in Deploy : EverKnown(w, d)' => EverKnown(w, d)
  BY QuietLearnsNothing
<1>2. EverOwned'
  BY <1>1 DEF GivenInv, EverOwned
<1>3. EverBelow(walletIndex) => EverBelow(walletIndex)'
  BY <1>1 DEF EverBelow, Quiet
<1>4. ASSUME EverSettled PROVE EverSettled'
  <2> SUFFICES ASSUME NEW w \in Wallet, NEW d \in Deploy, EverKnown(w, d)'
               PROVE  row'[d].wallet = w
    BY DEF EverSettled
  <2>1. row[d].wallet = w
    BY <1>1, <1>4 DEF EverSettled
  <2>2. PICK v \in Wallet : row'[d].wallet = v
    BY <2>1 DEF Quiet
  <2>3. EverKnown(v, d)'
    BY <2>2 DEF Knows, EverKnown
  <2> QED
    BY <1>1, <1>4, <2>1, <2>2, <2>3 DEF EverSettled
<1>5. ASSUME NEW q \in Pipe, Allocates(q)'
      PROVE  EverBelow(walletIndex)' \/ EverBelow(pipe[q].min)'
  <2>1. CASE q \in P
    <3>1. Allocates(q) /\ pipe'[q].min = pipe[q].min
      BY <1>5, <2>1 DEF Quiet
    <3>2. EverBelow(pipe[q].min) => EverBelow(pipe[q].min)'
      BY <1>1, <3>1 DEF EverBelow
    <3> QED
      BY <1>3, <3>1, <3>2 DEF GivenInv
  <2>2. CASE q \notin P
    BY <1>5, <2>2
  <2> QED
    BY <2>1, <2>2
<1> QED
  BY <1>2, <1>3, <1>4, <1>5, Remembered DEF GivenInv

\* The greatest wallet of a settled table is above all that was ever known.
LEMMA ReadMaxKeepsGiven ==
  ASSUME IInv, GivenInv, Remember, NEW q \in Pipe, ReadMaxIndex(q)
  PROVE  GivenInv'
<1>1. IInv' /\ Quiet(Pipe \ {q})
  BY ReadMaxKeeps
<1>2. PICK n \in 0 .. MaxIndex + 1 : NextOfRows(n) /\ pipe'[q].min = n
  BY ReadMaxKeeps
<1>3. \A w \in Wallet, d \in Deploy : EverKnown(w, d)' => EverKnown(w, d)
  BY <1>1, QuietLearnsNothing
<1>4. EverSettled => EverBelow(pipe[q].min)'
  BY <1>2, <1>3 DEF EverSettled, EverBelow, NextOfRows
<1>5. EverBelow(walletIndex) => EverBelow(walletIndex)'
  BY <1>1, <1>3 DEF EverBelow, Quiet
<1>6. EverBelow(walletIndex)' \/ EverBelow(pipe[q].min)'
  BY <1>4, <1>5 DEF GivenInv
<1> QED
  BY <1>1, <1>6, QuietKeepsGiven

\* A wallet that is allocated is above all that was ever known.
LEMMA AllocateKeepsGiven ==
  ASSUME IInv, GivenInv, Remember, NEW q \in Pipe, Allocate(q)
  PROVE  GivenInv'
<1>1. IInv' /\ UNCHANGED row /\ Allocates(q)
  BY AllocateKeeps
<1>2. PICK n \in Wallet :
        /\ walletIndex <= n /\ pipe[q].min <= n /\ walletIndex' = n + 1
        /\ \A w \in Wallet, e \in Deploy :
             Knows(w, e)' => Knows(w, e) \/ (w = n /\ e = pipe[q].deploy)
  BY AllocateKeeps
<1>3. walletIndex \in Nat /\ pipe[q].min \in Nat /\ n \in Nat
  BY <1>1, Shapes, HostAssumption DEF IInv, TypeOK, Allocates, Working, Wallet
<1>4. ASSUME NEW w \in Wallet, NEW d \in Deploy, EverKnown(w, d) PROVE w < n
  BY <1>1, <1>2, <1>3, <1>4, HostAssumption DEF GivenInv, EverBelow, Wallet
<1>5. ASSUME NEW w \in Wallet, NEW d \in Deploy, EverKnown(w, d)'
      PROVE  EverKnown(w, d) \/ (w = n /\ d = pipe[q].deploy)
  <2>1. CASE Knows(w, d)'
    BY <1>2, <2>1 DEF EverKnown
  <2>2. CASE <<w, d>> \in given'
    BY <1>1, <2>2, Remembered DEF EverKnown, Knows
  <2> QED
    BY <1>5, <2>1, <2>2 DEF EverKnown
<1>6. EverOwned'
  <2> SUFFICES ASSUME NEW w \in Wallet, NEW d \in Deploy, NEW e \in Deploy,
                      EverKnown(w, d)', EverKnown(w, e)'
               PROVE  d = e
    BY DEF EverOwned
  <2>1. ~(w < w)
    BY HostAssumption DEF Wallet
  <2> QED
    BY <1>4, <1>5, <2>1 DEF GivenInv, EverOwned
<1>7. EverBelow(walletIndex)'
  <2> SUFFICES ASSUME NEW w \in Wallet, NEW d \in Deploy, EverKnown(w, d)'
               PROVE  w < walletIndex'
    BY DEF EverBelow
  <2>1. w = n \/ w < n
    BY <1>4, <1>5
  <2> QED
    BY <1>2, <1>3, <2>1, HostAssumption DEF Wallet
<1> QED
  BY <1>1, <1>6, <1>7, Remembered DEF GivenInv

\* A host that starts with the file has what was ever known below it, or in the
\* table; one that starts without remembers the table alone.
LEMMA RestartKeepsGiven ==
  ASSUME IInv, GivenInv, Remember, NEW fileKept \in BOOLEAN, Restart(fileKept)
  PROVE  GivenInv'
<1>1. IInv'
  BY RestartKeeps
<1>2. /\ row' = row
      /\ walletIndex' = walletIndex \/ walletIndex' < walletIndex
  BY HostAssumption DEF Restart, IInv, TypeOK
<1>3. \A w \in Wallet, d \in Deploy : Knows(w, d)' => row[d].wallet = w
  BY DEF Restart, Knows
<1>4. ASSUME NEW w \in Wallet, NEW d \in Deploy, EverKnown(w, d)' PROVE EverKnown(w, d)
  BY <1>1, <1>2, <1>3, <1>4, Remembered DEF EverKnown, Knows
<1>5. EverOwned'
  BY <1>4 DEF GivenInv, EverOwned
<1>6. \A q \in Pipe : ~Allocates(q)'
  BY DEF Restart, Allocates, Idle
<1>7. EverSettled' \/ EverBelow(walletIndex)'
  <2>1. CASE walletIndex' = walletIndex
    BY <1>2, <1>4, <2>1 DEF GivenInv, EverSettled, EverBelow
  <2>2. CASE walletIndex' < walletIndex
    BY <1>1, <1>2, <1>3, <2>2, Remembered DEF EverSettled, EverKnown
  <2> QED
    BY <1>2, <2>1, <2>2
<1> QED
  BY <1>1, <1>5, <1>6, <1>7, Remembered DEF GivenInv

\* A wallet once recorded for a deploy is never recorded for another, for as
\* long as the wallet file is there: not after its deploy was given another
\* wallet, by a pipeline that resumed from a row read earlier (run-pipeline,
\* apps/host/src/index.ts:1112), and not after a crash.
THEOREM WalletsForGood == HSpec => []NeverReused
<1>1. Init /\ given = {} => GivenInv
  BY HostAssumption
  DEF Init, GivenInv, EverOwned, EverSettled, EverKnown, Knows, Allocates, NoRow, Idle,
      Wallet, NoWallet
<1>2. IInv /\ GivenInv /\ [Next /\ Remember]_<<vars, given>> => GivenInv'
  <2> SUFFICES ASSUME IInv, GivenInv, [Next /\ Remember]_<<vars, given>> PROVE GivenInv'
    OBVIOUS
  <2>1. CASE Next /\ Remember
    <3>1. IInv'
      BY <2>1, StepKeeps
    <3>2. CASE Quiet(Pipe)
      BY <2>1, <3>1, <3>2, QuietKeepsGiven
    <3>3. ASSUME NEW q \in Pipe, ReadMaxIndex(q) PROVE GivenInv'
      BY <2>1, <3>3, ReadMaxKeepsGiven
    <3>4. ASSUME NEW q \in Pipe, Allocate(q) PROVE GivenInv'
      BY <2>1, <3>4, AllocateKeepsGiven
    <3>5. ASSUME NEW fileKept \in BOOLEAN, Restart(fileKept) PROVE GivenInv'
      BY <2>1, <3>5, RestartKeepsGiven
    <3> QED
      BY <2>1, <3>2, <3>3, <3>4, <3>5, StepKeeps
  <2>2. CASE UNCHANGED <<vars, given>>
    BY <2>2 DEF vars, GivenInv, EverOwned, EverSettled, EverBelow, EverKnown, Knows, Allocates
  <2> QED
    BY <2>1, <2>2
<1>3. HSpec => Spec
  <2>1. [Next /\ Remember]_<<vars, given>> => [Next]_vars
    BY DEF vars
  <2> QED
    BY <2>1, PTL DEF HSpec, Spec
<1>4. GivenInv => NeverReused
  BY DEF GivenInv, EverOwned, EverKnown, NeverReused
<1> QED
  BY <1>1, <1>2, <1>3, <1>4, Invariant, PTL DEF HSpec

=============================================================================
