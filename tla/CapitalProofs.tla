---------------------------- MODULE CapitalProofs ----------------------------
(***************************************************************************)
(* Proofs about the three parts that decide about capital, for any         *)
(* configuration and any amounts.                                          *)
(*                                                                         *)
(* SafeExecutor, for any numbers of sessions and opportunities: IInv is    *)
(* about the copies, what a session is about to commit was computed from   *)
(* the row that is still in the database; RowsInv adds the rows, which the *)
(* database fits and each copy will fit when it is committed.              *)
(*                                                                         *)
(* CapitalManager, for any batches: ManagerInv says of each trade that     *)
(* what it keeps busy still has its cooldown, so that a candidate that     *)
(* passes it comes late enough.  A batch is a recursion over its           *)
(* candidates; that each of them keeps the invariant is a lemma, that all  *)
(* of them do follows from a smallest counterexample.                      *)
(*                                                                         *)
(* Calibration, for any feedback: CalInv counts the versions of the        *)
(* snapshots, bounds their values, and says that deque and index name      *)
(* entries there are, so that no statistic divides by nothing.             *)
(***************************************************************************)
EXTENDS SafeExecutor, CapitalManager, Calibration, Folding, TLAPS

\* A copy that is ready to be committed conserves capital, and allocates more
\* than the database only when the database is not halted.
Sound(p) ==
    /\ p \in PortfolioState
    /\ Covered(p)
    /\ p.allocated > db.allocated => ~Halted(db)

DecidedSound == \A s \in Sessions : pc[s] = "decided" => Sound(view[s])

\* A session that is in a call has its arguments.
Called == \A s \in Sessions : pc[s] # "idle" => request[s] \in Call

IInv ==
    /\ TypeOK
    /\ Called
    /\ OnlyHolderDecides
    /\ CapitalCovered
    /\ DecidedSound

-----------------------------------------------------------------------------
(* The tracker *)

\* Opening a position keeps the portfolio typed and covered when the amount is
\* available.
LEMMA OpenCovered ==
    ASSUME NEW p \in PortfolioState, Covered(p), NEW amount \in 0..p.available
    PROVE  /\ OpenPosition(p, amount) \in PortfolioState
           /\ Covered(OpenPosition(p, amount))
  <1> DEFINE q(av, al) == [p EXCEPT !.available = av, !.allocated = al]
  <1>1. ASSUME NEW av \in Int, NEW al \in Int
        PROVE  q(av, al) \in PortfolioState
    BY DEF PortfolioState
  <1>2. p.available - amount \in Int /\ p.allocated + amount \in Int
    BY DEF PortfolioState
  <1>3. OpenPosition(p, amount) = q(p.available - amount, p.allocated + amount)
    BY Zenon DEF PortfolioState, OpenPosition
  <1>4. q(p.available - amount, p.allocated + amount) \in PortfolioState
    <2> HIDE DEF q
    <2> QED BY <1>1, <1>2, Zenon
  <1>5. Covered(q(p.available - amount, p.allocated + amount))
    BY InitialAssumption DEF PortfolioState, Covered
  <1> QED
    BY <1>3, <1>4, <1>5, Zenon

\* Closing a position with a profit keeps the portfolio typed and covered, and
\* allocates nothing.
LEMMA SuccessCovered ==
    ASSUME NEW p \in PortfolioState, Covered(p), NEW amount \in Nat,
           NEW profit \in Nat
    PROVE  /\ ClosePositionSuccess(p, amount, profit) \in PortfolioState
           /\ Covered(ClosePositionSuccess(p, amount, profit))
           /\ ~(ClosePositionSuccess(p, amount, profit).allocated > p.allocated)
  <1> DEFINE top == IF p.total + profit > p.peak THEN p.total + profit ELSE p.peak
             q(al, av, to, re, tr, wi, pe) ==
                [p EXCEPT !.allocated = al, !.available = av, !.total = to,
                          !.realized = re, !.trades = tr, !.wins = wi,
                          !.streak = 0, !.peak = pe]
             new == q(p.allocated - amount, p.available + amount + profit,
                      p.total + profit, p.realized + profit,
                      p.trades + 1, p.wins + 1, top)
  <1>1. ASSUME NEW al \in Int, NEW av \in Int, NEW to \in Int, NEW re \in Int,
               NEW tr \in Nat, NEW wi \in Nat, NEW pe \in Int
        PROVE  q(al, av, to, re, tr, wi, pe) \in PortfolioState
    BY DEF PortfolioState
  <1>2. /\ p.allocated - amount \in Int
        /\ p.available + amount + profit \in Int
        /\ p.total + profit \in Int
        /\ p.realized + profit \in Int
        /\ p.trades + 1 \in Nat
        /\ p.wins + 1 \in Nat
        /\ top \in Int
    BY DEF PortfolioState
  <1>3. ClosePositionSuccess(p, amount, profit) = new
    BY Zenon DEF PortfolioState, ClosePositionSuccess
  <1>4. new \in PortfolioState
    <2> HIDE DEF q, top
    <2> QED BY <1>1, <1>2, Zenon
  <1>5. Covered(new) /\ ~(new.allocated > p.allocated)
    <2> HIDE DEF top
    <2> QED BY InitialAssumption DEF PortfolioState, Covered
  <1> QED
    <2> HIDE DEF new
    <2> QED BY <1>3, <1>4, <1>5, Zenon

\* Closing a position with a loss, of any size, keeps the portfolio typed and
\* covered, and allocates nothing.
LEMMA FailureCovered ==
    ASSUME NEW p \in PortfolioState, Covered(p), NEW amount \in Nat,
           NEW loss \in Nat, NEW t \in Nat
    PROVE  /\ ClosePositionFailure(p, amount, loss, t) \in PortfolioState
           /\ Covered(ClosePositionFailure(p, amount, loss, t))
           /\ ~(ClosePositionFailure(p, amount, loss, t).allocated > p.allocated)
  <1> DEFINE back == ReturnedCapital(amount, loss)
             day == Day(t)
             daily == IF p.lossDay = day THEN p.dailyLoss + loss ELSE loss
             q(al, av, to, re, tr, lo, st, da, dl) ==
                [p EXCEPT !.allocated = al, !.available = av, !.total = to,
                          !.realized = re, !.trades = tr, !.losses = lo,
                          !.streak = st, !.lastLoss = t, !.lossDay = da,
                          !.dailyLoss = dl]
             new == q(p.allocated - amount, p.available + back, p.total - loss,
                      p.realized - loss, p.trades + 1, p.losses + 1,
                      p.streak + 1, day, daily)
  <1>1. ASSUME NEW al \in Int, NEW av \in Int, NEW to \in Int, NEW re \in Int,
               NEW tr \in Nat, NEW lo \in Nat, NEW st \in Nat, NEW da \in Int,
               NEW dl \in Int
        PROVE  q(al, av, to, re, tr, lo, st, da, dl) \in PortfolioState
    <2> DEFINE r == [p EXCEPT !.allocated = al, !.available = av, !.total = to,
                              !.realized = re, !.trades = tr, !.losses = lo,
                              !.streak = st]
    <2>1. r \in PortfolioState
      BY DEF PortfolioState
    <2> DEFINE u == [r EXCEPT !.lastLoss = t, !.lossDay = da]
    <2>2. t \in Int \cup {None} /\ da \in Int \cup {None}
      OBVIOUS
    <2>3. u \in PortfolioState
      <3> HIDE DEF r
      <3> QED BY <2>1, <2>2, Zenon DEF PortfolioState
    <2>4. [u EXCEPT !.dailyLoss = dl] \in PortfolioState
      <3> HIDE DEF u
      <3> QED BY <2>3 DEF PortfolioState
    <2> QED
      BY <2>4, Zenon
  <1>2. back \in Nat /\ back >= amount - loss
    BY DEF ReturnedCapital
  <1>3. day \in Int
    BY DayAssumption DEF Day
  <1>4. /\ p.allocated - amount \in Int
        /\ p.available + back \in Int
        /\ p.total - loss \in Int
        /\ p.realized - loss \in Int
        /\ p.trades + 1 \in Nat
        /\ p.losses + 1 \in Nat
        /\ p.streak + 1 \in Nat
        /\ daily \in Int
    <2> HIDE DEF back, day
    <2> QED BY <1>2 DEF PortfolioState
  <1>5. ClosePositionFailure(p, amount, loss, t) = new
    BY Zenon DEF PortfolioState, ClosePositionFailure
  <1>6. new \in PortfolioState
    <2> HIDE DEF q, back, day, daily
    <2> QED BY <1>1, <1>3, <1>4, Zenon
  <1>7. Covered(new) /\ ~(new.allocated > p.allocated)
    <2> HIDE DEF back, day, daily
    <2> QED BY <1>2, InitialAssumption DEF PortfolioState, Covered
  <1> QED
    <2> HIDE DEF new
    <2> QED BY <1>5, <1>6, <1>7, Zenon

\* The execution guard approves nothing while the portfolio is halted.
LEMMA ApprovalNotHalted ==
    ASSUME NEW p, NEW ps, NEW opp, NEW weight, NEW required, NEW t,
           Evaluate(p, ps, opp, weight, required, t) \in Nat
    PROVE  ~Halted(p)
  BY DEF Evaluate, CanExecute, Rejected

-----------------------------------------------------------------------------
(* Rows *)

\* Saving a change keeps the table of positions typed.
LEMMA SavedRowsTyped ==
    ASSUME rows \in Seq(Row), NEW c \in Change
    PROVE  SavedRows(c) \in Seq(Row)
  <1>1. CASE c = NoChange
    BY <1>1 DEF SavedRows, NoChange
  <1>2. CASE c \in [kind : {"open"}, opp : Opps, amount : Nat, entry : Nat]
    <2>1. [opp |-> c.opp, amount |-> c.amount, entry |-> c.entry,
           status |-> "open"] \in Row
      BY <1>2 DEF Row
    <2>2. InsertUnlessOpen(c) \in Seq(Row)
      BY <2>1 DEF InsertUnlessOpen
    <2> QED
      BY <1>2, <2>2 DEF SavedRows
  <1>3. CASE c \in [kind : {"close"}, opp : Opps, status : {"closed", "failed"}]
    <2>1. DOMAIN rows = 1..Len(rows) /\ Len(rows) \in Nat
      OBVIOUS
    <2>2. \A i \in 1..Len(rows) : CloseOpenRow(c)[i] \in Row
      <3> SUFFICES ASSUME NEW i \in 1..Len(rows)
                   PROVE  CloseOpenRow(c)[i] \in Row
        OBVIOUS
      <3>1. rows[i] \in Row
        BY <2>1
      <3>2. c.status \in {"open", "closed", "failed"}
        BY <1>3
      <3>3. [rows[i] EXCEPT !.status = c.status] \in Row
        BY <3>1, <3>2 DEF Row
      <3>4. CloseOpenRow(c)[i] = IF i \in OpenRows(c.opp)
                                THEN [rows[i] EXCEPT !.status = c.status]
                                ELSE rows[i]
        BY <2>1 DEF CloseOpenRow
      <3> QED
        BY <3>1, <3>3, <3>4
    <2>3. CloseOpenRow(c) \in [1..Len(rows) -> Row]
      BY <2>1, <2>2 DEF CloseOpenRow
    <2>4. CloseOpenRow(c) \in Seq(Row)
      BY <2>1, <2>3
    <2> QED
      BY <1>3, <2>4 DEF SavedRows
  <1> QED
    BY <1>1, <1>2, <1>3 DEF Change

-----------------------------------------------------------------------------
(* The steps of a session *)

\* The initial portfolio is covered and no session has decided anything.
LEMMA InitIInv == Init => IInv
  <1> SUFFICES ASSUME Init PROVE IInv
    OBVIOUS
  <1>1. InitialPortfolio \in PortfolioState /\ Covered(InitialPortfolio)
    BY InitialAssumption DEF InitialPortfolio, PortfolioState, Covered
  <1>2. TypeOK
    BY <1>1 DEF Init, TypeOK, Change
  <1> QED
    BY <1>1, <1>2
    DEF Init, IInv, Called, OnlyHolderDecides, CapitalCovered, DecidedSound

\* A call begins: nothing that the invariant speaks of changes for a session
\* that has decided.
LEMMA BeginIInv ==
    ASSUME IInv, NEW s \in Sessions, NEW c \in Call, Begin(s, c)
    PROVE  IInv'
  <1> USE DEF IInv, Begin
  <1>1. TypeOK'
    <2>1. pc' \in [Sessions -> {"idle", "waiting", "locked", "decided"}]
      BY DEF TypeOK
    <2>2. request' \in [Sessions -> Call \cup {None}]
      BY DEF TypeOK
    <2>3. reply' \in [Sessions -> {"none", "approved", "rejected", "closed",
                                   "no position", "error"}]
      BY DEF TypeOK
    <2>4. calls' \in Nat
      <3>1. calls \in Nat /\ calls' = calls + 1
        BY Zenon DEF TypeOK
      <3> HIDE DEF IInv, Begin
      <3> QED
        BY <3>1
    <2> QED
      BY <2>1, <2>2, <2>3, <2>4, Zenon DEF TypeOK
  <1>2. OnlyHolderDecides' /\ CapitalCovered'
    BY DEF TypeOK, OnlyHolderDecides, CapitalCovered
  <1>3. DecidedSound'
    BY DEF TypeOK, DecidedSound, Sound, Halted, FallFromPeak
  <1>4. Called'
    BY DEF TypeOK, Called
  <1> QED
    BY <1>1, <1>2, <1>3, <1>4

\* The lock is granted only when nobody holds it, so nobody has decided.
LEMMA LockIInv ==
    ASSUME IInv, NEW s \in Sessions, Lock(s)
    PROVE  IInv'
  <1> USE DEF IInv, Lock
  <1>1. TypeOK'
    BY DEF TypeOK
  <1>2. OnlyHolderDecides' /\ CapitalCovered'
    BY NoSession DEF TypeOK, OnlyHolderDecides, CapitalCovered
  <1>3. DecidedSound'
    BY NoSession DEF TypeOK, OnlyHolderDecides, DecidedSound, Sound
  <1>4. Called'
    BY DEF TypeOK, Called
  <1> QED
    BY <1>1, <1>2, <1>3, <1>4

\* The copy becomes v, which is sound, and the change becomes d: what the
\* steps that decide have in common.
LEMMA DecideIInv ==
    ASSUME IInv, NEW s \in Sessions, NEW v, NEW d \in Change,
           pc[s] = "locked",
           pc' = [pc EXCEPT ![s] = "decided"],
           view' = [view EXCEPT ![s] = v],
           change' = [change EXCEPT ![s] = d],
           Sound(v),
           UNCHANGED <<db, rows, lock, request, reply, now, calls>>
    PROVE  IInv'
  <1> USE DEF IInv
  <1>1. TypeOK'
    BY DEF TypeOK, Sound
  <1>2. OnlyHolderDecides' /\ CapitalCovered'
    BY DEF TypeOK, OnlyHolderDecides, CapitalCovered
  <1>3. Sound(v)'
    BY DEF Sound
  <1>4. ASSUME NEW u \in Sessions, pc'[u] = "decided"
        PROVE  Sound(view[u])'
    <2>1. CASE u = s
      <3>1. view'[u] = v
        BY <2>1 DEF TypeOK
      <3> QED BY <1>3, <3>1 DEF Sound
    <2>2. CASE u # s
      BY <1>4, <2>2 DEF TypeOK, OnlyHolderDecides
    <2> QED BY <2>1, <2>2
  <1>5. DecidedSound'
    BY <1>4 DEF DecidedSound
  <1>6. Called'
    BY DEF TypeOK, Called
  <1> QED
    BY <1>1, <1>2, <1>5, <1>6

\* A session opens a position only within the available capital and only when
\* the guard approved it on the portfolio in the database.
LEMMA ExecuteIInv ==
    ASSUME IInv, NEW s \in Sessions, Execute(s)
    PROVE  IInv'
  <1> DEFINE c == request[s]
             amount == Evaluate(db, rows, c.opp, c.weight, c.required, now)
  <1>1. /\ pc[s] = "locked" /\ c.op = "open"
        /\ pc' = [pc EXCEPT ![s] = "decided"]
        /\ UNCHANGED <<db, rows, lock, request, reply, now, calls>>
    BY Zenon DEF Execute
  <1>2. db \in PortfolioState /\ Covered(db) /\ change \in [Sessions -> Change]
    BY DEF IInv, TypeOK, CapitalCovered
  <1>3. Sound(db)
    BY <1>2 DEF Sound, PortfolioState
  <1>4. CASE view' = [view EXCEPT ![s] = db] /\ UNCHANGED change
    <2>1. change' = [change EXCEPT ![s] = change[s]] /\ change[s] \in Change
      BY <1>2, <1>4, Zenon
    <2> QED
      BY <1>1, <1>3, <1>4, <2>1, DecideIInv, Zenon
  <1>5. CASE /\ amount \in 0..db.available
             /\ view' = [view EXCEPT ![s] = OpenPosition(db, amount)]
             /\ change' = [change EXCEPT ![s] = Opening(c.opp, amount, c.required)]
    <2>1. amount \in Nat /\ ~Halted(db)
      <3>1. amount \in Nat
        BY <1>2, <1>5
      <3> QED
        BY <3>1, ApprovalNotHalted, Zenon
    <2>2. Sound(OpenPosition(db, amount))
      <3> HIDE DEF amount
      <3>1. /\ OpenPosition(db, amount) \in PortfolioState
            /\ Covered(OpenPosition(db, amount))
        BY <1>2, <1>5, OpenCovered
      <3> QED
        BY <2>1, <3>1 DEF Sound
    <2>3. c.opp \in Opps /\ c.required \in Nat
      BY <1>1, RequiredAssumption DEF IInv, Called, Call
    <2>4. Opening(c.opp, amount, c.required) \in Change
      <3> HIDE DEF amount
      <3> QED BY <2>1, <2>3 DEF Opening, Change
    <2> QED
      BY <1>1, <1>5, <2>2, <2>4, DecideIInv, Zenon
  <1> QED
    BY <1>4, <1>5, Zenon DEF Execute

\* A close takes the amount of an open row out of allocated_capital.
LEMMA CloseIInv ==
    ASSUME IInv, NEW s \in Sessions, Close(s)
    PROVE  IInv'
  <1> DEFINE c == request[s]
  <1>1. /\ pc[s] = "locked" /\ c.op = "close"
        /\ pc' = [pc EXCEPT ![s] = "decided"]
        /\ UNCHANGED <<db, rows, lock, request, reply, now, calls>>
    BY Zenon DEF Close
  <1>2. /\ db \in PortfolioState /\ Covered(db)
        /\ change \in [Sessions -> Change] /\ rows \in Seq(Row) /\ now \in Nat
    BY DEF IInv, TypeOK, CapitalCovered
  <1>3. c.opp \in Opps /\ c.profit \in Int
    BY <1>1, ProfitsAssumption DEF IInv, Called, Call
  <1>4. CASE view' = [view EXCEPT ![s] = db] /\ UNCHANGED change
    <2>1. Sound(db)
      BY <1>2 DEF Sound, PortfolioState
    <2>2. change' = [change EXCEPT ![s] = change[s]] /\ change[s] \in Change
      BY <1>2, <1>4, Zenon
    <2> QED
      BY <1>1, <1>4, <2>1, <2>2, DecideIInv, Zenon
  <1>5. ASSUME NEW i \in OpenRows(c.opp)
        PROVE  rows[i].amount \in Nat
    <2>1. i \in DOMAIN rows
      BY Zenon DEF OpenRows, OpenIn
    <2>2. rows[i] \in Row
      BY <1>2, <2>1
    <2> QED
      BY <2>2 DEF Row
  <1>6. ASSUME NEW i \in OpenRows(c.opp), c.profit >= 0,
               view' = [view EXCEPT ![s] =
                          ClosePositionSuccess(db, rows[i].amount, c.profit)],
               change' = [change EXCEPT ![s] = Closing(c.opp, "closed")]
        PROVE  IInv'
    <2> DEFINE v == ClosePositionSuccess(db, rows[i].amount, c.profit)
    <2>1. rows[i].amount \in Nat /\ c.profit \in Nat
      BY <1>3, <1>5, <1>6
    <2>2. Sound(v)
      <3>1. v \in PortfolioState /\ Covered(v) /\ ~(v.allocated > db.allocated)
        BY <1>2, <2>1, SuccessCovered, Zenon
      <3> HIDE DEF v
      <3> QED BY <3>1 DEF Sound
    <2>3. Closing(c.opp, "closed") \in Change
      BY <1>3 DEF Closing, Change
    <2> QED
      BY <1>1, <1>6, <2>2, <2>3, DecideIInv, Zenon
  <1>7. ASSUME NEW i \in OpenRows(c.opp), c.profit < 0,
               view' = [view EXCEPT ![s] =
                          ClosePositionFailure(db, rows[i].amount, -c.profit, now)],
               change' = [change EXCEPT ![s] = Closing(c.opp, "failed")]
        PROVE  IInv'
    <2> DEFINE v == ClosePositionFailure(db, rows[i].amount, -c.profit, now)
    <2>1. rows[i].amount \in Nat /\ -c.profit \in Nat
      BY <1>3, <1>5, <1>7
    <2>2. Sound(v)
      <3>1. v \in PortfolioState /\ Covered(v) /\ ~(v.allocated > db.allocated)
        BY <1>2, <2>1, FailureCovered, Zenon
      <3> HIDE DEF v
      <3> QED BY <3>1 DEF Sound
    <2>3. Closing(c.opp, "failed") \in Change
      BY <1>3 DEF Closing, Change
    <2> QED
      BY <1>1, <1>7, <2>2, <2>3, DecideIInv, Zenon
  <1> QED
    BY <1>4, <1>6, <1>7, Zenon DEF Close

\* What the ways a transaction ends have in common: only its session leaves,
\* the lock is released, and when the row is replaced it is by a sound copy.
LEMMA FinishIInv ==
    ASSUME IInv, NEW s \in Sessions,
           NEW answer \in {"none", "approved", "rejected", "closed",
                           "no position", "error"},
           pc[s] # "idle", Finish(s, answer),
           rows' \in Seq(Row),
           \/ db' = db
           \/ pc[s] = "decided" /\ db' = view[s]
    PROVE  IInv'
  <1> USE DEF IInv, Finish
  <1>1. db' \in PortfolioState /\ Covered(db')
    BY DEF TypeOK, CapitalCovered, DecidedSound, Sound
  <1>2. TypeOK'
    <2>1. /\ pc' \in [Sessions -> {"idle", "waiting", "locked", "decided"}]
          /\ reply' \in [Sessions -> {"none", "approved", "rejected", "closed",
                                      "no position", "error"}]
      BY DEF TypeOK
    <2>2. /\ request' \in [Sessions -> Call \cup {None}]
          /\ view' \in [Sessions -> PortfolioState \cup {None}]
          /\ change' \in [Sessions -> Change]
      BY DEF TypeOK, Change
    <2>3. lock' \in Sessions \cup {None} /\ now' \in Nat /\ calls' \in Nat
      BY DEF TypeOK
    <2> QED
      BY <1>1, <2>1, <2>2, <2>3, Zenon DEF TypeOK
  <1>3. Called'
    BY DEF TypeOK, Called
  <1>4. OnlyHolderDecides'
    BY DEF TypeOK, OnlyHolderDecides
  <1>5. DecidedSound'
    <2> SUFFICES ASSUME NEW u \in Sessions, pc'[u] = "decided"
                 PROVE  Sound(view[u])'
      BY DEF DecidedSound
    <2>1. u # s /\ pc[u] = "decided" /\ view'[u] = view[u]
      BY DEF TypeOK
    <2>2. db' = db
      BY <2>1 DEF OnlyHolderDecides
    <2>3. Sound(view[u])
      BY <2>1 DEF DecidedSound
    <2> QED
      BY <2>1, <2>2, <2>3 DEF Sound, Halted, FallFromPeak
  <1> QED
    BY <1>1, <1>2, <1>3, <1>4, <1>5, Zenon DEF CapitalCovered

LEMMA TickIInv ==
    ASSUME IInv, Tick
    PROVE  IInv'
  <1> USE DEF IInv, Tick
  <1>1. TypeOK'
    <2>1. now \in Nat /\ now' = now + 1
      BY Zenon DEF TypeOK
    <2>2. now' \in Nat
      BY <2>1
    <2> QED
      BY <2>2, Zenon DEF TypeOK
  <1>2. Called' /\ OnlyHolderDecides' /\ CapitalCovered'
    BY Zenon DEF Called, OnlyHolderDecides, CapitalCovered, Covered
  <1>3. DecidedSound'
    BY Zenon DEF DecidedSound, Sound, Halted, FallFromPeak, Covered
  <1> QED
    BY <1>1, <1>2, <1>3, Zenon

-----------------------------------------------------------------------------
(* The specification *)

LEMMA Inductive == IInv /\ [Next]_vars => IInv'
  <1> SUFFICES ASSUME IInv, [Next]_vars
               PROVE  IInv'
    OBVIOUS
  <1>1. ASSUME NEW s \in Sessions, NEW c \in Call, Begin(s, c)
        PROVE  IInv'
    BY <1>1, BeginIInv
  <1>2. ASSUME NEW s \in Sessions, Lock(s)
        PROVE  IInv'
    BY <1>2, LockIInv
  <1>3. ASSUME NEW s \in Sessions, Execute(s)
        PROVE  IInv'
    BY <1>3, ExecuteIInv
  <1>4. ASSUME NEW s \in Sessions, Close(s)
        PROVE  IInv'
    BY <1>4, CloseIInv
  <1>5. ASSUME NEW s \in Sessions, pc[s] = "decided"
        PROVE  SavedRows(change[s]) \in Seq(Row)
    <2>1. rows \in Seq(Row) /\ change[s] \in Change
      BY DEF IInv, TypeOK
    <2> QED
      BY <2>1, SavedRowsTyped
  <1>6. ASSUME NEW s \in Sessions, Commit(s)
        PROVE  IInv'
    <2>1. ReplyOf(change[s], request[s].op)
            \in {"none", "approved", "rejected", "closed", "no position", "error"}
      <3>1. change[s] \in Change
        BY DEF IInv, TypeOK
      <3>2. change[s].kind \in {"none", "open", "close"}
        BY <3>1 DEF Change, NoChange
      <3> QED
        BY <3>2 DEF ReplyOf
    <2> QED
      BY <1>5, <1>6, <2>1, FinishIInv DEF Commit
  <1>7. ASSUME NEW s \in Sessions, CommitUnacknowledged(s)
        PROVE  IInv'
    BY <1>5, <1>7, FinishIInv DEF CommitUnacknowledged
  <1>8. ASSUME NEW s \in Sessions, Rollback(s)
        PROVE  IInv'
    BY <1>8, FinishIInv DEF Rollback, IInv, TypeOK
  <1>9. CASE Tick
    BY <1>9, TickIInv
  <1>10. CASE UNCHANGED vars
    <2> USE DEF vars
    <2>1. TypeOK' /\ Called' /\ OnlyHolderDecides' /\ CapitalCovered'
      BY <1>10, Zenon DEF IInv, TypeOK, Called, OnlyHolderDecides, CapitalCovered,
         Covered
    <2>2. DecidedSound'
      BY <1>10, Zenon DEF IInv, DecidedSound, Sound, Halted, FallFromPeak, Covered
    <2> QED
      BY <2>1, <2>2, Zenon DEF IInv
  <1> QED
    BY <1>1, <1>2, <1>3, <1>4, <1>6, <1>7, <1>8, <1>9, <1>10, Zenon DEF Next

LEMMA Invariance == Spec => []IInv
  <1>1. Init => IInv
    BY InitIInv
  <1> QED
    BY <1>1, Inductive, PTL DEF Spec

\* Type correctness of the executor, the database and the rows.
THEOREM TypeCorrect == Spec => []TypeOK
  <1>1. IInv => TypeOK
    BY DEF IInv
  <1> QED
    BY <1>1, Invariance, PTL

\* Whatever the sessions do, the available and allocated capital of
\* portfolio_state cover its total, which is the initial capital plus
\* everything realized.
THEOREM CapitalSafe == Spec => []CapitalCovered
  <1>1. IInv => CapitalCovered
    BY DEF IInv
  <1> QED
    BY <1>1, Invariance, PTL

\* The advisory lock serializes the load, the decision and the commit of
\* every transaction.
THEOREM LockOwned == Spec => []OnlyHolderDecides
  <1>1. IInv => OnlyHolderDecides
    BY DEF IInv
  <1> QED
    BY <1>1, Invariance, PTL

\* Only a commit changes the row of portfolio_state, to the sound copy of its
\* session.
LEMMA OnlyCommitsAllocate ==
    ASSUME IInv, Next, db'.allocated > db.allocated
    PROVE  ~Halted(db)
  <1>1. ASSUME NEW s \in Sessions, pc[s] = "decided", db' = view[s]
        PROVE  ~Halted(db)
    BY <1>1 DEF IInv, DecidedSound, Sound
  <1>2. db' # db
    <2>1. db.allocated \in Int
      BY DEF IInv, TypeOK, PortfolioState
    <2> QED
      BY <2>1
  <1> QED
    BY <1>1, <1>2, Zenon DEF Next, Begin, Lock, Execute, Close, Commit,
       CommitUnacknowledged, Rollback, Tick

\* No transaction allocates capital while the portfolio in the database has
\* fallen from its peak by the stop loss or the maximum drawdown.
THEOREM HaltHolds == Spec => NoAllocationWhenHalted
  <1>1. IInv /\ [Next]_vars => [db'.allocated > db.allocated => ~Halted(db)]_vars
    BY OnlyCommitsAllocate
  <1> QED
    BY <1>1, Invariance, PTL DEF Spec, NoAllocationWhenHalted

-----------------------------------------------------------------------------
(* The rows *)

Settled(ps) == {i \in DOMAIN ps : ps[i].status # "open"}

\* The partial unique index of portfolio_positions.
UniqueOpen(ps) == \A i, j \in OpenIn(ps) : ps[i].opp = ps[j].opp => i = j

\* The rows and the portfolio belong together.
Fits(ps, p) ==
    /\ UniqueOpen(ps)
    /\ SumAmounts(ps, OpenIn(ps)) <= p.allocated
    /\ p.trades = Cardinality(Settled(ps))

\* What the guard has seen of the rows when it approved an insertion.
RoomFor(opp, amount) ==
    /\ Cardinality(OpenIn(rows)) < Config.maxOpen
    /\ WithinShare(db, rows, opp, amount, MarketplaceOf, Config.pctMarketplace)

\* A session that has decided would leave the rows and the portfolio fitting;
\* before that it has not changed anything.
Prepared(s) ==
    IF pc[s] = "decided"
    THEN /\ Fits(SavedRows(change[s]), view[s])
         /\ change[s].kind = "open" => RoomFor(change[s].opp, change[s].amount)
    ELSE change[s] = NoChange

RowsInv ==
    /\ Fits(rows, db)
    /\ \A s \in Sessions : Prepared(s)

\* Amounts of rows are natural numbers, and sets of rows are finite.
LEMMA RowsAreFinite ==
    ASSUME NEW ps \in Seq(Row)
    PROVE  /\ OpenIn(ps) \in SUBSET DOMAIN ps /\ Settled(ps) \in SUBSET DOMAIN ps
           /\ IsFiniteSet(OpenIn(ps)) /\ IsFiniteSet(Settled(ps))
           /\ \A I \in SUBSET DOMAIN ps : IsFiniteSet(I)
           /\ \A i \in DOMAIN ps : ps[i] \in Row /\ ps[i].amount \in Nat
  <1>1. DOMAIN ps = 1..Len(ps) /\ Len(ps) \in Nat
    OBVIOUS
  <1>2. IsFiniteSet(DOMAIN ps)
    BY <1>1, FS_Interval
  <1>3. \A I \in SUBSET DOMAIN ps : IsFiniteSet(I)
    BY <1>2, FS_Subset
  <1>4. OpenIn(ps) \in SUBSET DOMAIN ps /\ Settled(ps) \in SUBSET DOMAIN ps
    BY DEF OpenIn, Settled
  <1>5. \A i \in DOMAIN ps : ps[i] \in Row
    BY <1>1
  <1>6. \A i \in DOMAIN ps : ps[i].amount \in Nat
    BY <1>5 DEF Row
  <1> QED
    BY <1>3, <1>4, <1>5, <1>6

\* A new open row adds its amount to what is open.
LEMMA AppendedRow ==
    ASSUME NEW ps \in Seq(Row), NEW r \in Row, r.status = "open"
    PROVE  LET qs == Append(ps, r)
               n == Len(ps) + 1
           IN  /\ n \notin OpenIn(ps) /\ OpenIn(qs) = OpenIn(ps) \cup {n}
               /\ Settled(qs) = Settled(ps)
               /\ qs[n] = r /\ \A i \in OpenIn(ps) : qs[i] = ps[i]
               /\ \A I \in SUBSET OpenIn(ps) :
                    /\ SumAmounts(ps, I) \in Nat
                    /\ SumAmounts(qs, I) = SumAmounts(ps, I)
                    /\ SumAmounts(qs, I \cup {n}) = SumAmounts(ps, I) + r.amount
  <1> DEFINE qs == Append(ps, r)
             n == Len(ps) + 1
  <1>1. /\ DOMAIN ps = 1..Len(ps) /\ Len(ps) \in Nat /\ DOMAIN qs = 1..n
        /\ qs \in Seq(Row) /\ qs[n] = r /\ \A i \in DOMAIN ps : qs[i] = ps[i]
        /\ n = Len(ps) + 1
    OBVIOUS
  <1> HIDE DEF qs, n
  <1>2. n \notin OpenIn(ps) /\ OpenIn(qs) = OpenIn(ps) \cup {n} /\ Settled(qs) = Settled(ps)
    BY <1>1 DEF OpenIn, Settled
  <1>3. \A i \in OpenIn(ps) : qs[i] = ps[i]
    BY <1>1 DEF OpenIn
  <1>4. ASSUME NEW I \in SUBSET OpenIn(ps)
        PROVE  /\ SumAmounts(ps, I) \in Nat
               /\ SumAmounts(qs, I) = SumAmounts(ps, I)
               /\ SumAmounts(qs, I \cup {n}) = SumAmounts(ps, I) + r.amount
    <2> DEFINE f == [i \in DOMAIN ps |-> ps[i].amount]
               g == [i \in DOMAIN qs |-> qs[i].amount]
    <2>1. I \in SUBSET DOMAIN ps /\ IsFiniteSet(I)
      BY RowsAreFinite
    <2>2. \A i \in I : f[i] = g[i] /\ f[i] \in Nat
      BY <1>1, <2>1, RowsAreFinite
    <2>3. n \notin I /\ g[n] = r.amount /\ r.amount \in Nat
      BY <1>1, <1>2 DEF Row
    <2> HIDE DEF f, g
    <2>4. SumFunctionOnSet(f, I) = SumFunctionOnSet(g, I)
      BY <2>1, <2>2, SumSame
    <2>5. SumFunctionOnSet(f, I) \in Nat
      BY <2>1, <2>2, SumPart
    <2>6. SumFunctionOnSet(g, I \cup {n}) = SumFunctionOnSet(g, I) + g[n]
      <3>1. \A i \in I \cup {n} : g[i] \in Int
        BY <2>2, <2>3
      <3> QED BY <2>1, <2>3, <3>1, SumAdd
    <2> QED
      BY <2>3, <2>4, <2>5, <2>6 DEF f, g, SumAmounts
  <1> QED
    BY <1>1, <1>2, <1>3, <1>4, Zenon DEF qs, n

RowClosed(ps, k, status) ==
    [i \in DOMAIN ps |-> IF i = k THEN [ps[i] EXCEPT !.status = status] ELSE ps[i]]

\* A row that is closed takes its amount out of what is open.
LEMMA ClosedRow ==
    ASSUME NEW ps \in Seq(Row), NEW k \in OpenIn(ps), NEW status \in {"closed", "failed"}
    PROVE  LET qs == RowClosed(ps, k, status)
           IN  /\ OpenIn(qs) = OpenIn(ps) \ {k}
               /\ Settled(qs) = Settled(ps) \cup {k}
               /\ \A i \in OpenIn(qs) : qs[i] = ps[i]
               /\ SumAmounts(ps, OpenIn(ps)) \in Nat
               /\ SumAmounts(qs, OpenIn(qs)) = SumAmounts(ps, OpenIn(ps)) - ps[k].amount
  <1> DEFINE qs == RowClosed(ps, k, status)
  <1>1. DOMAIN qs = DOMAIN ps /\ k \in DOMAIN ps /\ ps[k].status = "open"
    BY DEF OpenIn, RowClosed
  <1>2. qs[k].status = status /\ \A i \in DOMAIN ps : i # k => qs[i] = ps[i]
    <2>1. ps[k] \in Row
      BY <1>1, RowsAreFinite
    <2>2. [ps[k] EXCEPT !.status = status].status = status
      BY <2>1 DEF Row
    <2> QED
      BY <1>1, <2>2 DEF RowClosed
  <1> HIDE DEF qs
  <1>3. OpenIn(qs) = OpenIn(ps) \ {k} /\ Settled(qs) = Settled(ps) \cup {k}
    BY <1>1, <1>2 DEF OpenIn, Settled
  <1>4. \A i \in OpenIn(qs) : qs[i] = ps[i]
    BY <1>2, <1>3 DEF OpenIn
  <1> DEFINE f == [i \in DOMAIN ps |-> ps[i].amount]
             g == [i \in DOMAIN qs |-> qs[i].amount]
             I == OpenIn(ps)
             J == OpenIn(ps) \ {k}
  <1>5. IsFiniteSet(I) /\ IsFiniteSet(J) /\ \A i \in I : f[i] \in Nat /\ f[i] \in Int
    BY RowsAreFinite, FS_RemoveElement
  <1>6. \A i \in J : g[i] = f[i]
    BY <1>1, <1>2, RowsAreFinite
  <1>7. f[k] = ps[k].amount
    BY <1>1
  <1> HIDE DEF f, g
  <1>8. SumFunctionOnSet(f, I) = f[k] + SumFunctionOnSet(f, J)
    <2> HIDE DEF I
    <2>1. k \in I
      BY DEF I
    <2> QED
      BY <1>5, <2>1, SumRemove DEF I
  <1>9. SumFunctionOnSet(g, J) = SumFunctionOnSet(f, J)
    BY <1>5, <1>6, SumSame, Zenon
  <1>10. SumFunctionOnSet(f, I) \in Nat /\ SumFunctionOnSet(f, J) \in Nat
    BY <1>5, SumPart
  <1>11. f[k] \in Nat
    BY <1>5
  <1>12. SumFunctionOnSet(g, J) = SumFunctionOnSet(f, I) - f[k]
    BY <1>8, <1>9, <1>10, <1>11
  <1> QED
    BY <1>3, <1>4, <1>7, <1>10, <1>12, Zenon DEF f, g, I, J, qs, SumAmounts

\* Rows and portfolio still fit after an opening: a second position of an
\* opportunity is allocated and has no row.
LEMMA OpeningFits ==
    ASSUME rows \in Seq(Row), db \in PortfolioState, Fits(rows, db),
           NEW opp \in Opps, NEW amount \in Nat, NEW entry \in Nat
    PROVE  Fits(InsertUnlessOpen(Opening(opp, amount, entry)), OpenPosition(db, amount))
  <1> DEFINE r == [opp |-> opp, amount |-> amount, entry |-> entry, status |-> "open"]
             p == OpenPosition(db, amount)
             qs == InsertUnlessOpen(Opening(opp, amount, entry))
  <1> SUFFICES Fits(qs, p)
    OBVIOUS
  <1>1. p.allocated = db.allocated + amount /\ p.trades = db.trades /\ db.allocated \in Int
    BY DEF OpenPosition, PortfolioState
  <1>2. SumAmounts(rows, OpenIn(rows)) \in Nat
    <2>1. \A i \in OpenIn(rows) : [j \in DOMAIN rows |-> rows[j].amount][i] \in Nat
      BY RowsAreFinite
    <2> QED
      BY <2>1, RowsAreFinite, SumPart DEF SumAmounts
  <1>3. CASE OpenRows(opp) # {}
    <2>1. qs = rows
      BY <1>3 DEF InsertUnlessOpen, Opening
    <2> HIDE DEF p, qs
    <2> QED
      BY <1>1, <1>2, <2>1 DEF Fits
  <1>4. CASE OpenRows(opp) = {}
    <2>1. qs = Append(rows, r)
      BY <1>4 DEF InsertUnlessOpen, Opening
    <2>2. r \in Row /\ r.status = "open" /\ r.opp = opp /\ r.amount = amount
      BY DEF Row
    <2> HIDE DEF p, qs, r
    <2> DEFINE n == Len(rows) + 1
    <2>3. /\ n \notin OpenIn(rows) /\ OpenIn(qs) = OpenIn(rows) \cup {n}
          /\ Settled(qs) = Settled(rows)
          /\ qs[n] = r /\ \A i \in OpenIn(rows) : qs[i] = rows[i]
          /\ \A I \in SUBSET OpenIn(rows) :
                /\ SumAmounts(rows, I) \in Nat
                /\ SumAmounts(qs, I) = SumAmounts(rows, I)
                /\ SumAmounts(qs, I \cup {n}) = SumAmounts(rows, I) + r.amount
      BY <2>1, <2>2, AppendedRow
    <2>4. UniqueOpen(qs)
      BY <1>4, <2>2, <2>3 DEF UniqueOpen, Fits, OpenRows
    <2> QED
      BY <1>1, <1>2, <2>2, <2>3, <2>4 DEF Fits
  <1> QED
    BY <1>3, <1>4

\* And after a closing: the one open row of the opportunity is the position.
LEMMA ClosingFits ==
    ASSUME rows \in Seq(Row), db \in PortfolioState, Fits(rows, db),
           NEW opp, NEW k \in OpenRows(opp), NEW status \in {"closed", "failed"},
           NEW p, p.allocated = db.allocated - rows[k].amount, p.trades = db.trades + 1
    PROVE  Fits(CloseOpenRow(Closing(opp, status)), p)
  <1> DEFINE qs == CloseOpenRow(Closing(opp, status))
  <1>1. k \in OpenIn(rows) /\ OpenRows(opp) = {k}
    BY DEF OpenRows, Fits, UniqueOpen
  <1>2. qs = RowClosed(rows, k, status)
    BY <1>1 DEF CloseOpenRow, Closing, RowClosed
  <1> HIDE DEF qs
  <1>3. /\ OpenIn(qs) = OpenIn(rows) \ {k}
        /\ Settled(qs) = Settled(rows) \cup {k}
        /\ \A i \in OpenIn(qs) : qs[i] = rows[i]
        /\ SumAmounts(rows, OpenIn(rows)) \in Nat
        /\ SumAmounts(qs, OpenIn(qs)) = SumAmounts(rows, OpenIn(rows)) - rows[k].amount
    <2> HIDE DEF qs
    <2> QED BY <1>1, <1>2, ClosedRow
  <1>4. UniqueOpen(qs)
    BY <1>3 DEF UniqueOpen, Fits
  <1>5. p.trades = Cardinality(Settled(qs))
    <2>1. k \notin Settled(rows)
      BY <1>1 DEF OpenIn, Settled
    <2>2. Cardinality(Settled(rows) \cup {k}) = Cardinality(Settled(rows)) + 1
      BY <2>1, RowsAreFinite, FS_AddElement
    <2> QED
      BY <1>3, <2>2 DEF Fits
  <1>6. db.allocated \in Int /\ rows[k].amount \in Nat /\ k \in DOMAIN rows
    BY <1>1, RowsAreFinite DEF PortfolioState
  <1>7. SumAmounts(qs, OpenIn(qs)) <= p.allocated
    BY <1>3, <1>6 DEF Fits
  <1> QED
    BY <1>4, <1>5, <1>7 DEF Fits, qs

\* The guard approves an insertion only where the rows leave room for it.
LEMMA ApprovalHasRoom ==
    ASSUME NEW opp, NEW weight, NEW required, NEW t, NEW amount \in Nat,
           amount = Evaluate(db, rows, opp, weight, required, t)
    PROVE  RoomFor(opp, amount)
  <1>1. amount = SizePosition(db, rows, opp, weight, required)
    BY DEF Evaluate, Rejected
  <1>2. Diversified(db, rows, opp, SizePosition(db, rows, opp, weight, required))
    BY DEF Evaluate, Rejected
  <1> QED
    BY <1>1, <1>2, Zenon DEF Diversified, RoomFor

\* What a change would save depends on the rows alone.
LEMMA RowsUnchanged ==
    ASSUME UNCHANGED rows, NEW s, NEW c \in Change, change'[s] = c
    PROVE  SavedRows(change[s])' = SavedRows(c)
  <1>1. c.kind \in {"none", "open", "close"}
    BY DEF Change, NoChange
  <1>2. OpenRows(change[s].opp)' = OpenRows(c.opp)
    BY DEF OpenRows, OpenIn
  <1>3. CASE c.kind = "none"
    BY <1>3 DEF SavedRows
  <1>4. CASE c.kind = "open"
    <2>1. InsertUnlessOpen(change[s])' = InsertUnlessOpen(c)
      BY <1>2, Zenon DEF InsertUnlessOpen
    <2> QED
      BY <1>4, <2>1 DEF SavedRows
  <1>5. CASE c.kind = "close"
    <2>1. CloseOpenRow(change[s])' = CloseOpenRow(c)
      BY <1>2 DEF CloseOpenRow
    <2> QED
      BY <1>5, <2>1 DEF SavedRows
  <1> QED
    BY <1>1, <1>3, <1>4, <1>5

\* A session decides: nothing is said of the others, and what it prepared fits.
LEMMA DecideRows ==
    ASSUME IInv, RowsInv, NEW s \in Sessions,
           pc' = [pc EXCEPT ![s] = "decided"], UNCHANGED <<db, rows>>,
           NEW v, view' = [view EXCEPT ![s] = v],
           NEW c \in Change, change' = [change EXCEPT ![s] = c],
           Fits(SavedRows(c), v),
           c.kind = "open" => RoomFor(c.opp, c.amount)
    PROVE  RowsInv'
  <1>1. Fits(rows, db)'
    BY DEF RowsInv, Fits, UniqueOpen, OpenIn, SumAmounts, Settled
  <1>3. ASSUME NEW u \in Sessions PROVE Prepared(u)'
    <2>1. /\ pc' \in [Sessions -> {"idle", "waiting", "locked", "decided"}]
          /\ u # s => pc'[u] = pc[u] /\ view'[u] = view[u] /\ change'[u] = change[u]
          /\ pc'[s] = "decided" /\ view'[s] = v /\ change'[s] = c
      BY DEF IInv, TypeOK
    <2>2. Prepared(u)
      BY DEF RowsInv
    <2>3. CASE u = s
      <3>1. SavedRows(change[s])' = SavedRows(c)
        BY <2>1, RowsUnchanged
      <3>2. Fits(SavedRows(change[s])', view'[s])
        BY <2>1, <3>1
      <3>3. (change[s].kind = "open" => RoomFor(change[s].opp, change[s].amount))'
        BY <2>1 DEF RoomFor, WithinShare
      <3> QED
        BY <2>1, <2>3, <3>2, <3>3, Zenon DEF Prepared, Fits
    <2>4. CASE u # s
      BY <2>1, <2>2, <2>4 DEF Prepared, SavedRows, InsertUnlessOpen, CloseOpenRow,
         OpenRows, RoomFor, WithinShare
    <2> QED
      BY <2>3, <2>4
  <1> QED
    BY <1>1, <1>3 DEF RowsInv

\* A transaction ends: when it commits, the rows and the row of
\* portfolio_state become what its session prepared, and no other has decided.
LEMMA FinishRows ==
    ASSUME IInv, RowsInv, NEW s \in Sessions, NEW answer, Finish(s, answer),
           \/ UNCHANGED <<db, rows>>
           \/ pc[s] = "decided" /\ db' = view[s] /\ rows' = SavedRows(change[s])
    PROVE  RowsInv'
  <1>1. /\ pc \in [Sessions -> {"idle", "waiting", "locked", "decided"}]
        /\ pc' = [pc EXCEPT ![s] = "idle"]
        /\ view' = [view EXCEPT ![s] = None]
        /\ change' = [change EXCEPT ![s] = NoChange]
        /\ view \in [Sessions -> PortfolioState \cup {None}]
        /\ change \in [Sessions -> Change]
    BY DEF IInv, TypeOK, Finish
  <1>2. Fits(rows, db)'
    <2>1. CASE UNCHANGED <<db, rows>>
      BY <2>1 DEF RowsInv, Fits, UniqueOpen, OpenIn, SumAmounts, Settled
    <2>2. CASE pc[s] = "decided" /\ db' = view[s] /\ rows' = SavedRows(change[s])
      BY <2>2, Zenon DEF RowsInv, Prepared
    <2> QED
      BY <2>1, <2>2
  <1>3. ASSUME NEW u \in Sessions PROVE Prepared(u)'
    <2>1. Prepared(u)
      BY DEF RowsInv
    <2>2. CASE u = s
      <3>1. pc'[u] # "decided" /\ change'[u] = NoChange
        BY <1>1, <2>2
      <3> QED
        BY <3>1, Zenon DEF Prepared
    <2>3. CASE u # s
      <3>1. pc'[u] = pc[u] /\ view'[u] = view[u] /\ change'[u] = change[u]
        BY <1>1, <2>3
      <3>2. CASE pc[u] = "decided"
        <4>1. UNCHANGED <<db, rows>>
          BY <2>3, <3>2 DEF IInv, OnlyHolderDecides
        <4> QED
          BY <2>1, <3>1, <4>1 DEF Prepared, SavedRows, InsertUnlessOpen, CloseOpenRow,
             OpenRows, RoomFor, WithinShare
      <3>3. CASE pc[u] # "decided"
        BY <2>1, <3>1, <3>3, Zenon DEF Prepared
      <3> QED
        BY <3>2, <3>3
    <2> QED
      BY <2>2, <2>3
  <1> QED
    BY <1>2, <1>3, Zenon DEF RowsInv

\* A session that approves nothing, or finds no position, commits what it read.
LEMMA UndecidedRows ==
    ASSUME IInv, RowsInv, NEW s \in Sessions, pc[s] = "locked",
           pc' = [pc EXCEPT ![s] = "decided"], UNCHANGED <<db, rows, change>>,
           view' = [view EXCEPT ![s] = db]
    PROVE  RowsInv'
  <1>1. change[s] = NoChange
    BY DEF RowsInv, Prepared
  <1>2. change' = [change EXCEPT ![s] = NoChange]
    BY <1>1 DEF IInv, TypeOK
  <1>3. NoChange \in Change /\ NoChange.kind # "open" /\ SavedRows(NoChange) = rows
    BY DEF NoChange, Change, SavedRows
  <1>4. Fits(SavedRows(NoChange), db)
    BY <1>3 DEF RowsInv
  <1> HIDE DEF NoChange
  <1> QED
    BY <1>2, <1>3, <1>4, DecideRows

LEMMA ExecuteRows ==
    ASSUME IInv, RowsInv, NEW s \in Sessions, Execute(s)
    PROVE  RowsInv'
  <1> DEFINE c == request[s]
             amount == Evaluate(db, rows, c.opp, c.weight, c.required, now)
  <1>1. /\ pc[s] = "locked" /\ c.op = "open"
        /\ pc' = [pc EXCEPT ![s] = "decided"]
        /\ UNCHANGED <<db, rows>>
    BY Zenon DEF Execute
  <1>2. rows \in Seq(Row) /\ db \in PortfolioState /\ db.available \in Int
    BY DEF IInv, TypeOK, PortfolioState
  <1>3. CASE view' = [view EXCEPT ![s] = db] /\ UNCHANGED change
    BY <1>1, <1>3, UndecidedRows
  <1>4. CASE /\ amount \in 0..db.available
             /\ view' = [view EXCEPT ![s] = OpenPosition(db, amount)]
             /\ change' = [change EXCEPT ![s] = Opening(c.opp, amount, c.required)]
    <2>1. amount \in Nat
      BY <1>2, <1>4
    <2>2. c.opp \in Opps /\ c.required \in Nat
      BY <1>1, RequiredAssumption DEF IInv, Called, Call
    <2>3. RoomFor(c.opp, amount)
      BY <2>1, ApprovalHasRoom
    <2> DEFINE d == Opening(c.opp, amount, c.required)
    <2> HIDE DEF amount
    <2>4. /\ d \in Change /\ d.kind = "open" /\ d.opp = c.opp /\ d.amount = amount
          /\ SavedRows(d) = InsertUnlessOpen(d)
      BY <2>1, <2>2 DEF Opening, Change, SavedRows
    <2>5. Fits(InsertUnlessOpen(d), OpenPosition(db, amount))
      BY <1>2, <2>1, <2>2, OpeningFits DEF RowsInv
    <2> HIDE DEF d, c
    <2>6. Fits(SavedRows(d), OpenPosition(db, amount))
      BY <2>4, <2>5
    <2>7. d.kind = "open" => RoomFor(d.opp, d.amount)
      BY <2>3, <2>4
    <2>8. change' = [change EXCEPT ![s] = d]
      BY <1>4 DEF d
    <2> QED
      BY <1>1, <1>4, <2>4, <2>6, <2>7, <2>8, DecideRows
  <1> QED
    BY <1>3, <1>4, Zenon DEF Execute

LEMMA CloseRows ==
    ASSUME IInv, RowsInv, NEW s \in Sessions, Close(s)
    PROVE  RowsInv'
  <1> DEFINE c == request[s]
  <1>1. /\ pc[s] = "locked" /\ c.op = "close"
        /\ pc' = [pc EXCEPT ![s] = "decided"]
        /\ UNCHANGED <<db, rows>>
    BY Zenon DEF Close
  <1>2. rows \in Seq(Row) /\ db \in PortfolioState /\ c.opp \in Opps
    BY <1>1 DEF IInv, TypeOK, Called, Call
  <1>3. CASE view' = [view EXCEPT ![s] = db] /\ UNCHANGED change
    BY <1>1, <1>3, UndecidedRows
  <1>4. ASSUME NEW i \in OpenRows(c.opp), NEW status \in {"closed", "failed"}, NEW v,
               v.allocated = db.allocated - rows[i].amount, v.trades = db.trades + 1,
               view' = [view EXCEPT ![s] = v],
               change' = [change EXCEPT ![s] = Closing(c.opp, status)]
        PROVE  RowsInv'
    <2> DEFINE d == Closing(c.opp, status)
    <2>1. /\ d \in Change /\ d.kind # "open" /\ SavedRows(d) = CloseOpenRow(d)
      BY <1>2 DEF Closing, Change, SavedRows
    <2>2. Fits(CloseOpenRow(d), v)
      BY <1>2, <1>4, ClosingFits DEF RowsInv
    <2>3. change' = [change EXCEPT ![s] = d]
      BY <1>4
    <2> HIDE DEF d
    <2>4. Fits(SavedRows(d), v)
      BY <2>1, <2>2
    <2> QED
      BY <1>1, <1>4, <2>1, <2>3, <2>4, DecideRows
  <1>5. ASSUME NEW i \in OpenRows(c.opp), c.profit >= 0,
               view' = [view EXCEPT ![s] =
                          ClosePositionSuccess(db, rows[i].amount, c.profit)],
               change' = [change EXCEPT ![s] = Closing(c.opp, "closed")]
        PROVE  RowsInv'
    <2> DEFINE v == ClosePositionSuccess(db, rows[i].amount, c.profit)
    <2>1. v.allocated = db.allocated - rows[i].amount /\ v.trades = db.trades + 1
      BY <1>2 DEF ClosePositionSuccess, PortfolioState
    <2>2. view' = [view EXCEPT ![s] = v]
      BY <1>5
    <2> HIDE DEF v, c
    <2> QED
      BY <1>4, <1>5, <2>1, <2>2
  <1>6. ASSUME NEW i \in OpenRows(c.opp), c.profit < 0,
               view' = [view EXCEPT ![s] =
                          ClosePositionFailure(db, rows[i].amount, -c.profit, now)],
               change' = [change EXCEPT ![s] = Closing(c.opp, "failed")]
        PROVE  RowsInv'
    <2> DEFINE v == ClosePositionFailure(db, rows[i].amount, -c.profit, now)
    <2>1. v.allocated = db.allocated - rows[i].amount /\ v.trades = db.trades + 1
      BY <1>2 DEF ClosePositionFailure, PortfolioState
    <2>2. view' = [view EXCEPT ![s] = v]
      BY <1>6
    <2> HIDE DEF v, c
    <2> QED
      BY <1>4, <1>6, <2>1, <2>2
  <1> QED
    BY <1>3, <1>5, <1>6, Zenon DEF Close

\* A step of another kind: nothing that the rows' invariant speaks of changes.
LEMMA KeepRows ==
    ASSUME IInv, RowsInv, UNCHANGED <<db, rows, view, change>>,
           \A s \in Sessions : (pc'[s] = "decided") <=> (pc[s] = "decided")
    PROVE  RowsInv'
  <1>1. Fits(rows, db)'
    BY DEF RowsInv, Fits, UniqueOpen, OpenIn, SumAmounts, Settled
  <1>2. ASSUME NEW u \in Sessions PROVE Prepared(u)'
    BY DEF RowsInv, Prepared, SavedRows, InsertUnlessOpen, CloseOpenRow,
       OpenRows, RoomFor, WithinShare
  <1> QED
    BY <1>1, <1>2, Zenon DEF RowsInv

\* No session reads or writes outside the lock, so what was prepared still
\* fits when it is committed.
LEMMA RowsInductive == IInv /\ RowsInv /\ [Next]_vars => RowsInv'
  <1> SUFFICES ASSUME IInv, RowsInv, [Next]_vars
               PROVE  RowsInv'
    OBVIOUS
  <1>1. pc \in [Sessions -> {"idle", "waiting", "locked", "decided"}]
    BY DEF IInv, TypeOK
  <1>2. ASSUME NEW s \in Sessions, NEW c \in Call, Begin(s, c)
        PROVE  RowsInv'
    BY <1>1, <1>2, KeepRows DEF Begin
  <1>3. ASSUME NEW s \in Sessions, Lock(s)
        PROVE  RowsInv'
    BY <1>1, <1>3, KeepRows DEF Lock
  <1>4. ASSUME NEW s \in Sessions, Commit(s) \/ CommitUnacknowledged(s) \/ Rollback(s)
        PROVE  RowsInv'
    BY <1>4, FinishRows DEF Commit, CommitUnacknowledged, Rollback
  <1>5. CASE Tick \/ UNCHANGED vars
    BY <1>5, KeepRows DEF Tick, vars
  <1> QED
    BY <1>2, <1>3, <1>4, <1>5, ExecuteRows, CloseRows, Zenon DEF Next

LEMMA RowsInvariance == Spec => []RowsInv
  <1>1. Init => RowsInv
    <2> SUFFICES ASSUME Init PROVE RowsInv
      OBVIOUS
    <2>1. OpenIn(rows) = {} /\ Settled(rows) = {} /\ SumAmounts(rows, {}) = 0
      BY SumEmpty DEF Init, OpenIn, Settled, SumAmounts
    <2>2. db.allocated = 0 /\ db.trades = 0
      BY DEF Init, InitialPortfolio
    <2>3. Fits(rows, db)
      BY <2>1, <2>2, FS_EmptySet DEF Fits, UniqueOpen
    <2>4. \A s \in Sessions : Prepared(s)
      BY DEF Init, Prepared
    <2> QED
      BY <2>3, <2>4 DEF RowsInv
  <1> QED
    BY <1>1, RowsInductive, Invariance, PTL DEF Spec

\* The database has allocated no less than the amounts of the open rows: a
\* commit that loses its acknowledgement, a rollback or a second opening of an
\* opportunity never leaves a row without capital behind it.
THEOREM RowsFunded == Spec => []OpenRowsFunded
  <1>1. RowsInv => OpenRowsFunded
    BY DEF RowsInv, Fits, OpenRowsFunded
  <1> QED
    BY <1>1, RowsInvariance, PTL

\* The counter of trades is the number of rows that were closed: no close is
\* counted twice, and none closes two rows.
THEOREM TradesCounted == Spec => []TradesAreClosedRows
  <1>1. RowsInv => TradesAreClosedRows
    BY DEF RowsInv, Fits, TradesAreClosedRows, Settled
  <1> QED
    BY <1>1, RowsInvariance, PTL

-----------------------------------------------------------------------------
(* The limits of a portfolio *)

LEMMA InsertedChanges ==
    ASSUME Cardinality(OpenIn(rows)) \in Nat, Inserted
    PROVE  rows' # rows
  <1> SUFFICES ASSUME rows' = rows PROVE FALSE
    OBVIOUS
  <1>1. OpenIn(rows)' = OpenIn(rows)
    BY DEF OpenIn
  <1> QED
    BY <1>1 DEF Inserted

\* Of the changes that are committed, only an opening without an open row of
\* its opportunity adds an open row.
LEMMA OnlyInsertionsAdd ==
    ASSUME rows \in Seq(Row), UniqueOpen(rows), NEW c \in Change, rows' = SavedRows(c), Inserted
    PROVE  /\ c \in [kind : {"open"}, opp : Opps, amount : Nat, entry : Nat]
           /\ rows' = Append(rows, [opp |-> c.opp, amount |-> c.amount, entry |-> c.entry,
                                    status |-> "open"])
  <1>1. Cardinality(OpenIn(rows)) \in Nat /\ IsFiniteSet(OpenIn(rows))
    BY RowsAreFinite, FS_CardinalityType
  <1>2. rows' # rows
    BY <1>1, InsertedChanges
  <1>3. c.kind # "close"
    <2> SUFFICES ASSUME c.kind = "close" PROVE FALSE
      OBVIOUS
    <2>1. c.status \in {"closed", "failed"} /\ rows' = CloseOpenRow(c)
      BY <1>2 DEF Change, SavedRows, NoChange
    <2>2. OpenIn(rows)' \subseteq OpenIn(rows)
      <3> SUFFICES ASSUME NEW i \in OpenIn(rows)' PROVE i \in OpenIn(rows)
        OBVIOUS
      <3>1. i \in DOMAIN rows /\ rows[i] \in Row /\ rows'[i].status = "open"
        BY <2>1, RowsAreFinite DEF OpenIn, CloseOpenRow
      <3>2. i \notin OpenRows(c.opp) => rows'[i] = rows[i]
        BY <2>1, <3>1 DEF CloseOpenRow
      <3> QED
        BY <3>1, <3>2 DEF OpenRows, OpenIn
    <2>3. Cardinality(OpenIn(rows)') <= Cardinality(OpenIn(rows))
      BY <1>1, <2>2, FS_Subset
    <2>4. Cardinality(OpenIn(rows)') \in Nat
      BY <1>1, <2>2, FS_Subset, FS_CardinalityType
    <2> QED
      BY <1>1, <2>3, <2>4 DEF Inserted
  <1>4. c.kind # "none"
    BY <1>2 DEF SavedRows
  <1>5. c \in [kind : {"open"}, opp : Opps, amount : Nat, entry : Nat]
    BY <1>3, <1>4 DEF Change, NoChange
  <1>6. rows' = InsertUnlessOpen(c)
    BY <1>5 DEF SavedRows
  <1> QED
    BY <1>2, <1>5, <1>6 DEF InsertUnlessOpen

\* What the guard saw when it approved is what the insertion finds.
LEMMA InsertionKeepsShares ==
    ASSUME IInv, RowsInv, [Next]_vars, Inserted
    PROVE  LET opp == rows'[Len(rows')].opp
           IN  /\ MarketplaceOf[opp] # None =>
                     AllocatedTo(rows', MarketplaceOf, MarketplaceOf[opp]) * Scale
                         <= Config.pctMarketplace * Larger(db.total, 1)
               /\ Cardinality(OpenIn(rows)') <= Config.maxOpen
  <1>1. /\ rows \in Seq(Row) /\ UniqueOpen(rows) /\ change \in [Sessions -> Change]
        /\ Cardinality(OpenIn(rows)) \in Nat /\ IsFiniteSet(OpenIn(rows))
    BY RowsAreFinite, FS_CardinalityType DEF IInv, TypeOK, RowsInv, Fits
  <1>2. rows' # rows
    BY <1>1, InsertedChanges
  <1>3. PICK s \in Sessions : pc[s] = "decided" /\ rows' = SavedRows(change[s])
    BY <1>2, Zenon DEF Next, Begin, Lock, Execute, Close, Commit, CommitUnacknowledged,
       Rollback, Tick, vars
  <1> DEFINE c == change[s]
             n == Len(rows) + 1
             r == [opp |-> c.opp, amount |-> c.amount, entry |-> c.entry, status |-> "open"]
             m == MarketplaceOf[c.opp]
             I == {i \in OpenIn(rows) : MarketplaceOf[rows[i].opp] = m}
             J == {i \in OpenIn(rows') : MarketplaceOf[rows'[i].opp] = m}
  <1>4. /\ c \in [kind : {"open"}, opp : Opps, amount : Nat, entry : Nat]
        /\ rows' = Append(rows, r)
    BY <1>1, <1>3, OnlyInsertionsAdd
  <1>5. RoomFor(c.opp, c.amount)
    BY <1>3, <1>4 DEF RowsInv, Prepared
  <1>6. r \in Row /\ r.status = "open" /\ r.opp = c.opp /\ r.amount = c.amount
    BY <1>4 DEF Row
  <1>7. Len(rows') = n /\ rows'[n].opp = c.opp
    BY <1>1, <1>4, <1>6
  <1> HIDE DEF r
  <1>8. /\ n \notin OpenIn(rows) /\ OpenIn(rows') = OpenIn(rows) \cup {n}
        /\ rows'[n] = r /\ \A i \in OpenIn(rows) : rows'[i] = rows[i]
        /\ SumAmounts(rows', I \cup {n}) = SumAmounts(rows, I) + r.amount
    <2>1. I \in SUBSET OpenIn(rows)
      OBVIOUS
    <2> HIDE DEF I
    <2> DEFINE qs == Append(rows, r)
    <2>2. /\ n \notin OpenIn(rows) /\ OpenIn(qs) = OpenIn(rows) \cup {n}
          /\ qs[n] = r /\ \A i \in OpenIn(rows) : qs[i] = rows[i]
          /\ \A S \in SUBSET OpenIn(rows) :
                SumAmounts(qs, S \cup {n}) = SumAmounts(rows, S) + r.amount
      BY <1>1, <1>6, AppendedRow
    <2>3. rows' = qs
      BY <1>4
    <2> HIDE DEF qs
    <2> QED
      BY <2>1, <2>2, <2>3
  <1>9. J = I \cup {n}
    BY <1>6, <1>8
  <1>10. Cardinality(OpenIn(rows')) = Cardinality(OpenIn(rows)) + 1
    BY <1>1, <1>8, FS_AddElement
  <1>11. Config.maxOpen \in Nat
    BY ConfigAssumption DEF ConfigFields
  <1>12. Cardinality(OpenIn(rows)') <= Config.maxOpen
    <2>1. Cardinality(OpenIn(rows)') = Cardinality(OpenIn(rows'))
      OBVIOUS
    <2> QED
      BY <1>1, <1>5, <1>10, <1>11, <2>1 DEF RoomFor
  <1>13. m # None => AllocatedTo(rows', MarketplaceOf, m) * Scale
                       <= Config.pctMarketplace * Larger(db.total, 1)
    <2>1. AllocatedTo(rows', MarketplaceOf, m) = AllocatedTo(rows, MarketplaceOf, m) + c.amount
      <3>1. SumAmounts(rows', J) = SumAmounts(rows, I) + c.amount
        BY <1>6, <1>8, <1>9, Zenon
      <3> QED
        BY <3>1, Zenon DEF AllocatedTo
    <2>2. m # None => (AllocatedTo(rows, MarketplaceOf, m) + c.amount) * Scale
                        <= Config.pctMarketplace * Larger(db.total, 1)
      BY <1>5, Zenon DEF RoomFor, WithinShare
    <2> QED
      BY <2>1, <2>2, Zenon
  <1> QED
    BY <1>7, <1>12, <1>13, Zenon

\* Every insertion leaves the marketplace of the position within its share and
\* the open positions within their number, whatever was committed between the
\* call and its turn with the lock.
THEOREM SharesKept == Spec => InsertionsKeepShares
  <1>1. IInv /\ RowsInv /\ [Next]_vars =>
          [Inserted =>
             LET opp == rows'[Len(rows')].opp
             IN  /\ MarketplaceOf[opp] # None =>
                       AllocatedTo(rows', MarketplaceOf, MarketplaceOf[opp]) * Scale
                           <= Config.pctMarketplace * Larger(db.total, 1)
                 /\ Cardinality(OpenIn(rows)') <= Config.maxOpen]_vars
    BY InsertionKeepsShares, Zenon
  <1> QED
    BY <1>1, Invariance, RowsInvariance, PTL DEF Spec, InsertionsKeepShares

-----------------------------------------------------------------------------
(* api/capital_manager.py *)

IsList(s) == s \in Seq(Range(s))

\* What a manager is after some candidates: no more is open than may be, and
\* what a trade uses is kept until its cooldown is over, which no later trade
\* came before.
Spaced(acc) ==
    /\ IsList(acc.held) /\ Cardinality(OpenIn(acc.held)) <= Manager.maxActive
    /\ \A k \in DOMAIN acc.cool : acc.cool[k] \in Nat
    /\ IsList(acc.bought)
    /\ \A i \in DOMAIN acc.bought :
         /\ acc.bought[i].at \in 0..clock
         /\ \A k \in Uses(acc.bought[i]) :
              k \in DOMAIN acc.cool /\ acc.cool[k] >= acc.bought[i].at + Cooldown(k)
    /\ \A i, j \in DOMAIN acc.bought : i < j =>
         \A k \in Uses(acc.bought[i]) \cap Uses(acc.bought[j]) :
           acc.bought[j].at >= acc.bought[i].at + Cooldown(k)

Memory == [money |-> money, held |-> held, cool |-> coolUntil, bought |-> bought]

ManagerInv == clock \in Nat /\ Spaced(Memory)

\* A function on the first numbers is a list.
LEMMA FirstNumbers ==
    ASSUME NEW n \in Nat, NEW f, f = [i \in 1..n |-> f[i]]
    PROVE  IsList(f) /\ Len(f) = n
  <1>1. f \in [1..n -> Range(f)]
    BY DEF Range
  <1>. QED
    BY <1>1, SeqDef, LenProperties DEF IsList

LEMMA SeqIsList ==
    ASSUME NEW S, NEW s \in Seq(S)
    PROVE  IsList(s)
  <1>1. Len(s) \in Nat /\ s = [i \in 1..Len(s) |-> s[i]]
    BY LenProperties
  <1>. QED
    BY <1>1, FirstNumbers

LEMMA ListOf ==
    ASSUME NEW s, IsList(s)
    PROVE  Len(s) \in Nat /\ DOMAIN s = 1..Len(s) /\ s = [i \in 1..Len(s) |-> s[i]]
  BY LenProperties DEF IsList

LEMMA Appended ==
    ASSUME NEW s, IsList(s), NEW e, NEW t, t = Append(s, e)
    PROVE  /\ IsList(t) /\ DOMAIN t = 1..(Len(s) + 1)
           /\ \A i \in 1..Len(s) : t[i] = s[i]
           /\ t[Len(s) + 1] = e
  <1>. DEFINE S == Range(s) \cup {e}
  <1>1. s \in Seq(S)
    BY SeqWidens DEF IsList
  <1>2. /\ t \in Seq(S) /\ Len(t) = Len(s) + 1
        /\ \A i \in 1..Len(s) : t[i] = s[i]
        /\ t[Len(s) + 1] = e
    BY <1>1, AppendProperties
  <1>3. Len(s) \in Nat /\ DOMAIN t = 1..Len(t) /\ t = [i \in 1..Len(t) |-> t[i]]
    BY <1>1, <1>2, LenProperties
  <1>4. IsList(t)
    <2>. HIDE DEF S
    <2>. QED
      BY <1>2, SeqIsList
  <1>. QED
    BY <1>2, <1>3, <1>4

LEMMA CooldownTypes == \A k : Cooldown(k) \in Nat
  BY ManagerAssumption DEF Cooldown, ManagerFields

\* One more open position than there were, at most.
LEMMA OneMoreOpen ==
    ASSUME NEW s, IsList(s), NEW e, Cardinality(OpenIn(s)) < Manager.maxActive
    PROVE  Cardinality(OpenIn(Append(s, e))) <= Manager.maxActive
  <1>. DEFINE t == Append(s, e)
  <1>1. Len(s) \in Nat /\ DOMAIN s = 1..Len(s)
    BY ListOf
  <1>2. DOMAIN t = 1..(Len(s) + 1) /\ \A i \in 1..Len(s) : t[i] = s[i]
    BY Appended
  <1>3. OpenIn(t) \subseteq OpenIn(s) \cup {Len(s) + 1} /\ OpenIn(s) \subseteq 1..Len(s)
    <2>. HIDE DEF t
    <2>. QED
      BY <1>1, <1>2 DEF OpenIn
  <1>4. IsFiniteSet(OpenIn(s)) /\ Cardinality(OpenIn(s)) \in Nat
    <2>1. IsFiniteSet(1..Len(s))
      BY <1>1, FS_Interval
    <2>2. IsFiniteSet(OpenIn(s))
      BY <1>3, <2>1, FS_Subset
    <2>. QED
      BY <2>2, FS_CardinalityType
  <1>5. /\ IsFiniteSet(OpenIn(s) \cup {Len(s) + 1})
        /\ Cardinality(OpenIn(s) \cup {Len(s) + 1}) <= Cardinality(OpenIn(s)) + 1
    <2>. DEFINE S == OpenIn(s)
    <2>. HIDE DEF S, t
    <2>1. IsFiniteSet(S) /\ Cardinality(S) \in Nat
      BY <1>4 DEF S
    <2>2. PICK x : x = Len(s) + 1
      OBVIOUS
    <2>3. /\ IsFiniteSet(S \cup {x})
          /\ (x \in S \/ Cardinality(S \cup {x}) = Cardinality(S) + 1)
      BY <2>1, FS_AddElement
    <2>4. x \in S => S \cup {x} = S
      OBVIOUS
    <2>5. IsFiniteSet(S \cup {x}) /\ Cardinality(S \cup {x}) <= Cardinality(S) + 1
      <3>1. CASE x \in S
        <4>1. S \cup {x} = S
          BY <3>1
        <4>2. IsFiniteSet(S \cup {x}) /\ Cardinality(S \cup {x}) = Cardinality(S)
          BY <2>1, <4>1, Zenon
        <4>. QED
          BY <2>1, <4>2
      <3>2. CASE x \notin S
        BY <2>1, <2>3, <3>2
      <3>. QED
        BY <3>1, <3>2
    <2>6. S \cup {x} = OpenIn(s) \cup {Len(s) + 1} /\ Cardinality(S) = Cardinality(OpenIn(s))
      BY <2>2 DEF S
    <2>. QED
      BY <2>5, <2>6
  <1>6. /\ Cardinality(OpenIn(t)) <= Cardinality(OpenIn(s) \cup {Len(s) + 1})
        /\ Cardinality(OpenIn(t)) \in Nat
        /\ Cardinality(OpenIn(s) \cup {Len(s) + 1}) \in Nat
    <2>. HIDE DEF t
    <2>. QED
      BY <1>3, <1>5, FS_Subset, FS_CardinalityType
  <1>7. Manager.maxActive \in Nat
    BY ManagerAssumption DEF ManagerFields
  <1>. HIDE DEF t
  <1>8. Cardinality(OpenIn(t)) <= Manager.maxActive
    BY <1>4, <1>5, <1>6, <1>7
  <1>. QED
    BY <1>8 DEF t

\* A candidate that is bought keeps everything in its distance.
LEMMA EvaluateKeepsSpaced ==
    ASSUME clock \in Nat, NEW acc, Spaced(acc), NEW c, NEW dry
    PROVE  Spaced(EvaluateSingle(acc, c, dry))
  <1>. SUFFICES ASSUME Approves(acc, c), ~dry PROVE Spaced(EvaluateSingle(acc, c, dry))
    BY DEF EvaluateSingle
  <1>1. PICK amount : amount = Evaluate(acc.money, acc.held, c.opp, c.weight,
                (c.required * ConfidenceScale(c.confidence)) \div Scale, clock)
    OBVIOUS
  <1>. DEFINE position == [opp |-> c.opp, amount |-> amount, status |-> "open"]
              trade == [opp |-> c.opp, buy |-> c.buy, at |-> clock]
              cool == SetCooldowns(c, acc.cool)
              n == Len(acc.bought)
  <1>a. PICK open : open = Append(acc.held, position)
    OBVIOUS
  <1>b. PICK trades : trades = Append(acc.bought, trade)
    OBVIOUS
  <1>2. EvaluateSingle(acc, c, dry) =
          [money |-> OpenPosition(acc.money, amount), held |-> open, cool |-> cool, bought |-> trades]
    BY <1>1, <1>a, <1>b, Zenon DEF EvaluateSingle
  <1>3. Uses(trade) = Uses(c) /\ trade.at = clock
    BY DEF Uses
  <1>4. n \in Nat /\ DOMAIN acc.bought = 1..n
    BY ListOf DEF Spaced
  <1>5. /\ IsList(trades) /\ DOMAIN trades = 1..(n + 1)
        /\ \A i \in 1..n : trades[i] = acc.bought[i]
        /\ trades[n + 1] = trade
    <2>1. IsList(acc.bought)
      BY DEF Spaced
    <2>2. PICK s : s = acc.bought
      OBVIOUS
    <2>3. PICK e : e = trade
      OBVIOUS
    <2>4. trades = Append(s, e) /\ IsList(s)
      BY <1>b, <2>1, <2>2, <2>3
    <2>. HIDE DEF trade, n, position, cool
    <2>5. IsList(trades)
      BY <2>4, Appended
    <2>6. DOMAIN trades = 1..(Len(s) + 1)
      BY <2>4, Appended
    <2>7. trades[Len(s) + 1] = e
      BY <2>4, Appended
    <2>8. \A i \in 1..Len(s) : trades[i] = s[i]
      BY <2>4, Appended
    <2>. QED
      BY <2>2, <2>3, <2>5, <2>6, <2>7, <2>8 DEF n
  <1>6. IsList(open) /\ Cardinality(OpenIn(open)) <= Manager.maxActive
    BY <1>a, Appended, OneMoreOpen DEF Spaced, Approves
  <1>7. /\ DOMAIN cool = Uses(c) \cup DOMAIN acc.cool
        /\ \A k \in DOMAIN cool : cool[k] = IF k \in Uses(c) THEN clock + Cooldown(k) ELSE acc.cool[k]
    BY DEF SetCooldowns, CoolFrom
  <1>8. \A k \in Uses(c) \cap DOMAIN acc.cool : ~(clock < acc.cool[k])
    BY DEF Approves, Cooling
  <1>. HIDE DEF position, trade, cool, n
  <1>9. \A k \in DOMAIN cool : cool[k] \in Nat
    BY <1>7, CooldownTypes DEF Spaced
  <1>10. ASSUME NEW i \in 1..n
         PROVE  /\ trades[i].at \in 0..clock
                /\ \A k \in Uses(trades[i]) :
                     k \in DOMAIN cool /\ cool[k] >= trades[i].at + Cooldown(k)
    <2>1. /\ acc.bought[i].at \in 0..clock
          /\ \A k \in Uses(acc.bought[i]) :
               k \in DOMAIN acc.cool /\ acc.cool[k] >= acc.bought[i].at + Cooldown(k)
      BY <1>4 DEF Spaced
    <2>2. trades[i] = acc.bought[i]
      BY <1>5
    <2>3. ASSUME NEW k \in Uses(acc.bought[i])
          PROVE  k \in DOMAIN cool /\ cool[k] >= acc.bought[i].at + Cooldown(k)
      <3>1. Cooldown(k) \in Nat
        BY CooldownTypes
      <3>2. CASE k \in Uses(c)
        BY <1>7, <2>1, <3>1, <3>2
      <3>3. CASE k \notin Uses(c)
        BY <1>7, <2>1, <3>3
      <3>. QED
        BY <3>2, <3>3
    <2>. QED
      BY <2>1, <2>2, <2>3
  <1>11. /\ trades[n + 1].at \in 0..clock
         /\ \A k \in Uses(trades[n + 1]) :
              k \in DOMAIN cool /\ cool[k] >= trades[n + 1].at + Cooldown(k)
    BY <1>3, <1>5, <1>7, CooldownTypes
  <1>12. ASSUME NEW i \in 1..n, NEW k \in Uses(trades[i]) \cap Uses(c)
         PROVE  clock >= trades[i].at + Cooldown(k)
    <2>1. /\ acc.bought[i].at \in 0..clock /\ k \in DOMAIN acc.cool
          /\ acc.cool[k] >= acc.bought[i].at + Cooldown(k)
      BY <1>4, <1>5 DEF Spaced
    <2>2. acc.cool[k] \in Nat /\ Cooldown(k) \in Nat /\ trades[i] = acc.bought[i]
      BY <1>5, <2>1, CooldownTypes DEF Spaced
    <2>. QED
      BY <1>8, <2>1, <2>2
  <1>13. ASSUME NEW i \in 1..(n + 1), NEW j \in 1..(n + 1), i < j,
                NEW k \in Uses(trades[i]) \cap Uses(trades[j])
         PROVE  trades[j].at >= trades[i].at + Cooldown(k)
    <2>1. i \in 1..n
      BY <1>4, <1>13
    <2>2. CASE j = n + 1
      BY <1>3, <1>5, <1>12, <2>1, <2>2
    <2>3. CASE j # n + 1
      <3>1. j \in 1..n
        BY <1>4, <2>3
      <3>. QED
        BY <1>4, <1>5, <1>13, <2>1, <3>1 DEF Spaced
    <2>. QED
      BY <2>2, <2>3
  <1>14. \A i \in 1..(n + 1) : i \in 1..n \/ i = n + 1
    BY <1>4
  <1>. DEFINE after == [money |-> OpenPosition(acc.money, amount), held |-> open, cool |-> cool, bought |-> trades]
  <1>15. after.held = open /\ after.cool = cool /\ after.bought = trades
    OBVIOUS
  <1>. HIDE DEF after
  <1>16. Spaced(after)
    BY <1>5, <1>6, <1>9, <1>10, <1>11, <1>13, <1>14, <1>15 DEF Spaced
  <1>. QED
    BY <1>2, <1>16 DEF after

\* after is the manager after each beginning of a list of candidates.
Runs(top, dry, m, after) ==
    after = [n \in 0..m |->
               IF n = 0 THEN [money |-> money, held |-> held, cool |-> coolUntil, bought |-> bought]
               ELSE EvaluateSingle(after[n - 1], top[n], dry)]

LEMMA RunExists ==
    ASSUME NEW top, NEW dry, NEW m \in Nat
    PROVE  \E after : Runs(top, dry, m, after)
  <1>. DEFINE B == {n \in 0..m : ~ \E after : Runs(top, dry, n, after)}
  <1>. SUFFICES ASSUME B # {} PROVE FALSE
    OBVIOUS
  <1>1. PICK n \in B : \A k \in B : n <= k
    <2>1. B \in SUBSET (0..m)
      OBVIOUS
    <2>. HIDE DEF B
    <2>. QED
      BY <2>1, SmallestNumber
  <1>2. CASE n = 0
    <2>1. Runs(top, dry, 0, [k \in 0..0 |-> Memory])
      BY DEF Runs, Memory
    <2>. QED
      BY <1>1, <1>2, <2>1
  <1>3. CASE n # 0
    <2>1. n - 1 \in 0..m /\ n - 1 \notin B /\ n \in 1..m
      BY <1>1, <1>3
    <2>2. PICK g : Runs(top, dry, n - 1, g)
      BY <2>1
    <2>. DEFINE h == [k \in 0..n |-> IF k = n THEN EvaluateSingle(g[n - 1], top[n], dry) ELSE g[k]]
    <2>3. ASSUME NEW k \in 0..n
          PROVE  h[k] = IF k = 0 THEN Memory ELSE EvaluateSingle(h[k - 1], top[k], dry)
      <3>1. CASE k = n
        <4>1. h[n] = EvaluateSingle(g[n - 1], top[n], dry) /\ h[n - 1] = g[n - 1]
          BY <2>1
        <4>. HIDE DEF h
        <4>. QED
          BY <2>1, <3>1, <4>1
      <3>2. CASE k # n
        <4>1. k \in 0..(n - 1) /\ (k # 0 => k - 1 \in 0..n /\ k - 1 # n)
          BY <2>1, <3>2
        <4>2. g[k] = IF k = 0 THEN Memory ELSE EvaluateSingle(g[k - 1], top[k], dry)
          BY <2>2, <4>1 DEF Runs, Memory
        <4>3. h[k] = g[k] /\ (k # 0 => h[k - 1] = g[k - 1])
          BY <3>2, <4>1
        <4>. HIDE DEF h
        <4>. QED
          BY <4>2, <4>3
      <3>. QED
        BY <3>1, <3>2
    <2>4. Runs(top, dry, n, h)
      <3>1. h = [k \in 0..n |-> h[k]]
        OBVIOUS
      <3>. HIDE DEF h
      <3>. QED
        BY <2>3, <3>1, Zenon DEF Runs, Memory
    <2>. QED
      BY <1>1, <2>4
  <1>. QED
    BY <1>2, <1>3

\* However many candidates a batch has.
LEMMA EvaluatedKeepsSpaced ==
    ASSUME ManagerInv, NEW top, Len(top) \in Nat, NEW dry
    PROVE  Spaced(Evaluated(top, dry))
  <1>. DEFINE m == Len(top)
              g == CHOOSE g : Runs(top, dry, m, g)
  <1>1. Evaluated(top, dry) = g[m]
    BY Zenon DEF Evaluated, Runs
  <1>2. Runs(top, dry, m, g)
    BY RunExists
  <1>. HIDE DEF g, m
  <1>3. m \in Nat
    BY DEF m
  <1>4. g = [n \in 0..m |-> IF n = 0 THEN Memory ELSE EvaluateSingle(g[n - 1], top[n], dry)]
    BY <1>2, Zenon DEF Runs, Memory
  <1>5. ASSUME NEW n \in 0..m
        PROVE  g[n] = IF n = 0 THEN Memory ELSE EvaluateSingle(g[n - 1], top[n], dry)
    BY <1>4
  <1>6. clock \in Nat /\ Spaced(Memory)
    BY DEF ManagerInv
  <1>. DEFINE B == {n \in 0..m : ~Spaced(g[n])}
  <1>7. ASSUME B # {} PROVE FALSE
    <2>1. PICK n \in B : \A k \in B : n <= k
      <3>1. B \in SUBSET (0..m)
        OBVIOUS
      <3>. HIDE DEF B
      <3>. QED
        BY <1>3, <1>7, <3>1, SmallestNumber
    <2>2. n \in 0..m /\ ~Spaced(g[n])
      OBVIOUS
    <2>3. n # 0
      BY <1>5, <1>6, <2>2
    <2>4. n - 1 \in 0..m /\ n - 1 \notin B
      BY <1>3, <2>1, <2>2, <2>3
    <2>5. Spaced(g[n - 1])
      BY <2>4
    <2>6. g[n] = EvaluateSingle(g[n - 1], top[n], dry)
      BY <1>5, <2>2, <2>3
    <2>7. Spaced(EvaluateSingle(g[n - 1], top[n], dry))
      BY <1>6, <2>5, EvaluateKeepsSpaced
    <2>. QED
      BY <2>2, <2>6, <2>7
  <1>8. Spaced(g[m])
    BY <1>3, <1>7
  <1>. QED
    BY <1>1, <1>8

LEMMA TopIsList ==
    ASSUME NEW candidates \in Batches
    PROVE  Len(Top(candidates)) \in Nat
  <1>1. Len(candidates) \in Nat /\ Manager.topK \in Nat
    BY BatchesAssumption, ManagerAssumption, LenProperties DEF ManagerFields
  <1>2. PICK n \in Nat : n = Smaller(Len(candidates), Manager.topK)
    BY <1>1 DEF Smaller
  <1>3. PICK f : Top(candidates) = [k \in 1..n |-> f[k]]
    <2>. DEFINE t == Top(candidates)
    <2>1. DOMAIN t = 1..n /\ t = [k \in 1..n |-> t[k]]
      BY <1>2, Zenon DEF Top
    <2>. QED
      BY <2>1
  <1>. QED
    BY <1>3, FirstNumbers

LEMMA ManagerInitially == ManagerInit => ManagerInv
  <1>. SUFFICES ASSUME ManagerInit PROVE ManagerInv
    OBVIOUS
  <1>1. IsList(<<>>) /\ DOMAIN <<>> = {} /\ OpenIn(<<>>) = {}
    <2>1. IsList(<<>>)
      BY EmptySeq DEF IsList
    <2>. QED
      BY <2>1 DEF OpenIn
  <1>2. Cardinality(OpenIn(<<>>)) <= Manager.maxActive
    <2>1. Cardinality({}) = 0 /\ Manager.maxActive \in Nat
      BY FS_EmptySet, ManagerAssumption DEF ManagerFields
    <2>2. Cardinality(OpenIn(<<>>)) = 0
      BY <1>1, <2>1, Zenon
    <2>. QED
      BY <2>1, <2>2
  <1>3. /\ Memory.held = <<>> /\ Memory.cool = <<>> /\ Memory.bought = <<>>
        /\ clock \in Nat
    BY DEF ManagerInit, Memory
  <1>4. PICK acc : acc = Memory
    OBVIOUS
  <1>5. IsList(acc.held) /\ Cardinality(OpenIn(acc.held)) <= Manager.maxActive /\ IsList(acc.bought)
    BY <1>1, <1>2, <1>3, <1>4, Zenon
  <1>6. DOMAIN acc.cool = {} /\ DOMAIN acc.bought = {}
    BY <1>1, <1>3, <1>4
  <1>7. Spaced(acc)
    BY <1>5, <1>6 DEF Spaced
  <1>. QED
    BY <1>3, <1>4, <1>7 DEF ManagerInv

LEMMA ManagerSteps == ManagerInv /\ [ManagerNext]_managerVars => ManagerInv'
  <1>. SUFFICES ASSUME ManagerInv, [ManagerNext]_managerVars PROVE ManagerInv'
    OBVIOUS
  <1>0. /\ clock \in Nat
        /\ IsList(held) /\ Cardinality(OpenIn(held)) <= Manager.maxActive
        /\ \A k \in DOMAIN coolUntil : coolUntil[k] \in Nat
        /\ IsList(bought)
        /\ \A i \in DOMAIN bought :
             /\ bought[i].at \in 0..clock
             /\ \A k \in Uses(bought[i]) :
                  k \in DOMAIN coolUntil /\ coolUntil[k] >= bought[i].at + Cooldown(k)
        /\ \A i, j \in DOMAIN bought : i < j =>
             \A k \in Uses(bought[i]) \cap Uses(bought[j]) :
               bought[j].at >= bought[i].at + Cooldown(k)
    BY DEF ManagerInv, Spaced, Memory
  <1>1. ASSUME NEW dry \in BOOLEAN, EvaluateBatch(dry) PROVE ManagerInv'
    <2>1. CASE halted'
      BY <1>0, <1>1, <2>1 DEF EvaluateBatch, ManagerInv, Spaced, Memory, OpenIn
    <2>2. CASE ~halted'
      <3>1. PICK candidates \in Batches :
              /\ money' = Evaluated(Top(candidates), dry).money
              /\ held' = Evaluated(Top(candidates), dry).held
              /\ coolUntil' = Evaluated(Top(candidates), dry).cool
              /\ bought' = Evaluated(Top(candidates), dry).bought
        BY <1>1, <2>2 DEF EvaluateBatch
      <3>2. PICK after : after = Evaluated(Top(candidates), dry)
        OBVIOUS
      <3>3. Spaced(after)
        BY <3>2, TopIsList, EvaluatedKeepsSpaced
      <3>4. clock' = clock
        BY <1>1 DEF EvaluateBatch
      <3>5. held' = after.held /\ coolUntil' = after.cool /\ bought' = after.bought
        BY <3>1, <3>2
      <3>. QED
        BY <1>0, <3>3, <3>4, <3>5 DEF ManagerInv, Spaced, Memory, OpenIn
    <2>. QED
      BY <2>1, <2>2
  <1>2. ASSUME NEW opp \in Opps, NEW outcome \in Outcomes, Record(opp, outcome) PROVE ManagerInv'
    <2>. DEFINE open == {i \in OpenIn(held) : held[i].opp = opp}
                i == CHOOSE x \in open : \A y \in open : x <= y
                status == IF outcome >= 0 THEN "closed" ELSE "failed"
    <2>1. held' = [held EXCEPT ![i].status = status] /\ UNCHANGED <<coolUntil, clock, bought>>
      BY <1>2 DEF Record
    <2>. HIDE DEF i
    <2>2. Len(held) \in Nat /\ DOMAIN held = 1..Len(held)
      BY <1>0, ListOf
    <2>3. DOMAIN held' = DOMAIN held /\ held' = [k \in 1..Len(held) |-> held'[k]]
      BY <2>1, <2>2
    <2>4. IsList(held')
      BY <2>2, <2>3, FirstNumbers
    <2>5. OpenIn(held') \subseteq OpenIn(held)
      <3>1. status # "open"
        OBVIOUS
      <3>2. ASSUME NEW k \in DOMAIN held, held'[k].status = "open" PROVE held[k].status = "open"
        <4>1. CASE k = i
          <5>1. held'[k] = [held[k] EXCEPT !.status = status]
            BY <2>1, <4>1
          <5>. QED
            BY <3>1, <3>2, <5>1
        <4>2. CASE k # i
          BY <2>1, <3>2, <4>2
        <4>. QED
          BY <4>1, <4>2
      <3>. QED
        BY <2>3, <3>2 DEF OpenIn
    <2>6. Cardinality(OpenIn(held')) <= Manager.maxActive
      <3>1. OpenIn(held) \subseteq 1..Len(held)
        BY <2>2 DEF OpenIn
      <3>2. IsFiniteSet(OpenIn(held))
        <4>1. IsFiniteSet(1..Len(held))
          BY <2>2, FS_Interval
        <4>. QED
          BY <3>1, <4>1, FS_Subset
      <3>3. /\ Cardinality(OpenIn(held')) <= Cardinality(OpenIn(held))
            /\ Cardinality(OpenIn(held')) \in Nat /\ Cardinality(OpenIn(held)) \in Nat
        BY <2>5, <3>2, FS_Subset, FS_CardinalityType
      <3>4. Manager.maxActive \in Nat
        BY ManagerAssumption DEF ManagerFields
      <3>. QED
        BY <1>0, <3>3, <3>4
    <2>. QED
      BY <1>0, <2>1, <2>4, <2>6 DEF ManagerInv, Spaced, Memory, OpenIn
  <1>3. CASE Resume
    BY <1>0, <1>3 DEF Resume, ManagerInv, Spaced, Memory, OpenIn
  <1>4. CASE Elapse
    <2>1. clock' = clock + 1 /\ UNCHANGED <<held, coolUntil, bought>>
      BY <1>4 DEF Elapse
    <2>2. \A i \in DOMAIN bought : bought[i].at \in 0..(clock + 1)
      BY <1>0
    <2>. QED
      BY <1>0, <2>1, <2>2 DEF ManagerInv, Spaced, Memory, OpenIn
  <1>5. CASE UNCHANGED managerVars
    BY <1>0, <1>5 DEF managerVars, ManagerInv, Spaced, Memory, OpenIn
  <1>. QED
    BY <1>1, <1>2, <1>3, <1>4, <1>5 DEF ManagerNext

\* Two trades that share a product or a marketplace are a cooldown apart, and
\* no more positions are open than max_active_trades, whatever candidates the
\* batches bring (capital_manager.py, gates 1 and 2).
THEOREM TradesAreSpaced == ManagerSpec => []TradesSpaced
  <1>1. ManagerInv => TradesSpaced
    BY DEF ManagerInv, Spaced, Memory, TradesSpaced
  <1>. QED
    BY <1>1, ManagerInitially, ManagerSteps, PTL DEF ManagerSpec

\* A manager that is stopped with nothing open never buys again
\* (capital_manager.py:_check_stop_conditions).
THEOREM StopsStay == ManagerSpec => StoppedStaysStopped
  <1>1. [ManagerNext]_managerVars =>
          [StopReasons # {} /\ OpenIn(held) = {} => UNCHANGED <<money, held>>]_managerVars
    <2>. SUFFICES ASSUME [ManagerNext]_managerVars, StopReasons # {}, OpenIn(held) = {}
                  PROVE  UNCHANGED <<money, held>>
      OBVIOUS
    <2>1. ASSUME NEW dry \in BOOLEAN, EvaluateBatch(dry) PROVE UNCHANGED <<money, held>>
      BY <2>1 DEF EvaluateBatch, Stopped
    <2>2. ASSUME NEW opp \in Opps, NEW outcome \in Outcomes, Record(opp, outcome) PROVE FALSE
      BY <2>2 DEF Record
    <2>. QED
      BY <2>1, <2>2 DEF ManagerNext, Resume, Elapse, managerVars
  <1>. QED
    BY <1>1, PTL DEF ManagerSpec, StoppedStaysStopped

-----------------------------------------------------------------------------
(* api/execution_tracker.py and api/runtime_config.py *)

\* Values of the parameters within their hard bounds.
Within(values) ==
    \A p \in Params : values[p] \in Int /\ Bounds[p][1] <= values[p] /\ values[p] <= Bounds[p][2]

\* Snapshots within the bounds, whose versions count up to that of the last one.
Versioned(snapshots) ==
    LET n == Len(snapshots) IN
    /\ IsList(snapshots) /\ n \in 1..MaxHistory
    /\ \A k \in 1..n :
         /\ snapshots[k].version \in Int
         /\ snapshots[k].version = snapshots[n].version - (n - k)
         /\ Within(snapshots[k].values)

Entry == [id : Emitted, expected : Predicted, revalidated : BOOLEAN, real : Int]

\* The deque and the index name entries there are.
Indexed ==
    /\ entries \in Seq(Entry)
    /\ tracked \in Seq(1..Len(entries))
    /\ \A id \in DOMAIN byId : byId[id] \in 1..Len(entries)

Averaged == \A p \in DOMAIN average : average[p] \in Int

CalInv == Indexed /\ Versioned(history) /\ Averaged

LEMMA BoundsOrdered ==
    \A p \in Params : Bounds[p][1] \in Int /\ Bounds[p][2] \in Int /\ Bounds[p][1] <= Bounds[p][2]
  BY SMT DEF Params, Bounds

LEMMA BetweenBounds ==
    ASSUME NEW p \in Params, NEW v \in Int
    PROVE  /\ Between(v, Bounds[p]) \in Int
           /\ Bounds[p][1] <= Between(v, Bounds[p]) /\ Between(v, Bounds[p]) <= Bounds[p][2]
  BY BoundsOrdered DEF Between

\* What the end of a list has of it.
LEMMA NewestAre ==
    ASSUME NEW s, IsList(s), NEW n \in Nat, NEW t, t = NewestOf(s, n)
    PROVE  /\ t \in Seq(Range(s)) /\ IsList(t)
           /\ Len(t) = IF Len(s) > n THEN n ELSE Len(s)
           /\ \A i \in 1..Len(t) : t[i] = s[i + (Len(s) - Len(t))]
  <1>1. Len(s) \in Nat /\ DOMAIN s = 1..Len(s) /\ s \in Seq(Range(s))
    BY ListOf DEF IsList
  <1>2. CASE ~(Len(s) > n)
    BY <1>1, <1>2 DEF NewestOf
  <1>3. CASE Len(s) > n
    <2>. DEFINE m == Len(s) - n + 1
    <2>1. m \in Int /\ \A i \in m..Len(s) : s[i] \in Range(s)
      BY <1>1, <1>3 DEF Range
    <2>2. t = SubSeq(s, m, Len(s))
      BY <1>3 DEF NewestOf
    <2>. HIDE DEF m
    <2>3. /\ t \in Seq(Range(s)) /\ Len(t) = (IF m <= Len(s) THEN Len(s) - m + 1 ELSE 0)
          /\ \A i \in 1..(Len(s) - m + 1) : t[i] = s[m + i - 1]
      BY <1>1, <2>1, <2>2, SubSeqProperties
    <2>4. Len(t) = n
      BY <1>1, <1>3, <2>3 DEF m
    <2>5. \A i \in 1..n : t[i] = s[i + (Len(s) - n)]
      BY <1>1, <1>3, <2>3 DEF m
    <2>6. IsList(t)
      BY <2>3, SeqIsList
    <2>. QED
      BY <1>3, <2>3, <2>4, <2>5, <2>6
  <1>. QED
    BY <1>2, <1>3

\* Values within the bounds make a sound snapshot, which is the current one.
LEMMA KeepVersioned ==
    ASSUME Versioned(history), NEW values, Within(values), NEW source, Keep(values, source)
    PROVE  /\ Versioned(history)'
           /\ Current'.values = values /\ Current'.source = source
  <1>1. PICK e : e = [values |-> values, version |-> Current.version + 1, source |-> source]
    OBVIOUS
  <1>2. PICK s : s = Append(history, e)
    OBVIOUS
  <1>3. PICK t : t = NewestOf(s, MaxHistory)
    OBVIOUS
  <1>. DEFINE n == Len(history)
  <1>4. n \in Nat \ {0} /\ n <= MaxHistory /\ IsList(history) /\ MaxHistory \in Nat \ {0}
    BY CalibrationAssumption DEF Versioned
  <1>5. Current = history[n]
    BY DEF Current, Last
  <1>6. history' = t
    BY <1>1, <1>2, <1>3 DEF Keep
  <1>. HIDE DEF n
  <1>7. IsList(s) /\ DOMAIN s = 1..(n + 1)
    BY <1>2, <1>4, Appended DEF n
  <1>8. \A i \in 1..n : s[i] = history[i]
    BY <1>2, <1>4, Appended DEF n
  <1>9. s[n + 1] = e
    BY <1>2, <1>4, Appended DEF n
  <1>10. Len(s) = n + 1
    BY <1>4, <1>7, ListOf
  <1>11. IsList(t) /\ Len(t) = IF Len(s) > MaxHistory THEN MaxHistory ELSE Len(s)
    BY <1>3, <1>4, <1>7, NewestAre
  <1>12. \A i \in 1..Len(t) : t[i] = s[i + (Len(s) - Len(t))]
    BY <1>3, <1>4, <1>7, NewestAre
  <1>13. Len(t) \in 1..MaxHistory /\ Len(t) <= n + 1
    BY <1>4, <1>10, <1>11
  <1>14. t[Len(t)] = e
    BY <1>4, <1>9, <1>10, <1>12, <1>13
  <1>15. \A k \in 1..n :
           /\ history[k].version \in Int
           /\ history[k].version = history[n].version - (n - k)
           /\ Within(history[k].values)
    BY DEF Versioned, n
  <1>16. e.version = history[n].version + 1 /\ e.values = values /\ e.source = source
    BY <1>1, <1>5
  <1>17. ASSUME NEW k \in 1..Len(t)
         PROVE  /\ t[k].version \in Int
                /\ t[k].version = e.version - (Len(t) - k)
                /\ Within(t[k].values)
    <2>1. history[n].version \in Int
      BY <1>4, <1>15
    <2>2. CASE k = Len(t)
      BY <1>13, <1>14, <1>16, <2>1, <2>2
    <2>3. CASE k # Len(t)
      <3>1. PICK i \in 1..n : i = k + (n + 1 - Len(t))
        BY <1>4, <1>13, <2>3
      <3>2. t[k] = history[i]
        <4>1. t[k] = s[k + (Len(s) - Len(t))]
          BY <1>12
        <4>2. k + (Len(s) - Len(t)) = i
          BY <1>4, <1>10, <1>13, <3>1
        <4>. QED
          BY <1>8, <4>1, <4>2
      <3>3. history[i].version = history[n].version - (n - i)
        BY <1>15
      <3>. QED
        BY <1>4, <1>13, <1>15, <1>16, <2>1, <3>1, <3>2, <3>3
    <2>. QED
      BY <2>2, <2>3
  <1>18. Versioned(t)
    BY <1>11, <1>13, <1>14, <1>17 DEF Versioned
  <1>19. Versioned(history)'
    BY <1>6, <1>18 DEF Versioned, Within
  <1>. QED
    BY <1>6, <1>14, <1>16, <1>19 DEF Current, Last

\* Rounding to the nearest is of integers, and keeps a half above 0.
LEMMA NearestTypes ==
    ASSUME NEW n \in Int, NEW d \in Nat \ {0}
    PROVE  Nearest(n, d) \in Int /\ (2 * n >= d => Nearest(n, d) >= 1)
  <1>1. Nearest(n, d) \in Int
    BY DEF Nearest
  <1>2. ASSUME 2 * n >= d PROVE Nearest(n, d) >= 1
    <2>. DEFINE a == 2 * n + d
                b == 2 * d
    <2>1. a \in Int /\ b \in Nat \ {0} /\ a >= b
      BY <1>2
    <2>. HIDE DEF a, b
    <2>2. a \div b >= 1
      BY <2>1
    <2>. QED
      BY <2>2 DEF Nearest, a, b
  <1>. QED
    BY <1>1, <1>2

LEMMA RevalidatedAre ==
    ASSUME CalInv
    PROVE  /\ IsFiniteSet(Revalidated) /\ Samples \in Nat
           /\ \A e \in Revalidated : entries[e].expected \in Nat \ {0}
                                     /\ Drift[e] \in Int /\ entries[e].real \in Int
           /\ Cardinality(Failed) \in Nat
  <1>1. Len(entries) \in Nat /\ \A e \in 1..Len(entries) : entries[e] \in Entry
    BY LenProperties, ElementOfSeq DEF CalInv, Indexed
  <1>2. Revalidated \subseteq 1..Len(entries)
    <2>1. \A i \in DOMAIN tracked : tracked[i] \in 1..Len(entries)
      BY LenProperties, ElementOfSeq DEF CalInv, Indexed
    <2>. QED
      BY <2>1 DEF Revalidated, ToSet
  <1>3. IsFiniteSet(Revalidated)
    <2>1. IsFiniteSet(1..Len(entries))
      BY <1>1, FS_Interval
    <2>. QED
      BY <1>2, <2>1, FS_Subset
  <1>4. IsFiniteSet(Failed)
    BY <1>3, FS_Subset DEF Failed
  <1>5. \A e \in Revalidated : entries[e].expected \in Predicted /\ entries[e].real \in Int
    BY <1>1, <1>2 DEF Entry
  <1>6. \A e \in Revalidated : entries[e].expected \in Nat \ {0}
    BY <1>5, CalibrationAssumption
  <1>7. \A e \in Revalidated : Drift[e] = entries[e].real - entries[e].expected
    BY DEF Drift
  <1>. QED
    BY <1>3, <1>4, <1>5, <1>6, <1>7, FS_CardinalityType DEF Samples

\* What feedback says is a number once there is any.
LEMMA Statistics ==
    ASSUME CalInv, Samples >= MinFeedback
    PROVE  /\ MeanDrift \in Int /\ FailureRate \in Int
           /\ MeanPredicted \in Nat \ {0}
  <1>1. Samples \in Nat \ {0}
    BY RevalidatedAre, CalibrationAssumption
  <1>2. MeanDrift \in Int
    <2>1. SumFunctionOnSet(Drift, Revalidated) \in Int
      BY RevalidatedAre, SumRemove
    <2>2. PICK t \in Int : t = SumFunctionOnSet(Drift, Revalidated)
      BY <2>1
    <2>3. Nearest(t, Samples) \in Int /\ Nearest(-t, Samples) \in Int
      <3>1. PICK u \in Int : u = -t
        OBVIOUS
      <3>2. Nearest(t, Samples) \in Int
        BY <1>1, NearestTypes
      <3>3. Nearest(u, Samples) \in Int
        BY <1>1, NearestTypes
      <3>. QED
        BY <3>1, <3>2, <3>3
    <2>4. MeanDrift = IF t < 0 THEN -Nearest(-t, Samples) ELSE Nearest(t, Samples)
      BY <2>2 DEF MeanDrift
    <2>. QED
      BY <2>3, <2>4
  <1>3. FailureRate \in Int
    <2>1. 10000 * Cardinality(Failed) \in Int
      BY RevalidatedAre
    <2>. QED
      BY <1>1, <2>1, NearestTypes DEF FailureRate
  <1>4. MeanPredicted \in Nat \ {0}
    <2>1. PICK f : f = [e \in Revalidated |-> entries[e].expected]
      OBVIOUS
    <2>2. IsFiniteSet(Revalidated) /\ \A e \in Revalidated : f[e] \in Nat \ {0}
      BY <2>1, RevalidatedAre
    <2>3. SumFunctionOnSet(f, Revalidated) \in Int /\ SumFunctionOnSet(f, Revalidated) >= Samples
      BY <2>2, SumRemove, SumAtLeast DEF Samples
    <2>4. PICK t \in Int : t = SumFunctionOnSet(f, Revalidated)
      BY <2>3
    <2>5. 2 * t >= Samples
      BY <1>1, <2>3, <2>4
    <2>6. Nearest(t, Samples) \in Int /\ Nearest(t, Samples) >= 1
      BY <1>1, <2>5, NearestTypes
    <2>7. MeanPredicted = Nearest(t, Samples)
      BY <2>1, <2>4 DEF MeanPredicted
    <2>. QED
      BY <2>6, <2>7
  <1>. QED
    BY <1>2, <1>3, <1>4

LEMMA CurrentWithin ==
    ASSUME CalInv
    PROVE  Current = history[Len(history)] /\ Within(Current.values)
  <1>1. Len(history) \in Nat \ {0}
    BY CalibrationAssumption DEF CalInv, Versioned
  <1>. QED
    BY <1>1 DEF CalInv, Versioned, Current, Last

LEMMA WantedTypes ==
    ASSUME CalInv, Samples >= MinFeedback, NEW p \in Params
    PROVE  Wanted[p] \in Int
  <1>1. MeanDrift \in Int /\ FailureRate \in Int /\ MeanPredicted \in Nat \ {0}
    BY Statistics
  <1>2. PICK v : v = Current.values
    OBVIOUS
  <1>3. \A q \in Params : v[q] \in Int
    BY <1>2, CurrentWithin DEF Within
  <1>4. v.confidence \in Int /\ v.roi \in Int /\ v.profit \in Int
    BY <1>3 DEF Params
  <1>5. WantedBuffer \in Int
    <2>1. 10000 * Magnitude(MeanDrift) \in Int
      BY <1>1 DEF Magnitude
    <2>2. PICK m \in Int : m = 10000 * Magnitude(MeanDrift)
      BY <2>1
    <2>3. Nearest(m, MeanPredicted) \in Int
      BY <1>1, NearestTypes
    <2>. QED
      BY <2>2, <2>3 DEF WantedBuffer
  <1>6. ConfidenceStep \in Int
    BY <1>1, SMT DEF ConfidenceStep
  <1>7. Nudge(500, 500, 10000, 5000) \in Int /\ Nudge(1000, 1000, 2000000, 1000000) \in Int
    BY <1>1, SMT DEF Nudge
  <1>8. PICK w, x \in Int : w = Nudge(500, 500, 10000, 5000) /\ x = Nudge(1000, 1000, 2000000, 1000000)
    BY <1>7, SMT
  <1>9. /\ Wanted["buffer"] = WantedBuffer /\ Wanted["confidence"] = v.confidence + ConfidenceStep
        /\ Wanted["roi"] = v.roi + w /\ Wanted["profit"] = v.profit + x
    BY <1>2, <1>8, SMT DEF Wanted
  <1>10. p \in {"buffer", "confidence", "roi", "profit"}
    BY DEF Params
  <1>. QED
    BY <1>4, <1>5, <1>6, <1>9, <1>10, SMT

\* A calibration stays within its share of a cycle, before and after the bounds.
LEMMA ProposedSteps ==
    ASSUME CalInv, Samples >= MinFeedback, NEW p \in Params
    PROVE  /\ Smoothed[p] \in Int /\ Proposed[p] \in Int
           /\ Magnitude(Between(Proposed[p], Bounds[p]) - Current.values[p])
                <= LargestStep(Current.values[p])
  <1>1. PICK v \in Int : v = Current.values[p]
    BY CurrentWithin DEF Within
  <1>2. Bounds[p][1] <= v /\ v <= Bounds[p][2]
    BY <1>1, CurrentWithin DEF Within
  <1>3. PICK b1, b2 \in Int : b1 = Bounds[p][1] /\ b2 = Bounds[p][2] /\ 0 <= b1
    BY SMT DEF Params, Bounds
  <1>4. PICK before \in Int : before = IF p \in DOMAIN average THEN average[p] ELSE Current.values[p]
    BY <1>1 DEF CalInv, Averaged
  <1>5. Smoothed[p] = (3 * Wanted[p] + 7 * before) \div 10
    BY <1>4 DEF Smoothed
  <1>6. Smoothed[p] \in Int
    BY <1>5, WantedTypes
  <1>7. PICK L \in Nat : L = LargestStep(v)
    BY <1>2, <1>3 DEF LargestStep
  <1>8. PICK s \in Int : s = Smoothed[p] - v
    BY <1>6
  <1>9. Proposed[p] = v + Between(s, <<-L, L>>)
    BY <1>1, <1>7, <1>8 DEF Proposed
  <1>10. PICK d \in -L..L : d = Between(s, <<-L, L>>)
    BY DEF Between
  <1>11. Proposed[p] = v + d /\ Proposed[p] \in Int
    BY <1>9, <1>10
  <1>12. Between(v + d, Bounds[p]) = IF v + d < b1 THEN b1 ELSE IF v + d > b2 THEN b2 ELSE v + d
    BY <1>3 DEF Between
  <1>13. Magnitude(Between(v + d, Bounds[p]) - v) <= L
    BY <1>2, <1>3, <1>12 DEF Magnitude
  <1>. QED
    BY <1>1, <1>6, <1>7, <1>11, <1>13

\* What an update stores is within the bounds, whatever is asked for.
LEMMA ClampedWithin ==
    ASSUME CalInv, NEW changes, \A p \in Params \cap DOMAIN changes : changes[p] \in Int
    PROVE  Within(Clamped(changes))
  <1>. SUFFICES ASSUME NEW p \in Params
                PROVE  /\ Clamped(changes)[p] \in Int
                       /\ Bounds[p][1] <= Clamped(changes)[p] /\ Clamped(changes)[p] <= Bounds[p][2]
    BY DEF Within
  <1>1. Clamped(changes)[p] =
          IF p \in DOMAIN changes THEN Between(changes[p], Bounds[p]) ELSE Current.values[p]
    BY DEF Clamped
  <1>2. CASE p \in DOMAIN changes
    BY <1>1, <1>2, BetweenBounds
  <1>3. CASE p \notin DOMAIN changes
    BY <1>1, <1>3, CurrentWithin DEF Within
  <1>. QED
    BY <1>2, <1>3

LEMMA CalInitially == CalInit => CalInv
  <1>. SUFFICES ASSUME CalInit PROVE CalInv
    OBVIOUS
  <1>1. Indexed
    <2>1. entries \in Seq(Entry) /\ tracked \in Seq(1..Len(entries))
      BY EmptySeq DEF CalInit
    <2>2. DOMAIN byId = {}
      BY DEF CalInit
    <2>. QED
      BY <2>1, <2>2 DEF Indexed
  <1>2. Averaged
    <2>1. DOMAIN average = {}
      BY DEF CalInit
    <2>. QED
      BY <2>1 DEF Averaged
  <1>3. Within(Defaults)
    BY SMT DEF Within, Defaults, Bounds, Params
  <1>4. Versioned(history)
    <2>1. PICK e : e = [values |-> Defaults, version |-> 0, source |-> "default"]
      OBVIOUS
    <2>2. history = [i \in 1..1 |-> e]
      BY <2>1 DEF CalInit
    <2>3. PICK n \in Nat : n = 1
      OBVIOUS
    <2>4. IsList(history) /\ Len(history) = 1
      BY <2>2, <2>3, FirstNumbers
    <2>5. history[1] = e /\ e.version = 0 /\ Within(e.values)
      BY <1>3, <2>1, <2>2
    <2>6. 1 \in 1..MaxHistory
      BY CalibrationAssumption
    <2>. QED
      BY <2>4, <2>5, <2>6 DEF Versioned
  <1>. QED
    BY <1>1, <1>2, <1>4 DEF CalInv

LEMMA RecordIndexed ==
    ASSUME Indexed, RecordShadow
    PROVE  Indexed'
  <1>1. PICK id \in Emitted, profit \in Predicted :
          /\ entries' = Append(entries, [id |-> id, expected |-> profit, revalidated |-> FALSE, real |-> 0])
          /\ byId' = [i \in DOMAIN byId \cup {id} |-> IF i = id THEN Len(entries') ELSE byId[i]]
    BY DEF RecordShadow
  <1>2. PICK e \in Entry : e = [id |-> id, expected |-> profit, revalidated |-> FALSE, real |-> 0]
    <2>1. 0 \in Int /\ FALSE \in BOOLEAN
      OBVIOUS
    <2>2. PICK z \in Int : z = 0
      BY <2>1
    <2>3. [id |-> id, expected |-> profit, revalidated |-> FALSE, real |-> z] \in Entry
      BY Zenon DEF Entry
    <2>. QED
      BY <2>2, <2>3
  <1>. DEFINE n == Len(entries)
  <1>3. n \in Nat /\ entries' \in Seq(Entry) /\ Len(entries') = n + 1
    BY <1>1, <1>2, AppendProperties, LenProperties DEF Indexed
  <1>. HIDE DEF n
  <1>4. tracked' \in Seq(1..(n + 1))
    <2>1. 1..n \subseteq 1..(n + 1) /\ n + 1 \in 1..(n + 1)
      BY <1>3
    <2>2. tracked \in Seq(1..(n + 1))
      BY <2>1, SeqMonotonic DEF Indexed, n
    <2>3. PICK s : s = Append(tracked, n + 1)
      OBVIOUS
    <2>4. s \in Seq(1..(n + 1))
      BY <2>1, <2>2, <2>3, AppendProperties
    <2>5. MaxTracked \in Nat /\ tracked' = NewestOf(s, MaxTracked)
      BY <1>3, <2>3, CalibrationAssumption DEF RecordShadow
    <2>6. tracked' \in Seq(Range(s))
      BY <2>4, <2>5, SeqIsList, NewestAre
    <2>7. Range(s) \subseteq 1..(n + 1)
      <3>1. DOMAIN s = 1..Len(s) /\ \A i \in 1..Len(s) : s[i] \in 1..(n + 1)
        BY <2>4, LenProperties, ElementOfSeq
      <3>. HIDE DEF n
      <3>. QED
        BY <3>1 DEF Range
    <2>. QED
      BY <2>6, <2>7, SeqMonotonic
  <1>5. \A i \in DOMAIN byId' : byId'[i] \in 1..(n + 1)
    BY <1>1, <1>3 DEF Indexed, n
  <1>. QED
    BY <1>3, <1>4, <1>5 DEF Indexed

LEMMA RevalidateIndexed ==
    ASSUME Indexed, Revalidate
    PROVE  Indexed'
  <1>1. PICK id \in DOMAIN byId, profit \in Observed :
          entries' = [entries EXCEPT ![byId[id]].revalidated = TRUE, ![byId[id]].real = profit]
    BY DEF Revalidate
  <1>2. PICK k \in 1..Len(entries) : k = byId[id]
    BY DEF Indexed
  <1>3. entries[k] \in Entry /\ profit \in Int
    BY ElementOfSeq, CalibrationAssumption DEF Indexed
  <1>4. PICK e \in Entry : e = [entries[k] EXCEPT !.revalidated = TRUE, !.real = profit]
    BY <1>3 DEF Entry
  <1>5. entries' = [entries EXCEPT ![k] = e]
    BY <1>1, <1>2, <1>4 DEF Indexed
  <1>6. entries' \in Seq(Entry) /\ Len(entries') = Len(entries)
    BY <1>5, ExceptSeq DEF Indexed
  <1>7. UNCHANGED <<tracked, byId>>
    BY DEF Revalidate
  <1>. QED
    BY <1>6, <1>7 DEF Indexed

\* What an action does that leaves the tracker alone.
LEMMA HandIn ==
    ASSUME CalInv, NEW v \in ManualValues
    PROVE  Within(Clamped([roi |-> v]))
  <1>1. PICK changes : changes = [roi |-> v]
    OBVIOUS
  <1>2. DOMAIN changes = {"roi"} /\ changes["roi"] = v /\ v \in Int
    BY <1>1, CalibrationAssumption
  <1>3. Within(Clamped(changes))
    BY <1>2, ClampedWithin
  <1>. QED
    BY <1>1, <1>3

LEMMA ProposedIn ==
    ASSUME CalInv, Samples >= MinFeedback
    PROVE  Within(Clamped(Proposed)) /\ DOMAIN Proposed = Params
  <1>1. PICK changes : changes = Proposed
    OBVIOUS
  <1>2. DOMAIN Proposed = Params
    BY DEF Proposed
  <1>3. \A p \in Params \cap DOMAIN changes : changes[p] \in Int
    BY <1>1, ProposedSteps
  <1>4. Within(Clamped(changes))
    BY <1>3, ClampedWithin
  <1>. QED
    BY <1>1, <1>2, <1>4

LEMMA CalSteps == CalInv /\ [CalNext]_calVars => CalInv'
  <1>. SUFFICES ASSUME CalInv, [CalNext]_calVars PROVE CalInv'
    OBVIOUS
  <1>0. Indexed /\ Versioned(history) /\ Averaged
    BY DEF CalInv
  <1>1. ASSUME UNCHANGED trackerVars PROVE Indexed'
    BY <1>0, <1>1 DEF Indexed, trackerVars
  <1>2. ASSUME UNCHANGED history PROVE Versioned(history)'
    BY <1>0, <1>2 DEF Versioned, Within
  <1>3. ASSUME UNCHANGED average PROVE Averaged'
    BY <1>0, <1>3 DEF Averaged
  <1>4. CASE RecordShadow
    BY <1>0, <1>2, <1>3, <1>4, RecordIndexed DEF RecordShadow, configVars, CalInv
  <1>5. CASE Revalidate
    BY <1>0, <1>2, <1>3, <1>5, RevalidateIndexed DEF Revalidate, configVars, CalInv
  <1>6. CASE UpdateByHand
    <2>1. PICK v \in ManualValues : Keep(Clamped([roi |-> v]), "manual")
      BY <1>6 DEF UpdateByHand
    <2>2. PICK values : values = Clamped([roi |-> v])
      OBVIOUS
    <2>3. Versioned(history)'
      BY <1>0, <2>1, <2>2, HandIn, KeepVersioned
    <2>. QED
      BY <1>1, <1>3, <1>6, <2>3 DEF UpdateByHand, CalInv
  <1>7. CASE RollBack
    <2>1. PICK k \in 1..Len(history) : Keep(history[k].values, "rollback")
      BY <1>7 DEF RollBack
    <2>2. Within(history[k].values)
      BY <1>0 DEF Versioned
    <2>3. Versioned(history)'
      BY <1>0, <2>1, <2>2, KeepVersioned
    <2>. QED
      BY <1>1, <1>3, <1>7, <2>3 DEF RollBack, CalInv
  <1>8. CASE FreezeByHand
    BY <1>1, <1>2, <1>3, <1>8 DEF FreezeByHand, CalInv
  <1>9. CASE TooFew
    BY <1>1, <1>2, <1>3, <1>9 DEF TooFew, configVars, CalInv
  <1>10. CASE Guardrail
    BY <1>1, <1>2, <1>3, <1>10 DEF Guardrail, CalInv
  <1>11. ASSUME NEW shadow \in BOOLEAN, Calibrate(shadow) PROVE CalInv'
    <2>1. Samples >= MinFeedback /\ average' = Smoothed
      BY <1>11 DEF Calibrate
    <2>2. Averaged'
      <3>1. DOMAIN Smoothed = Params
        BY DEF Smoothed
      <3>. QED
        BY <2>1, <3>1, ProposedSteps DEF Averaged
    <2>3. Versioned(history)'
      <3>1. CASE shadow
        BY <1>2, <1>11, <3>1 DEF Calibrate
      <3>2. CASE ~shadow
        <4>1. Keep(Clamped(Proposed), "calibration")
          BY <1>11, <3>2 DEF Calibrate
        <4>. QED
          BY <1>0, <2>1, <4>1, ProposedIn, KeepVersioned
      <3>. QED
        BY <3>1, <3>2
    <2>. QED
      BY <1>1, <1>11, <2>2, <2>3 DEF Calibrate, CalInv
  <1>12. CASE UNCHANGED calVars
    BY <1>1, <1>2, <1>3, <1>12 DEF calVars, trackerVars, CalInv
  <1>. QED
    BY <1>4, <1>5, <1>6, <1>7, <1>8, <1>9, <1>10, <1>11, <1>12 DEF CalNext

\* Every snapshot a rollback can reach is within the hard bounds, and versions
\* are consecutive, so that each names one snapshot (runtime_config.py).
THEOREM HistoryIsSound == CalSpec => []HistorySound
  <1>1. CalInv => HistorySound
    <2>. SUFFICES ASSUME CalInv PROVE HistorySound
      OBVIOUS
    <2>1. Len(history) <= MaxHistory /\ Len(history) \in Nat \ {0}
      BY CalibrationAssumption DEF CalInv, Versioned
    <2>2. ASSUME NEW k \in 1..Len(history), NEW p \in Params
          PROVE  Between(history[k].values[p], Bounds[p]) = history[k].values[p]
      BY BoundsOrdered DEF CalInv, Versioned, Within, Between
    <2>3. \A k \in 1..Len(history) : history[k].version = Current.version - (Len(history) - k)
      BY CurrentWithin DEF CalInv, Versioned
    <2>. QED
      BY <2>1, <2>2, <2>3 DEF HistorySound
  <1>. QED
    BY <1>1, CalInitially, CalSteps, PTL DEF CalSpec

\* Feedback moves no parameter by more than its share of a cycle, none while
\* most of what was looked at failed, and a freeze holds against everything
\* but a rollback and a calibration (execution_tracker.py, runtime_config.py).
THEOREM LoopIsGuarded == CalSpec => LoopGuarded
  <1>. DEFINE Guarded ==
                LET was == Current.values  is == Current'.values IN
                was # is =>
                  \/ Current'.source = "rollback"
                  \/ Current'.source = "manual" /\ ~frozen
                  \/ /\ Current'.source = "calibration" /\ 2 * Cardinality(Failed) <= Samples
                     /\ \A p \in Params : Magnitude(is[p] - was[p]) <= LargestStep(was[p])
  <1>1. CalInv /\ [CalNext]_calVars => [Guarded]_calVars
    <2>. SUFFICES ASSUME CalInv, CalNext PROVE Guarded
      OBVIOUS
    <2>0. Versioned(history)
      BY DEF CalInv
    <2>1. ASSUME UNCHANGED history PROVE Guarded
      BY <2>1 DEF Current
    <2>2. CASE UpdateByHand
      <3>1. PICK v \in ManualValues : Keep(Clamped([roi |-> v]), "manual")
        BY <2>2 DEF UpdateByHand
      <3>2. PICK values : values = Clamped([roi |-> v])
        OBVIOUS
      <3>3. Current'.source = "manual"
        BY <2>0, <3>1, <3>2, HandIn, KeepVersioned
      <3>. QED
        BY <2>2, <3>3 DEF UpdateByHand
    <2>3. CASE RollBack
      <3>1. PICK k \in 1..Len(history) : Keep(history[k].values, "rollback")
        BY <2>3 DEF RollBack
      <3>2. Within(history[k].values)
        BY <2>0 DEF Versioned
      <3>3. Current'.source = "rollback"
        BY <2>0, <3>1, <3>2, KeepVersioned
      <3>. QED
        BY <3>3
    <2>4. ASSUME NEW shadow \in BOOLEAN, Calibrate(shadow) PROVE Guarded
      <3>1. CASE shadow
        BY <2>1, <2>4, <3>1 DEF Calibrate
      <3>2. CASE ~shadow
        <4>1. Samples >= MinFeedback /\ Healthy /\ Keep(Clamped(Proposed), "calibration")
          BY <2>4, <3>2 DEF Calibrate
        <4>2. Current'.values = Clamped(Proposed) /\ Current'.source = "calibration"
          BY <2>0, <4>1, ProposedIn, KeepVersioned
        <4>3. ASSUME NEW p \in Params
              PROVE  Magnitude(Current'.values[p] - Current.values[p]) <= LargestStep(Current.values[p])
          <5>1. Current'.values[p] = Between(Proposed[p], Bounds[p])
            BY <4>1, <4>2, ProposedIn DEF Clamped
          <5>. QED
            BY <4>1, <5>1, ProposedSteps
        <4>. QED
          BY <4>1, <4>2, <4>3 DEF Healthy
      <3>. QED
        BY <3>1, <3>2
    <2>. QED
      BY <2>1, <2>2, <2>3, <2>4
         DEF CalNext, RecordShadow, Revalidate, FreezeByHand, TooFew, Guardrail, configVars
  <1>. QED
    BY <1>1, CalInitially, CalSteps, PTL DEF CalSpec, LoopGuarded
===============================================================================
