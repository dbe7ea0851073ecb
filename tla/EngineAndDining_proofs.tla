---------------------- MODULE EngineAndDining_proofs ----------------------
(***************************************************************************)
(* Proofs about the stock engine and about the tables and the kitchen of a *)
(* restaurant, two modules that share no name.                             *)
(*                                                                         *)
(* Part one, StockEngine: for every set of levels, sessions, keys, bundle  *)
(* lines and requests.  The inductive invariant IInv is proved in four     *)
(* layers, each using those before it: types and control (TypeOK,          *)
(* CallsOK), locks and the rows of the idempotency keys (LocksOK, KeysOK), *)
(* quantities (StockOK), and the ledger entries with their keys            *)
(* (EntriesOK).  A fifth, AnswersOK, says what the idempotency rows        *)
(* answer; the last, Serial, relates what a session sees and has left to   *)
(* do to its request executed alone, and gives the refinement of           *)
(* AtomicStock.                                                            *)
(*                                                                         *)
(* Part two, Dining: for every set of tables, orders, items, reservations  *)
(* and handlers.  The inductive invariant FloorInv says of tables, bills   *)
(* and tickets what holds of those no two requests raced for (TablesHold,  *)
(* KitchenHold), and of each handler which of the rows it has read it can  *)
(* still rely on (Does).  A step of one handler changes rows of its own,   *)
(* raced ones and new ones (Changes); what the others rely on is none of   *)
(* these unless it is raced (DoesKept), so each action is only looked at   *)
(* for the rows and for the handler that takes it.                         *)
(***************************************************************************)
EXTENDS StockRefinement, Dining, SumTheorems, TLAPS

-----------------------------------------------------------------------------
(* The elements of a sequence of calls. *)

LEMMA OpsConcat ==
  ASSUME NEW S, NEW s \in Seq(S), NEW t \in Seq(S)
  PROVE  s \o t \in Seq(S) /\ Ops(s \o t) = Ops(s) \cup Ops(t)
<1> DEFINE u == s \o t
<1>1. /\ u \in Seq(S) /\ Len(u) = Len(s) + Len(t)
      /\ \A i \in 1..Len(u) : u[i] = IF i <= Len(s) THEN s[i] ELSE t[i - Len(s)]
  OBVIOUS
<1>2. Ops(u) \subseteq Ops(s) \cup Ops(t)
  <2> SUFFICES ASSUME NEW i \in 1..Len(u) PROVE u[i] \in Ops(s) \cup Ops(t)
    BY DEF Ops
  <2>1. CASE i <= Len(s)
    BY <1>1, <2>1 DEF Ops
  <2>2. CASE i > Len(s)
    <3>1. i - Len(s) \in 1..Len(t) /\ u[i] = t[i - Len(s)]
      BY <1>1, <2>2
    <3> QED BY <3>1 DEF Ops
  <2> QED BY <2>1, <2>2
<1>3. Ops(s) \subseteq Ops(u)
  <2> SUFFICES ASSUME NEW i \in 1..Len(s) PROVE s[i] \in Ops(u)
    BY DEF Ops
  <2>1. i \in 1..Len(u) /\ u[i] = s[i]
    BY <1>1
  <2> QED BY <2>1 DEF Ops
<1>4. Ops(t) \subseteq Ops(u)
  <2> SUFFICES ASSUME NEW i \in 1..Len(t) PROVE t[i] \in Ops(u)
    BY DEF Ops
  <2>1. i + Len(s) \in 1..Len(u) /\ u[i + Len(s)] = t[i]
    BY <1>1
  <2> QED BY <2>1 DEF Ops
<1> QED BY <1>1, <1>2, <1>3, <1>4

LEMMA OpsConcat3 ==
  ASSUME NEW S, NEW s \in Seq(S), NEW t \in Seq(S), NEW u \in Seq(S)
  PROVE  s \o t \o u \in Seq(S) /\ Ops(s \o t \o u) = Ops(s) \cup Ops(t) \cup Ops(u)
<1>1. s \o t \in Seq(S) /\ Ops(s \o t) = Ops(s) \cup Ops(t)
  BY OpsConcat
<1>2. \A f \in Seq(S) : f \o u \in Seq(S) /\ Ops(f \o u) = Ops(f) \cup Ops(u)
  BY OpsConcat
<1> QED BY <1>1, <1>2

LEMMA OpsTail ==
  ASSUME NEW S, NEW s \in Seq(S), s # <<>>
  PROVE  /\ Head(s) \in S /\ Tail(s) \in Seq(S)
         /\ Ops(s) = {Head(s)} \cup Ops(Tail(s))
<1>1. /\ Len(s) >= 1 /\ Head(s) = s[1] /\ Head(s) \in S
      /\ Tail(s) \in Seq(S) /\ Len(Tail(s)) = Len(s) - 1
      /\ \A i \in 1..Len(Tail(s)) : Tail(s)[i] = s[i+1]
  OBVIOUS
<1>2. Ops(s) \subseteq {Head(s)} \cup Ops(Tail(s))
  <2> SUFFICES ASSUME NEW i \in 1..Len(s), i # 1 PROVE s[i] \in Ops(Tail(s))
    BY <1>1 DEF Ops
  <2>1. i - 1 \in 1..Len(Tail(s)) /\ Tail(s)[i - 1] = s[i]
    BY <1>1
  <2> QED BY <2>1 DEF Ops
<1>3. Head(s) \in Ops(s)
  BY <1>1 DEF Ops
<1>4. Ops(Tail(s)) \subseteq Ops(s)
  <2> SUFFICES ASSUME NEW i \in 1..Len(Tail(s)) PROVE Tail(s)[i] \in Ops(s)
    BY DEF Ops
  <2>1. i + 1 \in 1..Len(s) /\ s[i+1] = Tail(s)[i]
    BY <1>1
  <2> QED BY <2>1 DEF Ops
<1> QED BY <1>1, <1>2, <1>3, <1>4

LEMMA OpsShort ==
  /\ Ops(<<>>) = {}
  /\ \A e : Ops(<<e>>) = {e}
BY DEF Ops

LEMMA ComponentOpsFine ==
  ASSUME NEW l \in Levels, NEW q \in Int
  PROVE  /\ ComponentOps(l, q) \in Seq(Op)
         /\ \A op \in Ops(ComponentOps(l, q)) : OpFine(op) /\ op.kind = "mutate"
<1> DEFINE c == ComponentOps(l, q)
<1>1. Lines[l] \in Seq(BundleLine)
  BY ConstantsAssumption
<1>2. \A i \in 1..Len(Lines[l]) : Lines[l][i].lv \in Levels /\ Lines[l][i].qty \in Int
  <2> SUFFICES ASSUME NEW i \in 1..Len(Lines[l])
               PROVE  Lines[l][i].lv \in Levels /\ Lines[l][i].qty \in Int
    OBVIOUS
  <2>1. Lines[l][i] \in BundleLine
    BY <1>1
  <2> QED BY <2>1 DEF BundleLine
<1>3. \A i \in 1..Len(Lines[l]) : q * Lines[l][i].qty \in Int
  BY <1>2
<1>4. Len(Lines[l]) \in Nat
  BY <1>1
<1>5. \A i \in 1..Len(Lines[l]) : c[i] \in Op /\ OpFine(c[i]) /\ c[i].kind = "mutate"
  BY <1>2, <1>3 DEF ComponentOps, Op, OpFine
<1>6. c \in Seq(Op) /\ Len(c) = Len(Lines[l])
  <2>1. c \in [1..Len(Lines[l]) -> Op]
    BY <1>5 DEF ComponentOps
  <2>2. \A n \in Nat : \A f \in [1..n -> Op] : f \in Seq(Op) /\ Len(f) = n
    OBVIOUS
  <2> QED BY <1>4, <2>1, <2>2
<1> QED BY <1>5, <1>6 DEF Ops

LEMMA ResultOpFine ==
  ASSUME NEW op \in Op, NEW b \in Int, NEW d \in Int
  PROVE  /\ ResultOp(op, b, d) \in Seq(Op)
         /\ \A r \in Ops(ResultOp(op, b, d)) :
              OpFine(r) /\ r.kind = "result" /\ r.key = op.key
         /\ op.key # NoKey => Ops(ResultOp(op, b, d)) # {}
<1>1. CASE op.key = NoKey
  BY <1>1, OpsShort DEF ResultOp
<1>2. CASE op.key # NoKey
  <2> DEFINE r == [op EXCEPT !.kind = "result", !.qty = d, !.before = b]
  <2>1. r \in Op /\ OpFine(r) /\ r.kind = "result" /\ r.key = op.key
    BY <1>2 DEF Op, OpFine
  <2>2. ResultOp(op, b, d) = <<r>>
    BY <1>2 DEF ResultOp
  <2>3. Ops(<<r>>) = {r}
    BY OpsShort
  <2> HIDE DEF r
  <2> QED BY <1>2, <2>1, <2>2, <2>3
<1> QED BY <1>1, <1>2

LEMMA RequestFine ==
  ASSUME NEW r \in Requests
  PROVE  r \in Seq(Op) /\ \A op \in Ops(r) : OpFine(op) /\ op.kind # "result"
<1>1. r \in Seq(Op) /\ \A i \in 1..Len(r) : r[i].kind # "result"
  BY RequestsAssumption
<1>2. \A i \in 1..Len(r) : r[i].kind = "mutate" /\ r[i].neg => r[i].lv \in NegativeLevels
  <2> SUFFICES ASSUME NEW i \in 1..Len(r), r[i].kind = "mutate", r[i].neg
               PROVE  r[i].lv \in NegativeLevels
    OBVIOUS
  <2>1. r[i] \in Op
    BY <1>1
  <2>2. r[i].lv \in Levels
    BY <2>1 DEF Op
  <2> QED BY <2>2 DEF NegativeLevels
<1> QED BY <1>1, <1>2 DEF Ops, OpFine

LEMMA RunFine ==
  ASSUME NEW todo \in Seq(Op)
  PROVE  /\ Run(todo) \in [pc: Pc, todo: Seq(Op)]
         /\ Run(todo).todo = todo
         /\ Run(todo).pc \notin {"idle", "insert", "apply"}
         /\ Run(todo).pc = "commit" <=> todo = <<>>
         /\ Run(todo).pc \in {"find", "lock"} => Head(todo).kind = "mutate"
         /\ Run(todo).pc = "find" => Head(todo).key # NoKey
         /\ Run(todo).pc = "lock" => Head(todo).key = NoKey
         /\ Run(todo).pc \in {"reserve", "result"} => Head(todo).kind = Run(todo).pc
<1>1. CASE todo = <<>>
  BY <1>1 DEF Run, EntryPoint, Pc
<1>2. CASE todo # <<>>
  <2>1. Head(todo) \in Op
    BY <1>2
  <2>2. Head(todo).kind \in {"mutate", "reserve", "result"}
    BY <2>1 DEF Op
  <2> QED BY <1>2, <2>2 DEF Run, EntryPoint, Pc
<1> QED BY <1>1, <1>2

-----------------------------------------------------------------------------
(* Types and control. *)

LEMMA CallTyped ==
  ASSUME TypeOK, CallsOK, NEW w \in Workers, tx[w].pc \notin {"idle", "commit"}
  PROVE  /\ tx[w].todo \in Seq(Op) /\ tx[w].todo # <<>>
         /\ Call(w) \in Op /\ OpFine(Call(w))
         /\ Call(w).lv \in Levels /\ Call(w).qty \in Int /\ Call(w).dmg \in Int
         /\ Call(w).before \in Int /\ Call(w).key \in Keys \cup {NoKey}
         /\ Tail(tx[w].todo) \in Seq(Op)
         /\ Ops(tx[w].todo) = {Call(w)} \cup Ops(Tail(tx[w].todo))
         /\ \A op \in Ops(Tail(tx[w].todo)) : OpFine(op)
<1>1. tx[w].todo \in Seq(Op) /\ tx[w].todo # <<>>
  BY DEF TypeOK, CallsOK
<1>2. /\ Call(w) \in Op /\ Tail(tx[w].todo) \in Seq(Op)
      /\ Ops(tx[w].todo) = {Call(w)} \cup Ops(Tail(tx[w].todo))
  BY <1>1, OpsTail DEF Call
<1>3. \A op \in Ops(tx[w].todo) : OpFine(op)
  BY DEF CallsOK
<1>4. /\ Call(w).lv \in Levels /\ Call(w).qty \in Int /\ Call(w).dmg \in Int
      /\ Call(w).before \in Int /\ Call(w).key \in Keys \cup {NoKey}
  BY <1>2 DEF Op
<1> QED BY <1>1, <1>2, <1>3, <1>4

TxType == tx \in [Workers -> [pc: Pc, todo: Seq(Op)]]

LEMMA ProceedControl ==
  ASSUME TxType, CallsOK, NEW w \in Workers, NEW todo \in Seq(Op),
         \A op \in Ops(todo) : OpFine(op),
         tx' = [tx EXCEPT ![w] = Run(todo)]
  PROVE  TxType' /\ CallsOK'
<1>1. TxType' /\ tx'[w] = Run(todo) /\ \A v \in Workers \ {w} : tx'[v] = tx[v]
  BY RunFine DEF TxType
<1>2. SUFFICES ASSUME NEW v \in Workers
               PROVE  /\ tx'[v].pc \in {"idle", "commit"} <=> tx'[v].todo = <<>>
                      /\ tx'[v].pc \in {"find", "insert", "lock", "apply"} =>
                           Call(v)'.kind = "mutate"
                      /\ tx'[v].pc \in {"find", "insert"} => Call(v)'.key # NoKey
                      /\ tx'[v].pc \in {"reserve", "result"} => Call(v)'.kind = tx'[v].pc
                      /\ \A op \in Ops(tx'[v].todo) : OpFine(op)
  BY <1>1 DEF CallsOK, Call
<1>3. CASE v = w
  <2>1. tx'[v].todo = todo /\ tx'[v].pc = Run(todo).pc /\ Call(v)' = Head(todo)
    BY <1>1, <1>3, RunFine DEF Call
  <2>2. CASE todo = <<>>
    BY <2>1, <2>2, RunFine
  <2>3. CASE todo # <<>>
    BY <2>1, <2>3, RunFine
  <2> QED BY <2>2, <2>3
<1>4. CASE v # w
  BY <1>1, <1>4 DEF CallsOK, Call
<1> QED BY <1>3, <1>4

LEMMA AdvanceControl ==
  ASSUME TxType, CallsOK, NEW w \in Workers, NEW pc \in {"insert", "lock", "apply"},
         tx[w].pc \in {"find", "insert", "lock"},
         pc = "insert" => Call(w).key # NoKey,
         tx' = [tx EXCEPT ![w].pc = pc]
  PROVE  TxType' /\ CallsOK'
<1>1. /\ TxType' /\ tx'[w].pc = pc /\ tx'[w].todo = tx[w].todo
      /\ \A v \in Workers \ {w} : tx'[v] = tx[v]
  BY DEF TxType, Pc
<1>2. \A v \in Workers : Call(v)' = Call(v) /\ tx'[v].todo = tx[v].todo
  BY <1>1 DEF Call
<1> QED BY <1>1, <1>2 DEF CallsOK

LEMMA IdleControl ==
  ASSUME TxType, CallsOK, NEW w \in Workers, tx' = [tx EXCEPT ![w] = Idle]
  PROVE  TxType' /\ CallsOK'
<1>1. /\ TxType' /\ tx'[w] = Idle
      /\ \A v \in Workers \ {w} : tx'[v] = tx[v]
  BY DEF TxType, Pc, Idle
<1>2. \A v \in Workers \ {w} : Call(v)' = Call(v)
  BY <1>1 DEF Call
<1> QED BY <1>1, <1>2, OpsShort DEF CallsOK, Idle

(* The calls a mutation leaves to do: its components, the update of its     *)
(* idempotency row, and the rest of the request.                            *)
LEMMA TodoFine ==
  ASSUME NEW parts \in Seq(Op), NEW res \in Seq(Op), NEW rest \in Seq(Op),
         \A o \in Ops(parts) : OpFine(o),
         \A o \in Ops(res) : OpFine(o),
         \A o \in Ops(rest) : OpFine(o)
  PROVE  /\ parts \o res \o rest \in Seq(Op)
         /\ Ops(parts \o res \o rest) = Ops(parts) \cup Ops(res) \cup Ops(rest)
         /\ \A o \in Ops(parts \o res \o rest) : OpFine(o)
BY OpsConcat3

LEMMA MutationTodo ==
  ASSUME TypeOK, CallsOK, NEW w \in Workers, tx[w].pc = "apply", NEW delta \in Int
  PROVE  /\ Parts(w) \in Seq(Op) /\ Res(w, delta) \in Seq(Op)
         /\ \A o \in Ops(Parts(w)) : OpFine(o) /\ o.kind = "mutate"
         /\ \A o \in Ops(Res(w, delta)) : OpFine(o) /\ o.kind = "result" /\ o.key = Call(w).key
         /\ Call(w).key # NoKey => Ops(Res(w, delta)) # {}
         /\ LET todo == Parts(w) \o Res(w, delta) \o Tail(tx[w].todo)
            IN /\ todo \in Seq(Op)
               /\ Ops(todo) = Ops(Parts(w)) \cup Ops(Res(w, delta)) \cup Ops(Tail(tx[w].todo))
               /\ \A o \in Ops(todo) : OpFine(o)
<1>1. /\ Call(w) \in Op /\ Call(w).lv \in Levels /\ Call(w).qty \in Int
      /\ Tail(tx[w].todo) \in Seq(Op) /\ \A o \in Ops(Tail(tx[w].todo)) : OpFine(o)
  BY CallTyped
<1>2. level[Call(w).lv].onHand \in Int
  BY <1>1 DEF TypeOK, LevelRow
<1>3. Parts(w) \in Seq(Op) /\ \A o \in Ops(Parts(w)) : OpFine(o) /\ o.kind = "mutate"
  <2>1. -(-Call(w).qty) \in Int
    BY <1>1
  <2>2. CASE ~Call(w).comp /\ Call(w).qty < 0
    BY <1>1, <2>1, <2>2, ComponentOpsFine DEF Parts, ConsumeComponents
  <2>3. CASE ~(~Call(w).comp /\ Call(w).qty < 0)
    <3>1. Parts(w) = <<>>
      BY <2>3 DEF Parts
    <3> QED BY <3>1, OpsShort
  <2> QED BY <2>2, <2>3
<1>4. /\ Res(w, delta) \in Seq(Op)
      /\ \A o \in Ops(Res(w, delta)) : OpFine(o) /\ o.kind = "result" /\ o.key = Call(w).key
      /\ Call(w).key # NoKey => Ops(Res(w, delta)) # {}
  BY <1>1, <1>2, ResultOpFine DEF Res
<1> DEFINE rest == Tail(tx[w].todo)
<1>5. rest \in Seq(Op) /\ \A o \in Ops(rest) : OpFine(o)
  BY <1>1
<1> HIDE DEF rest
<1>6. /\ Parts(w) \o Res(w, delta) \o rest \in Seq(Op)
      /\ Ops(Parts(w) \o Res(w, delta) \o rest)
           = Ops(Parts(w)) \cup Ops(Res(w, delta)) \cup Ops(rest)
      /\ \A o \in Ops(Parts(w) \o Res(w, delta) \o rest) : OpFine(o)
  BY <1>3, <1>4, <1>5, TodoFine
<1> QED BY <1>3, <1>4, <1>6 DEF rest

LEMMA MutatedType ==
  ASSUME NEW op \in Op, NEW lv \in LevelRow, Allowed(op, lv)
  PROVE  Mutated(op, lv) \in LevelRow
<1> DEFINE e == [key |-> op.key, before |-> lv.onHand, delta |-> op.qty,
                 after |-> lv.onHand + op.qty, dmg |-> op.dmg]
<1>1. /\ op.key \in Keys \cup {NoKey} /\ op.qty \in Int /\ op.dmg \in Int
      /\ lv.onHand \in Int /\ lv.reserved \in Int /\ lv.damaged \in Nat
      /\ lv.ledger \in Seq(Entry)
  BY DEF Op, LevelRow
<1>2. e \in Entry
  BY <1>1 DEF Entry
<1>3. Append(lv.ledger, e) \in Seq(Entry)
  BY <1>1, <1>2
<1>4. lv.damaged + op.dmg \in Nat
  BY <1>1 DEF Allowed
<1> QED BY <1>1, <1>3, <1>4 DEF Mutated, LevelRow

LEMMA ReservedType ==
  ASSUME NEW op \in Op, NEW lv \in LevelRow
  PROVE  /\ Reserved(op, lv) \in LevelRow
         /\ Reserved(op, lv).onHand = lv.onHand
         /\ Reserved(op, lv).reserved = lv.reserved + op.qty
         /\ Reserved(op, lv).ledger = lv.ledger
BY DEF Reserved, Op, LevelRow

LEMMA RollbackControl ==
  ASSUME TypeOK, CallsOK, NEW w \in Workers, Rollback(w)
  PROVE  TypeOK' /\ CallsOK'
<1>1. TxType' /\ CallsOK'
  BY IdleControl DEF Rollback, TypeOK, TxType
<1>2. level' \in [Levels -> LevelRow] /\ lock' \in [Levels -> Workers \cup {NoWorker}]
  BY DEF Rollback, TypeOK
<1>3. row' \in [Keys -> KeyRow] /\ rowOwner' \in [Keys -> Workers \cup {NoWorker}]
  BY DEF Rollback, TypeOK
<1>4. UNCHANGED <<dbLevel, dbRow, begun>>
  BY DEF Rollback
<1> QED BY <1>1, <1>2, <1>3, <1>4 DEF TypeOK, TxType

LEMMA ReturnControl ==
  ASSUME TypeOK, CallsOK, NEW w \in Workers, tx[w].pc \notin {"idle", "commit"}, Return(w)
  PROVE  TxType' /\ CallsOK'
<1>1. Tail(tx[w].todo) \in Seq(Op) /\ \A op \in Ops(Tail(tx[w].todo)) : OpFine(op)
  BY CallTyped
<1>2. TxType
  BY DEF TypeOK, TxType
<1> QED BY <1>1, <1>2, ProceedControl DEF Return

LEMMA ReplayControl ==
  ASSUME TypeOK, CallsOK, NEW w \in Workers, tx[w].pc \in {"find", "insert"},
         NEW r, Replay(w, r)
  PROVE  TypeOK' /\ CallsOK'
<1>1. CASE r.st = "done"
  BY <1>1, ReturnControl DEF Replay, TypeOK, TxType
<1>2. CASE r.st # "done"
  BY <1>2, RollbackControl DEF Replay
<1> QED BY <1>1, <1>2

LEMMA Control == TypeOK /\ CallsOK /\ [Next]_vars => TypeOK' /\ CallsOK'
<1> SUFFICES ASSUME TypeOK, CallsOK, [Next]_vars PROVE TypeOK' /\ CallsOK'
  OBVIOUS
<1>0. TxType
  BY DEF TypeOK, TxType
<1>1. ASSUME NEW w \in Workers, Begin(w) PROVE TypeOK' /\ CallsOK'
  <2>1. PICK r \in Requests : tx' = [tx EXCEPT ![w] = Run(r)]
    BY <1>1 DEF Begin
  <2>2. r \in Seq(Op) /\ \A op \in Ops(r) : OpFine(op)
    BY RequestFine
  <2>3. TxType' /\ CallsOK'
    BY <1>0, <2>1, <2>2, ProceedControl
  <2>4. begun' \in 0..MaxBegun
    BY <1>1, SessionsAssumption DEF Begin, TypeOK
  <2> QED BY <1>1, <2>3, <2>4 DEF Begin, TypeOK, TxType
<1>2. ASSUME NEW w \in Workers, FindKey(w) PROVE TypeOK' /\ CallsOK'
  <2>1. CASE tx' = [tx EXCEPT ![w].pc = "insert"]
             /\ UNCHANGED <<level, dbLevel, lock, row, dbRow, rowOwner, begun>>
    <3>1. TxType' /\ CallsOK'
      BY <1>0, <1>2, <2>1, AdvanceControl DEF FindKey, CallsOK
    <3> QED BY <2>1, <3>1 DEF TypeOK, TxType
  <2>2. CASE Replay(w, VisibleRow(w, Call(w).key))
    BY <1>2, <2>2, ReplayControl DEF FindKey
  <2> QED BY <1>2, <2>1, <2>2 DEF FindKey
<1>3. ASSUME NEW w \in Workers, InsertKey(w) PROVE TypeOK' /\ CallsOK'
  <2>1. CASE /\ row' = [row EXCEPT ![Call(w).key] = PendingRow]
             /\ rowOwner' = [rowOwner EXCEPT ![Call(w).key] = w]
             /\ tx' = [tx EXCEPT ![w].pc = "lock"]
             /\ UNCHANGED <<level, dbLevel, lock, dbRow, begun>>
    <3>1. TxType' /\ CallsOK'
      BY <1>0, <1>3, <2>1, AdvanceControl DEF InsertKey
    <3>2. row' \in [Keys -> KeyRow] /\ rowOwner' \in [Keys -> Workers \cup {NoWorker}]
      BY <2>1 DEF TypeOK, KeyRow
    <3> QED BY <2>1, <3>1, <3>2 DEF TypeOK, TxType
  <2>2. CASE Replay(w, row[Call(w).key])
    BY <1>3, <2>2, ReplayControl DEF InsertKey
  <2> QED BY <1>3, <2>1, <2>2 DEF InsertKey
<1>4. ASSUME NEW w \in Workers, LockLevel(w) PROVE TypeOK' /\ CallsOK'
  <2>1. TxType' /\ CallsOK'
    BY <1>0, <1>4, AdvanceControl DEF LockLevel
  <2>2. lock' \in [Levels -> Workers \cup {NoWorker}]
    BY <1>4 DEF LockLevel, TypeOK
  <2> QED BY <1>4, <2>1, <2>2 DEF LockLevel, TypeOK, TxType
<1>5. ASSUME NEW w \in Workers, ApplyRecipe(w) PROVE TypeOK' /\ CallsOK'
  <2>0. 0 \in Int
    OBVIOUS
  <2>1. TxType' /\ CallsOK'
    BY <1>0, <1>5, <2>0, MutationTodo, ProceedControl DEF ApplyRecipe, GoOn
  <2> QED BY <1>5, <2>1 DEF ApplyRecipe, TypeOK, TxType
<1>6. ASSUME NEW w \in Workers, ApplyLevel(w) PROVE TypeOK' /\ CallsOK'
  <2>1. Call(w).qty \in Int /\ Call(w).lv \in Levels /\ Call(w) \in Op
    BY <1>6, CallTyped DEF ApplyLevel
  <2>2. TxType' /\ CallsOK'
    BY <1>0, <1>6, <2>1, MutationTodo, ProceedControl DEF ApplyLevel, GoOn
  <2>3. Mutated(Call(w), level[Call(w).lv]) \in LevelRow
    BY <1>6, <2>1, MutatedType DEF ApplyLevel, TypeOK
  <2>4. level' \in [Levels -> LevelRow]
    BY <1>6, <2>1, <2>3 DEF ApplyLevel, TypeOK
  <2> QED BY <1>6, <2>2, <2>4 DEF ApplyLevel, TypeOK, TxType
<1>7. ASSUME NEW w \in Workers, RejectMutation(w) PROVE TypeOK' /\ CallsOK'
  BY <1>7, RollbackControl DEF RejectMutation
<1>8. ASSUME NEW w \in Workers, SaveResult(w) PROVE TypeOK' /\ CallsOK'
  <2>1. /\ Call(w).lv \in Levels /\ Call(w).before \in Int /\ Call(w).qty \in Int
        /\ Call(w).key \in Keys
    BY <1>8, CallTyped DEF SaveResult, CallsOK, OpFine
  <2>2. TxType' /\ CallsOK'
    BY <1>8, ReturnControl DEF SaveResult
  <2>3. row' \in [Keys -> KeyRow]
    BY <1>8, <2>1 DEF SaveResult, TypeOK, KeyRow, DoneRow, Result
  <2> QED BY <1>8, <2>2, <2>3 DEF SaveResult, TypeOK, TxType
<1>9. ASSUME NEW w \in Workers, AdjustReserved(w) PROVE TypeOK' /\ CallsOK'
  <2>1. Call(w) \in Op /\ Call(w).lv \in Levels
    BY <1>9, CallTyped DEF AdjustReserved
  <2>2. CASE ReserveAllowed(Call(w), level[Call(w).lv])
    <3>1. TxType' /\ CallsOK'
      BY <1>9, <2>2, ReturnControl DEF AdjustReserved
    <3>2. level' \in [Levels -> LevelRow]
      BY <1>9, <2>1, <2>2, ReservedType DEF AdjustReserved, TypeOK
    <3>3. lock' \in [Levels -> Workers \cup {NoWorker}]
      BY <1>9, <2>1, <2>2 DEF AdjustReserved, TypeOK
    <3> QED BY <1>9, <2>2, <3>1, <3>2, <3>3 DEF AdjustReserved, TypeOK, TxType
  <2>3. CASE ~ReserveAllowed(Call(w), level[Call(w).lv])
    BY <1>9, <2>3, RollbackControl DEF AdjustReserved
  <2> QED BY <2>2, <2>3
<1>10. ASSUME NEW w \in Workers, Commit(w) PROVE TypeOK' /\ CallsOK'
  <2>1. TxType' /\ CallsOK'
    BY <1>0, <1>10, IdleControl DEF Commit
  <2>2. dbLevel' \in [Levels -> LevelRow] /\ lock' \in [Levels -> Workers \cup {NoWorker}]
    BY <1>10 DEF Commit, TypeOK
  <2>3. dbRow' \in [Keys -> KeyRow] /\ rowOwner' \in [Keys -> Workers \cup {NoWorker}]
    BY <1>10 DEF Commit, TypeOK
  <2> QED BY <1>10, <2>1, <2>2, <2>3 DEF Commit, TypeOK, TxType
<1>11. ASSUME NEW w \in Workers, DeadlockVictim(w) \/ Fail(w) PROVE TypeOK' /\ CallsOK'
  BY <1>11, RollbackControl DEF DeadlockVictim, Fail
<1>12. CASE UNCHANGED vars
  BY <1>12 DEF vars, TypeOK, CallsOK, Call
<1> QED BY <1>1, <1>2, <1>3, <1>4, <1>5, <1>6, <1>7, <1>8, <1>9, <1>10, <1>11, <1>12
        DEF Next, Step

-----------------------------------------------------------------------------
(* Locks and the rows of the idempotency keys. *)

ResultIn(todo, k) == \E op \in Ops(todo) : op.kind = "result" /\ op.key = k

LEMMA OwesRun ==
  ASSUME TxType, NEW w \in Workers, NEW todo \in Seq(Op),
         tx' = [tx EXCEPT ![w] = Run(todo)]
  PROVE  /\ \A k \in Keys : Owes(w, k)' <=> ResultIn(todo, k)
         /\ \A v \in Workers \ {w}, k \in Keys : Owes(v, k)' <=> Owes(v, k)
<1>1. /\ tx'[w] = Run(todo) /\ tx'[w].todo = todo
      /\ \A v \in Workers \ {w} : tx'[v] = tx[v]
  BY RunFine DEF TxType
<1>2. \A v \in Workers \ {w}, k \in Keys : Owes(v, k)' <=> Owes(v, k)
  BY <1>1 DEF Owes, Call
<1>3. ASSUME NEW k \in Keys PROVE Owes(w, k)' <=> ResultIn(todo, k)
  <2>1. tx'[w].pc \in {"lock", "apply"} => Head(todo).key = NoKey
    BY <1>1, RunFine
  <2>2. k # NoKey
    BY ConstantsAssumption
  <2> QED BY <1>1, <2>1, <2>2 DEF Owes, Call, ResultIn
<1> QED BY <1>2, <1>3

LEMMA OwesIdle ==
  ASSUME TxType, NEW w \in Workers, tx' = [tx EXCEPT ![w] = Idle]
  PROVE  /\ \A k \in Keys : ~Owes(w, k)'
         /\ \A v \in Workers \ {w}, k \in Keys : Owes(v, k)' <=> Owes(v, k)
<1>1. /\ tx'[w] = Idle /\ \A v \in Workers \ {w} : tx'[v] = tx[v]
  BY DEF TxType
<1>2. \A v \in Workers \ {w}, k \in Keys : Owes(v, k)' <=> Owes(v, k)
  BY <1>1 DEF Owes, Call
<1>3. \A k \in Keys : ~Owes(w, k)'
  BY <1>1, OpsShort DEF Owes, Idle
<1> QED BY <1>2, <1>3

LEMMA OwesReturn ==
  ASSUME TypeOK, CallsOK, NEW w \in Workers,
         tx[w].pc \notin {"idle", "commit", "lock", "apply"}, Return(w)
  PROVE  /\ \A k \in Keys : Owes(w, k) <=>
              Owes(w, k)' \/ (Call(w).kind = "result" /\ Call(w).key = k)
         /\ \A v \in Workers \ {w}, k \in Keys : Owes(v, k)' <=> Owes(v, k)
<1>1. /\ Tail(tx[w].todo) \in Seq(Op)
      /\ Ops(tx[w].todo) = {Call(w)} \cup Ops(Tail(tx[w].todo))
  BY CallTyped
<1>2. /\ \A k \in Keys : Owes(w, k)' <=> ResultIn(Tail(tx[w].todo), k)
      /\ \A v \in Workers \ {w}, k \in Keys : Owes(v, k)' <=> Owes(v, k)
  BY <1>1, OwesRun DEF Return, TypeOK, TxType
<1>3. \A k \in Keys : Owes(w, k) <=> ResultIn(tx[w].todo, k)
  BY DEF Owes, ResultIn
<1>4. \A k \in Keys : ResultIn(tx[w].todo, k) <=>
        ResultIn(Tail(tx[w].todo), k) \/ (Call(w).kind = "result" /\ Call(w).key = k)
  BY <1>1 DEF ResultIn
<1> QED BY <1>2, <1>3, <1>4

LEMMA OwesGoOn ==
  ASSUME TypeOK, CallsOK, NEW w \in Workers, tx[w].pc = "apply",
         NEW delta \in Int, GoOn(w, delta)
  PROVE  \A v \in Workers, k \in Keys : Owes(v, k)' <=> Owes(v, k)
<1> DEFINE todo == Parts(w) \o Res(w, delta) \o Tail(tx[w].todo)
<1>1. /\ todo \in Seq(Op)
      /\ Ops(todo) = Ops(Parts(w)) \cup Ops(Res(w, delta)) \cup Ops(Tail(tx[w].todo))
      /\ \A o \in Ops(Parts(w)) : o.kind = "mutate"
      /\ \A o \in Ops(Res(w, delta)) : o.kind = "result" /\ o.key = Call(w).key
      /\ Call(w).key # NoKey => Ops(Res(w, delta)) # {}
  BY MutationTodo
<1>2. Ops(tx[w].todo) = {Call(w)} \cup Ops(Tail(tx[w].todo)) /\ Call(w).kind = "mutate"
  BY CallTyped DEF CallsOK
<1>3. tx' = [tx EXCEPT ![w] = Run(todo)]
  BY DEF GoOn
<1> HIDE DEF todo
<1>4. /\ \A k \in Keys : Owes(w, k)' <=> ResultIn(todo, k)
      /\ \A v \in Workers \ {w}, k \in Keys : Owes(v, k)' <=> Owes(v, k)
  BY <1>1, <1>3, OwesRun DEF TypeOK, TxType
<1>5. ASSUME NEW k \in Keys PROVE Owes(w, k)' <=> Owes(w, k)
  <2>1. k # NoKey
    BY ConstantsAssumption
  <2>2. ResultIn(todo, k) <=> Call(w).key = k \/ ResultIn(Tail(tx[w].todo), k)
    BY <1>1, <2>1 DEF ResultIn
  <2>3. Owes(w, k) <=> Call(w).key = k \/ ResultIn(Tail(tx[w].todo), k)
    BY <1>2 DEF Owes, ResultIn
  <2> QED BY <1>4, <2>2, <2>3
<1> QED BY <1>4, <1>5

LEMMA OwesAdvance ==
  ASSUME TypeOK, CallsOK, NEW w \in Workers, tx[w].pc \in {"find", "insert", "lock"},
         NEW pc \in {"insert", "lock", "apply"}, tx' = [tx EXCEPT ![w].pc = pc]
  PROVE  /\ \A v \in Workers, k \in Keys : Call(v)' = Call(v) /\ tx'[v].todo = tx[v].todo
         /\ \A k \in Keys : Owes(w, k)' <=>
              (pc \in {"lock", "apply"} /\ Call(w).key = k) \/ ResultIn(tx[w].todo, k)
         /\ \A k \in Keys : Owes(w, k) <=>
              (tx[w].pc = "lock" /\ Call(w).key = k) \/ ResultIn(tx[w].todo, k)
         /\ \A v \in Workers \ {w}, k \in Keys : Owes(v, k)' <=> Owes(v, k)
<1>1. /\ tx'[w].pc = pc /\ tx'[w].todo = tx[w].todo
      /\ \A v \in Workers \ {w} : tx'[v] = tx[v]
  BY DEF TypeOK
<1>2. \A v \in Workers : Call(v)' = Call(v) /\ tx'[v].todo = tx[v].todo
  BY <1>1 DEF Call
<1>3. \A v \in Workers \ {w}, k \in Keys : Owes(v, k)' <=> Owes(v, k)
  BY <1>1, <1>2 DEF Owes
<1>4. \A k \in Keys : Owes(w, k)' <=>
        (pc \in {"lock", "apply"} /\ Call(w).key = k) \/ ResultIn(tx[w].todo, k)
  BY <1>1, <1>2 DEF Owes, ResultIn
<1>5. \A k \in Keys : Owes(w, k) <=>
        (tx[w].pc = "lock" /\ Call(w).key = k) \/ ResultIn(tx[w].todo, k)
  BY DEF Owes, ResultIn
<1> QED BY <1>2, <1>3, <1>4, <1>5

LEMMA RunNotApply ==
  ASSUME TxType, CallsOK, NEW w \in Workers, ApplyLocked,
         \/ \E todo \in Seq(Op) : tx' = [tx EXCEPT ![w] = Run(todo)]
         \/ tx' = [tx EXCEPT ![w] = Idle]
         \/ tx' = [tx EXCEPT ![w].pc = "insert"]
         \/ tx' = [tx EXCEPT ![w].pc = "lock"],
         \A l \in Levels : lock'[l] = lock[l] \/ lock[l] \in {w, NoWorker}
  PROVE  ApplyLocked'
<1>1. tx'[w].pc # "apply" /\ \A v \in Workers \ {w} : tx'[v] = tx[v]
  BY RunFine DEF TxType, Idle
<1>2. \A v \in Workers \ {w} : tx[v].pc = "apply" => Call(v).lv \in Levels
  <2> SUFFICES ASSUME NEW v \in Workers, tx[v].pc = "apply" PROVE Call(v).lv \in Levels
    OBVIOUS
  <2>1. tx[v].todo \in Seq(Op) /\ tx[v].todo # <<>>
    BY DEF TxType, CallsOK
  <2>2. Head(tx[v].todo) \in Op
    BY <2>1
  <2> QED BY <2>2 DEF Call, Op
<1> QED BY <1>1, <1>2, SessionsAssumption DEF ApplyLocked, Call

LEMMA KeyRowFacts ==
  /\ NoRow \in KeyRow /\ PendingRow \in KeyRow /\ NoRow # PendingRow
  /\ \A r \in KeyRow : /\ r.st = "none" <=> r = NoRow
                       /\ r.st = "pending" <=> r = PendingRow
                       /\ r.st \in {"none", "pending", "done"}
  /\ \A res \in Result : DoneRow(res) \in KeyRow \ {NoRow, PendingRow}
BY DEF KeyRow, NoRow, PendingRow, DoneRow

Layer2 == TypeOK /\ CallsOK /\ LocksOK /\ KeysOK

LEMMA RollbackLocks ==
  ASSUME Layer2, NEW w \in Workers, Rollback(w)
  PROVE  LocksOK' /\ KeysOK'
<1>0. TypeOK /\ CallsOK /\ LocksOK /\ KeysOK /\ TxType
  BY DEF Layer2, TypeOK, TxType
<1>1. tx' = [tx EXCEPT ![w] = Idle] /\ UNCHANGED <<dbLevel, dbRow>>
  BY DEF Rollback
<1>2. /\ \A l \in Levels : level'[l] = IF lock[l] = w THEN dbLevel[l] ELSE level[l]
      /\ \A l \in Levels : lock'[l] = IF lock[l] = w THEN NoWorker ELSE lock[l]
      /\ \A k \in Keys : row'[k] = IF rowOwner[k] = w THEN dbRow[k] ELSE row[k]
      /\ \A k \in Keys : rowOwner'[k] = IF rowOwner[k] = w THEN NoWorker ELSE rowOwner[k]
  BY DEF Rollback
<1>3. ApplyLocked'
  BY <1>0, <1>1, <1>2, RunNotApply DEF LocksOK
<1>4. UnlockedSame' /\ RowsOwned'
  BY <1>0, <1>1, <1>2, SessionsAssumption DEF LocksOK, UnlockedSame, RowsOwned
<1>5. /\ \A k \in Keys : ~Owes(w, k)'
      /\ \A v \in Workers \ {w}, k \in Keys : Owes(v, k)' <=> Owes(v, k)
  BY <1>0, <1>1, OwesIdle
<1>6. PendingOwed'
  BY <1>0, <1>1, <1>2, <1>5 DEF KeysOK, PendingOwed
<1>7. OwersOwn'
  BY <1>0, <1>2, <1>5 DEF KeysOK, OwersOwn
<1> QED BY <1>0, <1>1, <1>3, <1>4, <1>6, <1>7 DEF LocksOK, KeysOK

(* A step that leaves rows, locks and debts alone. *)
LEMMA SameLocks ==
  ASSUME Layer2, NEW w \in Workers,
         ApplyLocked',
         UNCHANGED <<dbLevel, dbRow, row, rowOwner>>,
         \A l \in Levels : lock'[l] = NoWorker => level'[l] = level[l] /\ lock[l] = NoWorker,
         \A v \in Workers, k \in Keys : Owes(v, k)' <=> Owes(v, k)
  PROVE  LocksOK' /\ KeysOK'
<1>0. LocksOK /\ KeysOK
  BY DEF Layer2
<1>1. UnlockedSame' /\ RowsOwned'
  BY <1>0 DEF LocksOK, UnlockedSame, RowsOwned
<1>2. PendingOwed' /\ OwersOwn'
  BY <1>0 DEF KeysOK, PendingOwed, OwersOwn, TypeOK, Layer2
<1> QED BY <1>0, <1>1, <1>2 DEF LocksOK, KeysOK

LEMMA ReplayLocks ==
  ASSUME Layer2, NEW w \in Workers, tx[w].pc \in {"find", "insert"}, NEW r, Replay(w, r)
  PROVE  LocksOK' /\ KeysOK'
<1>0. TypeOK /\ CallsOK /\ LocksOK /\ TxType
  BY DEF Layer2, TypeOK, TxType
<1>1. CASE r.st = "done"
  <2>1. Return(w) /\ UNCHANGED <<level, dbLevel, lock, row, dbRow, rowOwner>>
    BY <1>1 DEF Replay
  <2>2. Call(w).kind = "mutate" /\ Tail(tx[w].todo) \in Seq(Op)
    BY <1>0, CallTyped DEF CallsOK
  <2>3. ApplyLocked'
    BY <1>0, <2>1, <2>2, RunNotApply DEF Return, LocksOK
  <2>4. \A v \in Workers, k \in Keys : Owes(v, k)' <=> Owes(v, k)
    BY <1>0, <2>1, <2>2, OwesReturn
  <2> QED BY <2>1, <2>3, <2>4, SameLocks
<1>2. CASE r.st # "done"
  BY <1>2, RollbackLocks DEF Replay
<1> QED BY <1>1, <1>2

LEMMA Locks == Layer2 /\ [Next]_vars => LocksOK' /\ KeysOK'
<1> SUFFICES ASSUME Layer2, [Next]_vars PROVE LocksOK' /\ KeysOK'
  OBVIOUS
<1>0. TypeOK /\ CallsOK /\ LocksOK /\ KeysOK /\ TxType
  BY DEF Layer2, TypeOK, TxType
<1>1. ASSUME NEW w \in Workers, Begin(w) PROVE LocksOK' /\ KeysOK'
  <2>1. PICK r \in Requests : tx' = [tx EXCEPT ![w] = Run(r)]
    BY <1>1 DEF Begin
  <2>2. r \in Seq(Op) /\ \A op \in Ops(r) : op.kind # "result"
    BY RequestFine
  <2>3. UNCHANGED <<level, dbLevel, lock, row, dbRow, rowOwner>> /\ tx[w].pc = "idle"
    BY <1>1 DEF Begin
  <2>4. ApplyLocked'
    BY <1>0, <2>1, <2>2, <2>3, RunNotApply DEF LocksOK
  <2>5. \A k \in Keys : ~Owes(w, k)
    BY <1>0, <2>3, OpsShort DEF Owes, CallsOK
  <2>6. /\ \A k \in Keys : Owes(w, k)' <=> ResultIn(r, k)
        /\ \A v \in Workers \ {w}, k \in Keys : Owes(v, k)' <=> Owes(v, k)
    BY <1>0, <2>1, <2>2, OwesRun
  <2>7. \A k \in Keys : ~ResultIn(r, k)
    BY <2>2 DEF ResultIn
  <2>8. \A v \in Workers, k \in Keys : Owes(v, k)' <=> Owes(v, k)
    BY <2>5, <2>6, <2>7
  <2> QED BY <2>3, <2>4, <2>8, SameLocks
<1>2. ASSUME NEW w \in Workers, FindKey(w) PROVE LocksOK' /\ KeysOK'
  <2>1. CASE tx' = [tx EXCEPT ![w].pc = "insert"]
             /\ UNCHANGED <<level, dbLevel, lock, row, dbRow, rowOwner, begun>>
    <3>1. ApplyLocked'
      BY <1>0, <2>1, RunNotApply DEF LocksOK
    <3>2. \A v \in Workers, k \in Keys : Owes(v, k)' <=> Owes(v, k)
      BY <1>0, <1>2, <2>1, OwesAdvance DEF FindKey
    <3> QED BY <2>1, <3>1, <3>2, SameLocks
  <2>2. CASE Replay(w, VisibleRow(w, Call(w).key))
    BY <1>2, <2>2, ReplayLocks DEF FindKey
  <2> QED BY <1>2, <2>1, <2>2 DEF FindKey
<1>3. ASSUME NEW w \in Workers, InsertKey(w) PROVE LocksOK' /\ KeysOK'
  <2> DEFINE key == Call(w).key
  <2>0. key \in Keys /\ tx[w].pc = "insert" /\ rowOwner[key] \in {NoWorker, w}
    BY <1>0, <1>3, CallTyped DEF InsertKey, CallsOK, CanInsert
  <2>1. CASE /\ row[key].st = "none"
             /\ row' = [row EXCEPT ![key] = PendingRow]
             /\ rowOwner' = [rowOwner EXCEPT ![key] = w]
             /\ tx' = [tx EXCEPT ![w].pc = "lock"]
             /\ UNCHANGED <<level, dbLevel, lock, dbRow, begun>>
    <3>1. ApplyLocked'
      BY <1>0, <2>1, RunNotApply DEF LocksOK
    <3>2. row[key] = NoRow
      BY <1>0, <2>0, <2>1, KeyRowFacts DEF TypeOK
    <3>3. rowOwner[key] = NoWorker /\ dbRow[key] = NoRow
      BY <1>0, <2>0, <3>2 DEF LocksOK, RowsOwned
    <3>4. UnlockedSame' /\ RowsOwned'
      BY <1>0, <2>0, <2>1, <3>2, <3>3, KeyRowFacts, SessionsAssumption
         DEF LocksOK, UnlockedSame, RowsOwned, TypeOK
    <3>5. /\ \A k \in Keys : Owes(w, k)' <=> Owes(w, k) \/ k = key
          /\ \A v \in Workers \ {w}, k \in Keys : Owes(v, k)' <=> Owes(v, k)
      BY <1>0, <2>0, <2>1, OwesAdvance
    <3>6. PendingOwed'
      BY <1>0, <2>0, <2>1, <3>5 DEF KeysOK, PendingOwed, TypeOK
    <3>7. \A v \in Workers : ~Owes(v, key)
      BY <1>0, <2>0, <3>3, SessionsAssumption DEF KeysOK, OwersOwn
    <3>8. OwersOwn'
      <4> SUFFICES ASSUME NEW v \in Workers, NEW k \in Keys, Owes(v, k)'
                   PROVE  rowOwner'[k] = v
        BY DEF OwersOwn
      <4>1. CASE k = key
        BY <1>0, <2>0, <2>1, <3>5, <3>7, <4>1 DEF TypeOK
      <4>2. CASE k # key
        <5>1. rowOwner'[k] = rowOwner[k]
          BY <1>0, <2>0, <2>1, <4>2 DEF TypeOK
        <5>2. Owes(v, k)
          BY <3>5, <4>2
        <5> QED BY <1>0, <5>1, <5>2 DEF KeysOK, OwersOwn
      <4> QED BY <4>1, <4>2
    <3> QED BY <1>0, <2>1, <3>1, <3>4, <3>6, <3>8 DEF LocksOK, KeysOK
  <2>2. CASE Replay(w, row[key])
    BY <2>0, <2>2, ReplayLocks
  <2> QED BY <1>3, <2>1, <2>2 DEF InsertKey
<1>4. ASSUME NEW w \in Workers, LockLevel(w) PROVE LocksOK' /\ KeysOK'
  <2>0. Call(w).lv \in Levels /\ tx[w].pc = "lock" /\ lock[Call(w).lv] \in {NoWorker, w}
    BY <1>0, <1>4, CallTyped DEF LockLevel, CanLock
  <2>1. /\ lock' = [lock EXCEPT ![Call(w).lv] = w]
        /\ tx' = [tx EXCEPT ![w].pc = "apply"]
        /\ UNCHANGED <<level, dbLevel, row, dbRow, rowOwner>>
    BY <1>4 DEF LockLevel
  <2>2. \A v \in Workers : Call(v)' = Call(v) /\ (v # w => tx'[v] = tx[v])
    BY <1>0, <2>1 DEF Call, TxType
  <2>3. ApplyLocked'
    <3> SUFFICES ASSUME NEW v \in Workers, tx'[v].pc = "apply"
                 PROVE  lock'[Call(v).lv] = v
      BY <2>2 DEF ApplyLocked
    <3>1. CASE v = w
      BY <1>0, <2>0, <2>1, <3>1 DEF TypeOK
    <3>2. CASE v # w
      <4>1. tx[v].pc = "apply" /\ lock[Call(v).lv] = v
        BY <1>0, <2>2, <3>2 DEF LocksOK, ApplyLocked
      <4>2. Call(v).lv \in Levels
        BY <1>0, <4>1, CallTyped
      <4> QED BY <1>0, <2>0, <2>1, <3>2, <4>1, <4>2, SessionsAssumption DEF TypeOK
    <3> QED BY <3>1, <3>2
  <2>4. \A v \in Workers, k \in Keys : Owes(v, k)' <=> Owes(v, k)
    BY <1>0, <2>0, <2>1, OwesAdvance
  <2>5. \A l \in Levels : lock'[l] = NoWorker => lock[l] = NoWorker
    BY <1>0, <2>0, <2>1, SessionsAssumption DEF TypeOK
  <2> QED BY <2>1, <2>3, <2>4, <2>5, SameLocks
<1>5. ASSUME NEW w \in Workers, NEW delta \in Int, GoOn(w, delta), tx[w].pc = "apply",
             UNCHANGED <<dbLevel, lock, row, dbRow, rowOwner>>,
             \A l \in Levels : l # Call(w).lv => level'[l] = level[l]
      PROVE  LocksOK' /\ KeysOK'
  <2>1. Parts(w) \o Res(w, delta) \o Tail(tx[w].todo) \in Seq(Op)
    BY <1>0, <1>5, MutationTodo
  <2>2. ApplyLocked'
    BY <1>0, <1>5, <2>1, RunNotApply DEF LocksOK, GoOn
  <2>3. \A v \in Workers, k \in Keys : Owes(v, k)' <=> Owes(v, k)
    BY <1>0, <1>5, OwesGoOn
  <2>4. lock[Call(w).lv] = w
    BY <1>0, <1>5 DEF LocksOK, ApplyLocked
  <2> QED BY <1>5, <2>2, <2>3, <2>4, SessionsAssumption, SameLocks
<1>6. ASSUME NEW w \in Workers, ApplyRecipe(w) PROVE LocksOK' /\ KeysOK'
  <2>1. 0 \in Int
    OBVIOUS
  <2> QED BY <1>5, <1>6, <2>1 DEF ApplyRecipe
<1>7. ASSUME NEW w \in Workers, ApplyLevel(w) PROVE LocksOK' /\ KeysOK'
  <2>1. Call(w).qty \in Int
    BY <1>0, <1>7, CallTyped DEF ApplyLevel
  <2>2. \A l \in Levels : l # Call(w).lv => level'[l] = level[l]
    BY <1>0, <1>7 DEF ApplyLevel, TypeOK
  <2> QED BY <1>5, <1>7, <2>1, <2>2 DEF ApplyLevel
<1>8. ASSUME NEW w \in Workers, RejectMutation(w) PROVE LocksOK' /\ KeysOK'
  BY <1>8, RollbackLocks DEF RejectMutation
<1>9. ASSUME NEW w \in Workers, SaveResult(w) PROVE LocksOK' /\ KeysOK'
  <2> DEFINE key == Call(w).key
             res == [lv |-> Call(w).lv, before |-> Call(w).before, delta |-> Call(w).qty]
  <2>0. /\ key \in Keys /\ res \in Result /\ Tail(tx[w].todo) \in Seq(Op)
        /\ Call(w).kind = "result" /\ tx[w].pc = "result"
    BY <1>0, <1>9, CallTyped DEF SaveResult, CallsOK, OpFine, Result
  <2>1. row' = [row EXCEPT ![key] = DoneRow(res)]
        /\ Return(w) /\ UNCHANGED <<level, dbLevel, lock, dbRow, rowOwner>>
    BY <1>9 DEF SaveResult
  <2> HIDE DEF res
  <2>2. ApplyLocked'
    BY <1>0, <2>0, <2>1, RunNotApply DEF Return, LocksOK
  <2>3. /\ \A k \in Keys : Owes(w, k) <=> Owes(w, k)' \/ key = k
        /\ \A v \in Workers \ {w}, k \in Keys : Owes(v, k)' <=> Owes(v, k)
    BY <1>0, <2>0, <2>1, OwesReturn
  <2>4. rowOwner[key] = w
    BY <1>0, <2>0, <2>3 DEF KeysOK, OwersOwn
  <2>5. UnlockedSame' /\ RowsOwned'
    BY <1>0, <2>0, <2>1, <2>4, SessionsAssumption, KeyRowFacts
       DEF LocksOK, UnlockedSame, RowsOwned, TypeOK
  <2>6. PendingOwed'
    <3>1. DoneRow(res) # PendingRow
      BY <2>0, KeyRowFacts
    <3>2. ASSUME NEW k \in Keys, row'[k] = PendingRow
          PROVE  k # key /\ row[k] = PendingRow
      BY <1>0, <2>0, <2>1, <3>1, <3>2 DEF TypeOK
    <3>3. ASSUME NEW k \in Keys, k # key, row[k] = PendingRow
          PROVE  rowOwner[k] \in Workers /\ Owes(rowOwner[k], k)
      BY <1>0, <3>3 DEF KeysOK, PendingOwed
    <3>4. ASSUME NEW k \in Keys, k # key, row[k] = PendingRow
          PROVE  (rowOwner[k] \in Workers /\ Owes(rowOwner[k], k))'
      BY <2>1, <2>3, <3>3, <3>4
    <3> QED BY <3>2, <3>4 DEF PendingOwed
  <2>7. OwersOwn'
    BY <1>0, <2>0, <2>1, <2>3 DEF KeysOK, OwersOwn
  <2> QED BY <1>0, <2>1, <2>2, <2>5, <2>6, <2>7 DEF LocksOK, KeysOK
<1>10. ASSUME NEW w \in Workers, AdjustReserved(w) PROVE LocksOK' /\ KeysOK'
  <2>0. /\ Call(w).lv \in Levels /\ tx[w].pc = "reserve"
        /\ lock[Call(w).lv] \in {NoWorker, w} /\ Tail(tx[w].todo) \in Seq(Op)
        /\ Call(w).kind = "reserve"
    BY <1>0, <1>10, CallTyped DEF AdjustReserved, CanLock, CallsOK
  <2>1. CASE ReserveAllowed(Call(w), level[Call(w).lv])
    <3>1. /\ level' = [level EXCEPT ![Call(w).lv] = Reserved(Call(w), @)]
          /\ lock' = [lock EXCEPT ![Call(w).lv] = w]
          /\ Return(w)
          /\ UNCHANGED <<dbLevel, row, dbRow, rowOwner>>
      BY <1>10, <2>1 DEF AdjustReserved
    <3>2. \A l \in Levels : lock'[l] = lock[l] \/ lock[l] \in {w, NoWorker}
      BY <1>0, <2>0, <3>1 DEF TypeOK
    <3>3. ApplyLocked'
      BY <1>0, <2>0, <3>1, <3>2, RunNotApply DEF Return, LocksOK
    <3>4. \A v \in Workers, k \in Keys : Owes(v, k)' <=> Owes(v, k)
      BY <1>0, <2>0, <3>1, OwesReturn
    <3>5. \A l \in Levels : lock'[l] = NoWorker => level'[l] = level[l] /\ lock[l] = NoWorker
      BY <1>0, <2>0, <3>1, SessionsAssumption DEF TypeOK
    <3> QED BY <3>1, <3>3, <3>4, <3>5, SameLocks
  <2>2. CASE ~ReserveAllowed(Call(w), level[Call(w).lv])
    BY <1>10, <2>2, RollbackLocks DEF AdjustReserved
  <2> QED BY <2>1, <2>2
<1>11. ASSUME NEW w \in Workers, Commit(w) PROVE LocksOK' /\ KeysOK'
  <2>1. /\ \A l \in Levels : dbLevel'[l] = IF lock[l] = w THEN level[l] ELSE dbLevel[l]
        /\ \A l \in Levels : lock'[l] = IF lock[l] = w THEN NoWorker ELSE lock[l]
        /\ \A k \in Keys : dbRow'[k] = IF rowOwner[k] = w THEN row[k] ELSE dbRow[k]
        /\ \A k \in Keys : rowOwner'[k] = IF rowOwner[k] = w THEN NoWorker ELSE rowOwner[k]
        /\ tx' = [tx EXCEPT ![w] = Idle]
        /\ UNCHANGED <<level, row>> /\ tx[w].pc = "commit"
    BY <1>11 DEF Commit
  <2>2. ApplyLocked'
    BY <1>0, <2>1, RunNotApply DEF LocksOK
  <2>3. UnlockedSame' /\ RowsOwned'
    BY <1>0, <2>1, SessionsAssumption DEF LocksOK, UnlockedSame, RowsOwned
  <2>4. /\ \A k \in Keys : ~Owes(w, k)'
        /\ \A v \in Workers \ {w}, k \in Keys : Owes(v, k)' <=> Owes(v, k)
    BY <1>0, <2>1, OwesIdle
  <2>5. \A k \in Keys : ~Owes(w, k)
    BY <1>0, <2>1, OpsShort DEF Owes, CallsOK
  <2>6. \A k \in Keys : dbRow'[k] # PendingRow
    BY <1>0, <2>1, <2>5 DEF KeysOK, PendingOwed
  <2>7. PendingOwed'
    BY <1>0, <2>1, <2>4, <2>5 DEF KeysOK, PendingOwed
  <2>8. OwersOwn'
    BY <1>0, <2>1, <2>4 DEF KeysOK, OwersOwn
  <2> QED BY <2>2, <2>3, <2>6, <2>7, <2>8 DEF LocksOK, KeysOK
<1>12. ASSUME NEW w \in Workers, DeadlockVictim(w) \/ Fail(w) PROVE LocksOK' /\ KeysOK'
  BY <1>12, RollbackLocks DEF DeadlockVictim, Fail
<1>13. CASE UNCHANGED vars
  <2>1. \A v \in Workers, k \in Keys : Call(v)' = Call(v) /\ (Owes(v, k)' <=> Owes(v, k))
    BY <1>13 DEF vars, Owes, Call
  <2>2. ApplyLocked'
    BY <1>0, <1>13 DEF vars, LocksOK, ApplyLocked, Call
  <2> QED BY <1>0, <1>13, <2>1, <2>2
       DEF vars, LocksOK, KeysOK, UnlockedSame, RowsOwned, PendingOwed, OwersOwn
<1> QED BY <1>1, <1>2, <1>3, <1>4, <1>6, <1>7, <1>8, <1>9, <1>10, <1>11, <1>12, <1>13
        DEF Next, Step

-----------------------------------------------------------------------------
(* Quantities. *)

LEMMA MutatedSound ==
  ASSUME NEW l \in Levels, NEW lv \in LevelRow, NEW op \in Op,
         Sound(l, lv), Allowed(op, lv), op.neg => l \in NegativeLevels
  PROVE  Sound(l, Mutated(op, lv))
<1> DEFINE n == Len(lv.ledger)
           e == [key |-> op.key, before |-> lv.onHand, delta |-> op.qty,
                 after |-> lv.onHand + op.qty, dmg |-> op.dmg]
           m == Mutated(op, lv)
<1>1. /\ lv.ledger \in Seq(Entry) /\ n \in Nat /\ e \in Entry
      /\ lv.onHand \in Int /\ lv.reserved \in Int /\ op.qty \in Int
  BY DEF LevelRow, Op, Entry
<1>2. /\ m.onHand = lv.onHand + op.qty /\ m.reserved = lv.reserved
      /\ m.ledger = Append(lv.ledger, e)
  BY DEF Mutated
<1>3. /\ Len(m.ledger) = n + 1 /\ m.ledger[n + 1] = e
      /\ \A i \in 1..n : m.ledger[i] = lv.ledger[i]
  BY <1>1, <1>2
<1>4. e.before = lv.onHand /\ e.delta = op.qty /\ e.after = lv.onHand + op.qty
  OBVIOUS
<1> HIDE DEF m, e
<1>5. /\ lv.onHand = IF n = 0 THEN Opening[l] ELSE lv.ledger[n].after
      /\ \A i \in 1..n :
           /\ lv.ledger[i].before = IF i = 1 THEN Opening[l] ELSE lv.ledger[i-1].after
           /\ lv.ledger[i].after = lv.ledger[i].before + lv.ledger[i].delta
  BY DEF Sound, Chained
<1>6. ASSUME NEW i \in 1..(n + 1)
      PROVE  /\ m.ledger[i].before = IF i = 1 THEN Opening[l] ELSE m.ledger[i-1].after
             /\ m.ledger[i].after = m.ledger[i].before + m.ledger[i].delta
  <2>1. CASE i = n + 1
    <3>1. CASE n = 0
      BY <1>1, <1>3, <1>4, <1>5, <2>1, <3>1
    <3>2. CASE n # 0
      <4>1. i - 1 = n /\ n \in 1..n /\ i # 1
        BY <1>1, <2>1, <3>2
      <4> QED BY <1>1, <1>3, <1>4, <1>5, <2>1, <3>2, <4>1
    <3> QED BY <3>1, <3>2
  <2>2. CASE i # n + 1
    <3>1. i \in 1..n /\ (i # 1 => i - 1 \in 1..n)
      BY <1>1, <2>2
    <3> QED BY <1>3, <1>5, <3>1
  <2> QED BY <2>1, <2>2
<1>7. m.onHand = IF Len(m.ledger) = 0 THEN Opening[l] ELSE m.ledger[Len(m.ledger)].after
  BY <1>1, <1>2, <1>3, <1>4
<1>8. Chained(l, m)
  BY <1>3, <1>6, <1>7 DEF Chained
<1>9. l \notin NegativeLevels => 0 <= m.reserved /\ m.reserved <= m.onHand
  BY <1>1, <1>2 DEF Sound, Allowed
<1> QED BY <1>8, <1>9 DEF Sound, m

LEMMA ReservedSound ==
  ASSUME NEW l \in Levels, NEW lv \in LevelRow, NEW op \in Op,
         Sound(l, lv), ReserveAllowed(op, lv)
  PROVE  Sound(l, Reserved(op, lv))
<1>1. /\ Reserved(op, lv).onHand = lv.onHand
      /\ Reserved(op, lv).reserved = lv.reserved + op.qty
      /\ Reserved(op, lv).ledger = lv.ledger
  BY ReservedType
<1>2. lv.onHand \in Int /\ lv.reserved \in Int /\ op.qty \in Int
  BY DEF LevelRow, Op
<1>3. Chained(l, Reserved(op, lv))
  BY <1>1 DEF Sound, Chained
<1>4. 0 <= lv.reserved + op.qty /\ lv.reserved + op.qty <= lv.onHand
  BY <1>2 DEF ReserveAllowed
<1> QED BY <1>1, <1>3, <1>4 DEF Sound

(* The only writers of level and dbLevel. *)
LEMMA LevelWrites ==
  ASSUME TypeOK, CallsOK, [Next]_vars
  PROVE  \/ UNCHANGED <<level, dbLevel>>
         \/ \E w \in Workers : ApplyLevel(w) \/ Rollback(w) \/ Commit(w)
         \/ \E w \in Workers :
              AdjustReserved(w) /\ ReserveAllowed(Call(w), level[Call(w).lv])
BY DEF Next, Step, vars, Begin, FindKey, InsertKey, LockLevel, ApplyRecipe,
       RejectMutation, SaveResult, AdjustReserved, DeadlockVictim, Fail, Replay

LEMMA Quantities == TypeOK /\ CallsOK /\ StockOK /\ [Next]_vars => StockOK'
<1> SUFFICES ASSUME TypeOK, CallsOK, StockOK, [Next]_vars PROVE StockOK'
  OBVIOUS
<1>1. CASE UNCHANGED <<level, dbLevel>>
  BY <1>1 DEF StockOK
<1>2. ASSUME NEW w \in Workers, ApplyLevel(w) PROVE StockOK'
  <2>1. /\ Call(w) \in Op /\ OpFine(Call(w)) /\ Call(w).lv \in Levels
        /\ Call(w).kind = "mutate"
    BY <1>2, CallTyped DEF ApplyLevel, CallsOK
  <2>2. /\ Allowed(Call(w), level[Call(w).lv]) /\ UNCHANGED dbLevel
        /\ level' = [level EXCEPT ![Call(w).lv] = Mutated(Call(w), @)]
    BY <1>2 DEF ApplyLevel
  <2>3. level[Call(w).lv] \in LevelRow /\ Sound(Call(w).lv, level[Call(w).lv])
    BY <2>1 DEF TypeOK, StockOK
  <2>4. Sound(Call(w).lv, Mutated(Call(w), level[Call(w).lv]))
    BY <2>1, <2>2, <2>3, MutatedSound DEF OpFine
  <2> QED BY <2>1, <2>2, <2>4 DEF StockOK, TypeOK
<1>3. ASSUME NEW w \in Workers, Rollback(w) PROVE StockOK'
  <2>1. \A l \in Levels : level'[l] \in {level[l], dbLevel[l]} /\ UNCHANGED dbLevel
    BY <1>3 DEF Rollback
  <2> QED BY <2>1 DEF StockOK
<1>4. ASSUME NEW w \in Workers, Commit(w) PROVE StockOK'
  <2>1. \A l \in Levels : dbLevel'[l] \in {level[l], dbLevel[l]} /\ UNCHANGED level
    BY <1>4 DEF Commit
  <2> QED BY <2>1 DEF StockOK
<1>5. ASSUME NEW w \in Workers, AdjustReserved(w),
             ReserveAllowed(Call(w), level[Call(w).lv])
      PROVE  StockOK'
  <2>1. Call(w) \in Op /\ Call(w).lv \in Levels
    BY <1>5, CallTyped DEF AdjustReserved
  <2>2. /\ UNCHANGED dbLevel
        /\ level' = [level EXCEPT ![Call(w).lv] = Reserved(Call(w), @)]
    BY <1>5 DEF AdjustReserved
  <2>3. level[Call(w).lv] \in LevelRow /\ Sound(Call(w).lv, level[Call(w).lv])
    BY <2>1 DEF TypeOK, StockOK
  <2>4. Sound(Call(w).lv, Reserved(Call(w), level[Call(w).lv]))
    BY <1>5, <2>1, <2>3, ReservedSound
  <2> QED BY <2>1, <2>2, <2>4 DEF StockOK, TypeOK
<1> QED BY <1>1, <1>2, <1>3, <1>4, <1>5, LevelWrites

-----------------------------------------------------------------------------
(* Ledger entries and their keys. *)

Layer4 == Layer2 /\ EntriesOK

LEMMA EntryTypes ==
  ASSUME TypeOK, NEW l \in Levels
  PROVE  /\ level[l].ledger \in Seq(Entry) /\ dbLevel[l].ledger \in Seq(Entry)
         /\ Len(level[l].ledger) \in Nat /\ Len(dbLevel[l].ledger) \in Nat
         /\ \A i \in Positions(l) : KeyAt(l, i) \in Keys \cup {NoKey}
<1>1. level[l].ledger \in Seq(Entry) /\ dbLevel[l].ledger \in Seq(Entry)
  BY DEF TypeOK, LevelRow
<1>2. \A i \in Positions(l) : level[l].ledger[i] \in Entry
  BY <1>1 DEF Positions
<1> QED BY <1>1, <1>2 DEF KeyAt, Entry

(* A session that is not between its insert and its update needs no fresh key. *)
LEMMA FreshStep ==
  ASSUME TxType, FreshOK, NEW w \in Workers,
         \/ \E todo \in Seq(Op) : tx' = [tx EXCEPT ![w] = Run(todo)]
         \/ tx' = [tx EXCEPT ![w] = Idle]
         \/ tx' = [tx EXCEPT ![w].pc = "insert"],
         \A l \in Levels : /\ Positions(l)' \subseteq Positions(l)
                           /\ \A i \in Positions(l)' : KeyAt(l, i)' = KeyAt(l, i)
  PROVE  FreshOK'
<1>1. \A v \in Workers \ {w} : tx'[v] = tx[v]
  BY DEF TxType
<1>2. tx'[w].pc \in {"lock", "apply"} => Head(tx'[w].todo).key = NoKey
  BY RunFine DEF TxType, Idle
<1> QED BY <1>1, <1>2 DEF FreshOK, Call

(* No ledger holds a key that nobody has recorded or is recording. *)
LEMMA UnusedKey ==
  ASSUME Layer4, NEW k \in Keys, rowOwner[k] = NoWorker, dbRow[k] = NoRow,
         NEW l \in Levels, NEW i \in Positions(l)
  PROVE  KeyAt(l, i) # k
<1> SUFFICES ASSUME KeyAt(l, i) = k PROVE FALSE
  OBVIOUS
<1>0. TypeOK /\ UnlockedSame /\ KeyedOK /\ k # NoKey
  BY ConstantsAssumption DEF Layer4, Layer2, LocksOK, EntriesOK
<1>1. lock[l] = NoWorker /\ ~(i <= Len(dbLevel[l].ledger))
  BY <1>0 DEF KeyedOK
<1>2. level[l] = dbLevel[l]
  BY <1>0, <1>1 DEF UnlockedSame
<1> QED BY <1>0, <1>1, <1>2, EntryTypes DEF Positions

(* A step that leaves ledgers and keys alone, and at most takes a lock. *)
LEMMA SameEntries ==
  ASSUME Layer4, NEW w \in Workers, FreshOK',
         \A l \in Levels : /\ level'[l].ledger = level[l].ledger
                           /\ dbLevel'[l] = dbLevel[l]
                           /\ lock'[l] = lock[l] \/ lock[l] = NoWorker,
         UNCHANGED <<dbRow, rowOwner>>
  PROVE  EntriesOK'
<1>0. TypeOK /\ UnlockedSame /\ EntriesOK
  BY DEF Layer4, Layer2, LocksOK
<1>1. \A l \in Levels : Positions(l)' = Positions(l) /\ \A i : KeyAt(l, i)' = KeyAt(l, i)
  BY DEF Positions, KeyAt
<1>2. PrefixOK'
  BY <1>0 DEF EntriesOK, PrefixOK
<1>3. KeyedOK'
  <2> SUFFICES ASSUME NEW l \in Levels, NEW i \in Positions(l), KeyAt(l, i) # NoKey
               PROVE  IF i <= Len(dbLevel[l].ledger) THEN dbRow[KeyAt(l, i)] # NoRow
                      ELSE lock'[l] = rowOwner[KeyAt(l, i)]
    BY <1>1 DEF KeyedOK
  <2>1. CASE i <= Len(dbLevel[l].ledger)
    BY <1>0, <2>1 DEF EntriesOK, KeyedOK
  <2>2. CASE ~(i <= Len(dbLevel[l].ledger))
    <3>1. lock[l] # NoWorker
      BY <1>0, <2>2, EntryTypes DEF UnlockedSame, Positions
    <3> QED BY <1>0, <2>2, <3>1 DEF EntriesOK, KeyedOK
  <2> QED BY <2>1, <2>2
<1>4. DistinctOK'
  BY <1>0, <1>1 DEF EntriesOK, DistinctOK
<1> QED BY <1>2, <1>3, <1>4 DEF EntriesOK

LEMMA RollbackEntries ==
  ASSUME Layer4, NEW w \in Workers, Rollback(w)
  PROVE  EntriesOK'
<1>0. /\ TypeOK /\ UnlockedSame /\ TxType
      /\ PrefixOK /\ KeyedOK /\ DistinctOK /\ FreshOK
  BY DEF Layer4, Layer2, LocksOK, TypeOK, TxType, EntriesOK
<1>1. /\ \A l \in Levels : level'[l] = IF lock[l] = w THEN dbLevel[l] ELSE level[l]
      /\ \A l \in Levels : lock'[l] = IF lock[l] = w THEN NoWorker ELSE lock[l]
      /\ \A k \in Keys : rowOwner'[k] = IF rowOwner[k] = w THEN NoWorker ELSE rowOwner[k]
      /\ tx' = [tx EXCEPT ![w] = Idle] /\ UNCHANGED <<dbLevel, dbRow>>
  BY DEF Rollback
<1>2. \A l \in Levels : /\ Positions(l)' \subseteq Positions(l)
                        /\ \A i \in Positions(l)' : KeyAt(l, i)' = KeyAt(l, i)
  <2> SUFFICES ASSUME NEW l \in Levels
               PROVE  /\ Positions(l)' \subseteq Positions(l)
                      /\ \A i \in Positions(l)' : KeyAt(l, i)' = KeyAt(l, i)
    OBVIOUS
  <2>1. /\ Len(dbLevel[l].ledger) <= Len(level[l].ledger)
        /\ \A i \in 1..Len(dbLevel[l].ledger) : dbLevel[l].ledger[i] = level[l].ledger[i]
    BY <1>0 DEF PrefixOK
  <2>2. CASE lock[l] = w
    <3>1. level'[l] = dbLevel[l]
      BY <1>1, <2>2
    <3> QED BY <2>1, <3>1, EntryTypes DEF Positions, KeyAt
  <2>3. CASE lock[l] # w
    <3>1. level'[l] = level[l]
      BY <1>1, <2>3
    <3> QED BY <3>1 DEF Positions, KeyAt
  <2> QED BY <2>2, <2>3
<1>3. FreshOK'
  BY <1>0, <1>1, <1>2, FreshStep
<1>4. PrefixOK'
  BY <1>0, <1>1, EntryTypes DEF PrefixOK
<1>5. DistinctOK'
  BY <1>0, <1>2 DEF DistinctOK
<1>6. KeyedOK'
  <2> SUFFICES ASSUME NEW l \in Levels, NEW i \in Positions(l)', KeyAt(l, i)' # NoKey
               PROVE  IF i <= Len(dbLevel[l].ledger) THEN dbRow[KeyAt(l, i)'] # NoRow
                      ELSE lock'[l] = rowOwner'[KeyAt(l, i)']
    BY <1>1 DEF KeyedOK
  <2>1. i \in Positions(l) /\ KeyAt(l, i)' = KeyAt(l, i) /\ KeyAt(l, i) \in Keys
    BY <1>0, <1>2, EntryTypes
  <2>2. CASE i <= Len(dbLevel[l].ledger)
    BY <1>0, <2>1, <2>2 DEF KeyedOK
  <2>3. CASE ~(i <= Len(dbLevel[l].ledger))
    <3>1. lock[l] # w
      BY <1>0, <1>1, <2>3, EntryTypes DEF Positions
    <3>2. lock[l] = rowOwner[KeyAt(l, i)]
      BY <1>0, <2>1, <2>3 DEF KeyedOK
    <3> QED BY <1>1, <2>1, <2>3, <3>1, <3>2
  <2> QED BY <2>2, <2>3
<1> QED BY <1>3, <1>4, <1>5, <1>6 DEF EntriesOK

LEMMA CommitEntries ==
  ASSUME Layer4, NEW w \in Workers, Commit(w)
  PROVE  EntriesOK'
<1>0. /\ TypeOK /\ UnlockedSame /\ RowsOwned /\ TxType
      /\ PrefixOK /\ KeyedOK /\ DistinctOK /\ FreshOK
  BY DEF Layer4, Layer2, LocksOK, TypeOK, TxType, EntriesOK
<1>1. /\ \A l \in Levels : dbLevel'[l] = IF lock[l] = w THEN level[l] ELSE dbLevel[l]
      /\ \A l \in Levels : lock'[l] = IF lock[l] = w THEN NoWorker ELSE lock[l]
      /\ \A k \in Keys : dbRow'[k] = IF rowOwner[k] = w THEN row[k] ELSE dbRow[k]
      /\ \A k \in Keys : rowOwner'[k] = IF rowOwner[k] = w THEN NoWorker ELSE rowOwner[k]
      /\ tx' = [tx EXCEPT ![w] = Idle] /\ UNCHANGED <<level, row>>
  BY DEF Commit
<1>2. \A l \in Levels : Positions(l)' = Positions(l) /\ \A i : KeyAt(l, i)' = KeyAt(l, i)
  BY <1>1 DEF Positions, KeyAt
<1>3. FreshOK'
  BY <1>0, <1>1, <1>2, FreshStep
<1>4. PrefixOK'
  BY <1>0, <1>1, EntryTypes DEF PrefixOK
<1>5. DistinctOK'
  BY <1>0, <1>2 DEF DistinctOK
<1>6. \A k \in Keys : dbRow[k] # NoRow => dbRow'[k] = dbRow[k]
  BY <1>0, <1>1, SessionsAssumption DEF RowsOwned
<1>7. \A k \in Keys : rowOwner[k] = w => dbRow'[k] # NoRow
  BY <1>0, <1>1, SessionsAssumption DEF RowsOwned
<1>8. KeyedOK'
  <2> SUFFICES ASSUME NEW l \in Levels, NEW i \in Positions(l), KeyAt(l, i) # NoKey
               PROVE  IF i <= Len(dbLevel'[l].ledger) THEN dbRow'[KeyAt(l, i)] # NoRow
                      ELSE lock'[l] = rowOwner'[KeyAt(l, i)]
    BY <1>2 DEF KeyedOK
  <2>1. KeyAt(l, i) \in Keys
    BY <1>0, EntryTypes
  <2>2. CASE i <= Len(dbLevel[l].ledger)
    <3>1. dbRow'[KeyAt(l, i)] # NoRow
      BY <1>0, <1>6, <2>1, <2>2 DEF KeyedOK
    <3>2. i <= Len(dbLevel'[l].ledger)
      BY <1>0, <1>1, <2>2, EntryTypes DEF Positions
    <3> QED BY <3>1, <3>2
  <2>3. CASE ~(i <= Len(dbLevel[l].ledger))
    <3>1. lock[l] = rowOwner[KeyAt(l, i)]
      BY <1>0, <2>3 DEF KeyedOK
    <3>2. CASE lock[l] = w
      <4>1. i <= Len(dbLevel'[l].ledger)
        BY <1>0, <1>1, <3>2, EntryTypes DEF Positions
      <4> QED BY <1>7, <2>1, <3>1, <3>2, <4>1
    <3>3. CASE lock[l] # w
      BY <1>1, <2>1, <2>3, <3>1, <3>3
    <3> QED BY <3>2, <3>3
  <2> QED BY <2>2, <2>3
<1> QED BY <1>3, <1>4, <1>5, <1>8 DEF EntriesOK

LEMMA ApplyEntries ==
  ASSUME Layer4, NEW w \in Workers, ApplyLevel(w)
  PROVE  EntriesOK'
<1> DEFINE t == Call(w).lv
           n == Len(level[t].ledger)
           key == Call(w).key
<1>0. /\ TypeOK /\ CallsOK /\ TxType /\ ApplyLocked /\ OwersOwn
      /\ PrefixOK /\ KeyedOK /\ DistinctOK /\ FreshOK
  BY DEF Layer4, Layer2, LocksOK, KeysOK, TypeOK, TxType, EntriesOK
<1>1. /\ tx[w].pc = "apply" /\ GoOn(w, Call(w).qty)
      /\ level' = [level EXCEPT ![t] = Mutated(Call(w), @)]
      /\ UNCHANGED <<dbLevel, lock, row, dbRow, rowOwner>>
  BY DEF ApplyLevel
<1>2. t \in Levels /\ key \in Keys \cup {NoKey} /\ Call(w) \in Op /\ Call(w).qty \in Int
  BY <1>0, <1>1, CallTyped
<1>3. /\ level[t].ledger \in Seq(Entry) /\ n \in Nat
  BY <1>0, <1>2, EntryTypes
<1>4. PICK e : e.key = key /\ e \in Entry /\ level'[t].ledger = Append(level[t].ledger, e)
  <2> DEFINE x == [key |-> key, before |-> level[t].onHand, delta |-> Call(w).qty,
                   after |-> level[t].onHand + Call(w).qty, dmg |-> Call(w).dmg]
  <2>1. level[t].onHand \in Int /\ Call(w).dmg \in Int
    BY <1>0, <1>2 DEF TypeOK, LevelRow, Op
  <2>2. x \in Entry /\ x.key = key
    BY <1>2, <2>1 DEF Entry
  <2>3. level'[t].ledger = Append(level[t].ledger, x)
    BY <1>0, <1>1, <1>2 DEF Mutated, TypeOK
  <2> QED BY <2>2, <2>3
<1>5. /\ Len(level'[t].ledger) = n + 1 /\ level'[t].ledger[n + 1] = e
      /\ \A i \in 1..n : level'[t].ledger[i] = level[t].ledger[i]
  BY <1>3, <1>4
<1>6. \A l \in Levels \ {t} : level'[l] = level[l]
  BY <1>0, <1>1, <1>2 DEF TypeOK
<1>7. ASSUME NEW l \in Levels
      PROVE  /\ \A i \in Positions(l)' :
                  i \notin Positions(l) => l = t /\ i = n + 1 /\ KeyAt(l, i)' = key
             /\ \A i \in Positions(l) : i \in Positions(l)' /\ KeyAt(l, i)' = KeyAt(l, i)
  <2>1. CASE l # t
    BY <1>6, <2>1 DEF Positions, KeyAt
  <2>2. CASE l = t
    <3>1. Positions(l) = 1..n /\ 1..Len(level'[l].ledger) = 1..(n + 1)
      BY <1>5, <2>2 DEF Positions
    <3>2. \A i \in Positions(l)' : i = n + 1 => KeyAt(l, i)' = key
      BY <1>4, <1>5, <2>2 DEF KeyAt
    <3>3. \A i \in 1..n : KeyAt(l, i)' = KeyAt(l, i)
      BY <1>5, <2>2 DEF KeyAt
    <3> QED BY <1>3, <2>2, <3>1, <3>2, <3>3, SMTT(30) DEF Positions
  <2> QED BY <2>1, <2>2
<1>8. key # NoKey => /\ rowOwner[key] = w
                     /\ \A l \in Levels : \A i \in Positions(l) : KeyAt(l, i) # key
  BY <1>0, <1>1, <1>2 DEF OwersOwn, Owes, FreshOK
<1>9. PrefixOK'
  <2> SUFFICES ASSUME NEW l \in Levels
               PROVE  /\ Len(dbLevel[l].ledger) <= Len(level'[l].ledger)
                      /\ \A i \in 1..Len(dbLevel[l].ledger) :
                           dbLevel[l].ledger[i] = level'[l].ledger[i]
    BY <1>1 DEF PrefixOK
  <2>1. CASE l = t
    <3>1. Len(dbLevel[t].ledger) <= n /\ Len(dbLevel[t].ledger) \in Nat
      BY <1>0, <1>2, EntryTypes DEF PrefixOK
    <3>2. \A i \in 1..Len(dbLevel[t].ledger) :
            i \in 1..n /\ dbLevel[t].ledger[i] = level[t].ledger[i]
      BY <1>0, <1>2, <1>3, <3>1 DEF PrefixOK
    <3>3. \A i \in 1..Len(dbLevel[t].ledger) : dbLevel[t].ledger[i] = level'[t].ledger[i]
      BY <1>5, <3>2
    <3>4. Len(dbLevel[t].ledger) <= Len(level'[t].ledger)
      BY <1>3, <1>5, <3>1
    <3> QED BY <2>1, <3>3, <3>4
  <2>2. CASE l # t
    BY <1>0, <1>6, <2>2 DEF PrefixOK
  <2> QED BY <2>1, <2>2
<1>10. KeyedOK'
  <2> SUFFICES ASSUME NEW l \in Levels, NEW i \in Positions(l)', KeyAt(l, i)' # NoKey
               PROVE  IF i <= Len(dbLevel[l].ledger) THEN dbRow[KeyAt(l, i)'] # NoRow
                      ELSE lock[l] = rowOwner[KeyAt(l, i)']
    BY <1>1 DEF KeyedOK
  <2>1. CASE i \in Positions(l)
    BY <1>0, <1>7, <2>1 DEF KeyedOK
  <2>2. CASE i \notin Positions(l)
    <3>1. l = t /\ i = n + 1 /\ KeyAt(l, i)' = key
      BY <1>7, <2>2
    <3>2. ~(i <= Len(dbLevel[l].ledger))
      BY <1>0, <1>2, <1>3, <3>1, EntryTypes DEF PrefixOK
    <3>3. lock[t] = w
      BY <1>0, <1>1 DEF ApplyLocked
    <3> QED BY <1>8, <3>1, <3>2, <3>3
  <2> QED BY <2>1, <2>2
<1>11. DistinctOK'
  <2> SUFFICES ASSUME NEW l \in Levels, NEW m \in Levels,
                      NEW i \in Positions(l)', NEW j \in Positions(m)',
                      KeyAt(l, i)' # NoKey, KeyAt(l, i)' = KeyAt(m, j)'
               PROVE  l = m /\ i = j
    BY DEF DistinctOK
  <2>1. CASE i \in Positions(l) /\ j \in Positions(m)
    BY <1>0, <1>7, <2>1 DEF DistinctOK
  <2>2. CASE i \notin Positions(l) /\ j \notin Positions(m)
    BY <1>7, <2>2
  <2>3. CASE i \notin Positions(l) /\ j \in Positions(m)
    BY <1>7, <1>8, <2>3
  <2>4. CASE i \in Positions(l) /\ j \notin Positions(m)
    BY <1>7, <1>8, <2>4
  <2> QED BY <2>1, <2>2, <2>3, <2>4
<1>12. FreshOK'
  <2>1. Parts(w) \o Res(w, Call(w).qty) \o Tail(tx[w].todo) \in Seq(Op)
    BY <1>0, <1>1, <1>2, MutationTodo
  <2>2. /\ tx'[w].pc \in {"lock", "apply"} => Head(tx'[w].todo).key = NoKey
        /\ \A v \in Workers \ {w} : tx'[v] = tx[v]
    <3> DEFINE rest == Parts(w) \o Res(w, Call(w).qty) \o Tail(tx[w].todo)
    <3>1. tx' = [tx EXCEPT ![w] = Run(rest)]
      BY <1>1 DEF GoOn
    <3>2. tx'[w] = Run(rest) /\ \A v \in Workers \ {w} : tx'[v] = tx[v]
      BY <1>0, <3>1 DEF TxType
    <3> HIDE DEF rest
    <3>3. /\ Run(rest).todo = rest /\ Run(rest).pc # "apply"
          /\ Run(rest).pc = "lock" => Head(rest).key = NoKey
      BY <2>1, RunFine DEF rest
    <3> QED BY <3>2, <3>3
  <2> SUFFICES ASSUME NEW v \in Workers, tx'[v].pc \in {"lock", "apply"},
                      Head(tx'[v].todo).key # NoKey,
                      NEW l \in Levels, NEW i \in Positions(l)'
               PROVE  KeyAt(l, i)' # Head(tx'[v].todo).key
    BY DEF FreshOK, Call
  <2>3. v # w /\ tx'[v] = tx[v]
    BY <2>2
  <2>4. Call(v).key \in Keys /\ Head(tx'[v].todo) = Call(v) /\ tx[v].pc \in {"lock", "apply"}
    BY <1>0, <2>3, CallTyped DEF Call
  <2>5. rowOwner[Call(v).key] = v
    BY <1>0, <2>4 DEF OwersOwn, Owes
  <2>6. CASE i \in Positions(l)
    BY <1>0, <1>7, <2>4, <2>6 DEF FreshOK
  <2>7. CASE i \notin Positions(l)
    BY <1>7, <1>8, <2>3, <2>4, <2>5, <2>7
  <2> QED BY <2>6, <2>7
<1> QED BY <1>9, <1>10, <1>11, <1>12 DEF EntriesOK

LEMMA ReplayEntries ==
  ASSUME Layer4, NEW w \in Workers, tx[w].pc \in {"find", "insert"}, NEW r, Replay(w, r)
  PROVE  EntriesOK'
<1>0. TypeOK /\ CallsOK /\ TxType /\ FreshOK
  BY DEF Layer4, Layer2, TypeOK, TxType, EntriesOK
<1>1. CASE r.st = "done"
  <2>1. Return(w) /\ UNCHANGED <<level, dbLevel, lock, row, dbRow, rowOwner>>
    BY <1>1 DEF Replay
  <2>2. Tail(tx[w].todo) \in Seq(Op)
    BY <1>0, CallTyped
  <2>3. FreshOK'
    BY <1>0, <2>1, <2>2, FreshStep DEF Return, Positions, KeyAt
  <2> QED BY <2>1, <2>3, SameEntries
<1>2. CASE r.st # "done"
  BY <1>2, RollbackEntries DEF Replay
<1> QED BY <1>1, <1>2

LEMMA Entries == Layer4 /\ [Next]_vars => EntriesOK'
<1> SUFFICES ASSUME Layer4, [Next]_vars PROVE EntriesOK'
  OBVIOUS
<1>0. /\ TypeOK /\ CallsOK /\ TxType /\ Layer2 /\ LocksOK /\ EntriesOK
      /\ PrefixOK /\ KeyedOK /\ DistinctOK /\ FreshOK
  BY DEF Layer4, Layer2, TypeOK, TxType, EntriesOK
<1>1. ASSUME NEW w \in Workers, Begin(w) PROVE EntriesOK'
  <2>1. PICK r \in Requests : tx' = [tx EXCEPT ![w] = Run(r)]
    BY <1>1 DEF Begin
  <2>2. r \in Seq(Op) /\ UNCHANGED <<level, dbLevel, lock, row, dbRow, rowOwner>>
    BY <1>1, RequestFine DEF Begin
  <2>3. FreshOK'
    BY <1>0, <2>1, <2>2, FreshStep DEF Positions, KeyAt
  <2> QED BY <2>2, <2>3, SameEntries
<1>2. ASSUME NEW w \in Workers, FindKey(w) PROVE EntriesOK'
  <2>1. CASE tx' = [tx EXCEPT ![w].pc = "insert"]
             /\ UNCHANGED <<level, dbLevel, lock, row, dbRow, rowOwner, begun>>
    <3>1. FreshOK'
      BY <1>0, <2>1, FreshStep DEF Positions, KeyAt
    <3> QED BY <2>1, <3>1, SameEntries
  <2>2. CASE Replay(w, VisibleRow(w, Call(w).key))
    BY <1>2, <2>2, ReplayEntries DEF FindKey
  <2> QED BY <1>2, <2>1, <2>2 DEF FindKey
<1>3. ASSUME NEW w \in Workers, InsertKey(w) PROVE EntriesOK'
  <2> DEFINE key == Call(w).key
  <2>0. key \in Keys /\ tx[w].pc = "insert" /\ rowOwner[key] \in {NoWorker, w}
    BY <1>0, <1>3, CallTyped DEF InsertKey, CallsOK, CanInsert
  <2>1. CASE /\ row[key].st = "none"
             /\ row' = [row EXCEPT ![key] = PendingRow]
             /\ rowOwner' = [rowOwner EXCEPT ![key] = w]
             /\ tx' = [tx EXCEPT ![w].pc = "lock"]
             /\ UNCHANGED <<level, dbLevel, lock, dbRow, begun>>
    <3>1. row[key] = NoRow
      BY <1>0, <2>0, <2>1, KeyRowFacts DEF TypeOK
    <3>2. rowOwner[key] = NoWorker /\ dbRow[key] = NoRow
      BY <1>0, <2>0, <3>1 DEF LocksOK, RowsOwned
    <3>3. \A l \in Levels : \A i \in Positions(l) : KeyAt(l, i) # key
      BY <2>0, <3>2, UnusedKey
    <3>4. PrefixOK' /\ DistinctOK'
      BY <1>0, <2>1 DEF PrefixOK, DistinctOK, Positions, KeyAt
    <3>5. KeyedOK'
      BY <1>0, <2>0, <2>1, <3>3 DEF KeyedOK, Positions, KeyAt, TypeOK
    <3>6. /\ Call(w)' = Call(w)
          /\ \A v \in Workers \ {w} : tx'[v] = tx[v] /\ Call(v)' = Call(v)
      BY <1>0, <2>1 DEF Call, TxType
    <3>7. FreshOK'
      BY <1>0, <2>1, <3>3, <3>6 DEF FreshOK, Positions, KeyAt
    <3> QED BY <3>4, <3>5, <3>7 DEF EntriesOK
  <2>2. CASE Replay(w, row[key])
    BY <2>0, <2>2, ReplayEntries
  <2> QED BY <1>3, <2>1, <2>2 DEF InsertKey
<1>4. ASSUME NEW w \in Workers, LockLevel(w) PROVE EntriesOK'
  <2>0. Call(w).lv \in Levels /\ tx[w].pc = "lock" /\ lock[Call(w).lv] \in {NoWorker, w}
    BY <1>0, <1>4, CallTyped DEF LockLevel, CanLock
  <2>1. /\ lock' = [lock EXCEPT ![Call(w).lv] = w]
        /\ tx' = [tx EXCEPT ![w].pc = "apply"]
        /\ UNCHANGED <<level, dbLevel, row, dbRow, rowOwner>>
    BY <1>4 DEF LockLevel
  <2>2. \A v \in Workers : /\ Call(v)' = Call(v)
                           /\ tx'[v].pc \in {"lock", "apply"} => tx[v].pc \in {"lock", "apply"}
    BY <1>0, <2>0, <2>1 DEF Call, TxType
  <2>3. FreshOK'
    BY <1>0, <2>1, <2>2 DEF FreshOK, Positions, KeyAt
  <2>4. \A l \in Levels : lock'[l] = lock[l] \/ lock[l] = NoWorker
    BY <1>0, <2>0, <2>1 DEF TypeOK
  <2> QED BY <2>1, <2>3, <2>4, SameEntries
<1>5. ASSUME NEW w \in Workers, ApplyRecipe(w) PROVE EntriesOK'
  <2>1. Parts(w) \o Res(w, 0) \o Tail(tx[w].todo) \in Seq(Op)
    <3>1. 0 \in Int
      OBVIOUS
    <3> QED BY <1>0, <1>5, <3>1, MutationTodo DEF ApplyRecipe
  <2>2. /\ tx' = [tx EXCEPT ![w] = Run(Parts(w) \o Res(w, 0) \o Tail(tx[w].todo))]
        /\ UNCHANGED <<level, dbLevel, lock, row, dbRow, rowOwner>>
    BY <1>5 DEF ApplyRecipe, GoOn
  <2>3. FreshOK'
    BY <1>0, <2>1, <2>2, FreshStep DEF Positions, KeyAt
  <2> QED BY <2>2, <2>3, SameEntries
<1>6. ASSUME NEW w \in Workers, SaveResult(w) PROVE EntriesOK'
  <2>1. Return(w) /\ UNCHANGED <<level, dbLevel, lock, dbRow, rowOwner>>
    BY <1>6 DEF SaveResult
  <2>2. Tail(tx[w].todo) \in Seq(Op)
    BY <1>0, <1>6, CallTyped DEF SaveResult
  <2>3. FreshOK'
    BY <1>0, <2>1, <2>2, FreshStep DEF Return, Positions, KeyAt
  <2> QED BY <2>1, <2>3, SameEntries
<1>7. ASSUME NEW w \in Workers, AdjustReserved(w) PROVE EntriesOK'
  <2>0. /\ Call(w) \in Op /\ Call(w).lv \in Levels /\ Tail(tx[w].todo) \in Seq(Op)
        /\ lock[Call(w).lv] \in {NoWorker, w}
    BY <1>0, <1>7, CallTyped DEF AdjustReserved, CanLock
  <2>1. CASE ReserveAllowed(Call(w), level[Call(w).lv])
    <3>1. /\ level' = [level EXCEPT ![Call(w).lv] = Reserved(Call(w), @)]
          /\ lock' = [lock EXCEPT ![Call(w).lv] = w]
          /\ Return(w)
          /\ UNCHANGED <<dbLevel, row, dbRow, rowOwner>>
      BY <1>7, <2>1 DEF AdjustReserved
    <3>2. Reserved(Call(w), level[Call(w).lv]).ledger = level[Call(w).lv].ledger
      BY <1>0, <2>0, ReservedType DEF TypeOK
    <3>3. \A l \in Levels : level'[l].ledger = level[l].ledger
      BY <1>0, <2>0, <3>1, <3>2 DEF TypeOK
    <3>4. FreshOK'
      BY <1>0, <2>0, <3>1, <3>3, FreshStep DEF Return, Positions, KeyAt
    <3>6. \A l \in Levels : lock'[l] = lock[l] \/ lock[l] = NoWorker
      BY <1>0, <2>0, <3>1 DEF TypeOK
    <3> QED BY <3>1, <3>3, <3>4, <3>6, SameEntries
  <2>2. CASE ~ReserveAllowed(Call(w), level[Call(w).lv])
    BY <1>7, <2>2, RollbackEntries DEF AdjustReserved
  <2> QED BY <2>1, <2>2
<1>8. ASSUME NEW w \in Workers, RejectMutation(w) \/ DeadlockVictim(w) \/ Fail(w)
      PROVE  EntriesOK'
  BY <1>8, RollbackEntries DEF RejectMutation, DeadlockVictim, Fail
<1>9. CASE UNCHANGED vars
  BY <1>0, <1>9 DEF vars, EntriesOK, PrefixOK, KeyedOK, DistinctOK, FreshOK,
                    Positions, KeyAt, Call
<1> QED BY <1>1, <1>2, <1>3, <1>4, <1>5, <1>6, <1>7, <1>8, <1>9,
           ApplyEntries, CommitEntries DEF Next, Step

-----------------------------------------------------------------------------
(* The invariant is inductive. *)

LEMMA InitInv == Init => IInv
<1> SUFFICES ASSUME Init PROVE IInv
  OBVIOUS
<1>1. \A l \in Levels : /\ OpeningRow(l) \in LevelRow
                        /\ OpeningRow(l).onHand = Opening[l]
                        /\ OpeningRow(l).reserved = 0
                        /\ OpeningRow(l).ledger = <<>>
                        /\ Opening[l] \in Nat
  BY ConstantsAssumption DEF OpeningRow, LevelRow
<1>2. /\ level = [l \in Levels |-> OpeningRow(l)] /\ dbLevel = level
      /\ lock = [l \in Levels |-> NoWorker] /\ rowOwner = [k \in Keys |-> NoWorker]
      /\ row = [k \in Keys |-> NoRow] /\ dbRow = row
      /\ tx = [w \in Workers |-> Idle] /\ begun = 0
  BY DEF Init
<1>3. TypeOK
  <2>1. Idle \in [pc: Pc, todo: Seq(Op)] /\ NoRow \in KeyRow /\ 0 \in 0..MaxBegun
    BY SessionsAssumption, KeyRowFacts DEF Idle, Pc
  <2> QED BY <1>1, <1>2, <2>1 DEF TypeOK
<1>4. CallsOK
  BY <1>2, OpsShort DEF CallsOK, Idle
<1>5. LocksOK
  BY <1>2 DEF LocksOK, UnlockedSame, ApplyLocked, RowsOwned, Idle
<1>6. KeysOK
  BY <1>2, OpsShort, KeyRowFacts DEF KeysOK, PendingOwed, OwersOwn, Owes, Idle
<1>7. StockOK
  <2>1. \A l \in Levels : Sound(l, OpeningRow(l))
    <3> SUFFICES ASSUME NEW l \in Levels PROVE Sound(l, OpeningRow(l))
      OBVIOUS
    <3>1. Len(OpeningRow(l).ledger) = 0 /\ 1..0 = {}
      BY <1>1
    <3> QED BY <1>1, <3>1 DEF Sound, Chained
  <2> QED BY <1>2, <2>1 DEF StockOK
<1>8. EntriesOK
  BY <1>1, <1>2 DEF EntriesOK, PrefixOK, KeyedOK, DistinctOK, FreshOK, Positions, Idle
<1> QED BY <1>3, <1>4, <1>5, <1>6, <1>7, <1>8 DEF IInv

LEMMA NextInv == IInv /\ [Next]_vars => IInv'
<1> SUFFICES ASSUME IInv, [Next]_vars PROVE IInv'
  OBVIOUS
<1>1. TypeOK /\ CallsOK /\ StockOK /\ Layer2 /\ Layer4
  BY DEF IInv, Layer2, Layer4
<1> QED BY <1>1, Control, Locks, Quantities, Entries DEF IInv

THEOREM Invariance == Spec => []IInv
BY InitInv, NextInv, PTL DEF Spec

(* Every reachable state is well typed. *)
THEOREM TypeCorrect == Spec => []TypeOK
<1>1. IInv => TypeOK
  BY DEF IInv
<1> QED BY <1>1, Invariance, PTL

(* No update of a quantity is ever lost: whatever sessions interleave, the  *)
(* committed ledger of every level is an unbroken chain from the opening    *)
(* quantity to the quantity on hand.                                        *)
THEOREM LedgerAlwaysChained == Spec => []LedgerChain
<1>1. IInv => LedgerChain
  BY DEF IInv, StockOK, Sound, LedgerChain
<1> QED BY <1>1, Invariance, PTL

(* Stock that no caller forces with allowNegative is never oversold, nor    *)
(* sold from under a reservation.                                           *)
THEOREM NeverOversold == Spec => []NoOversell
<1>1. IInv => NoOversell
  BY DEF IInv, StockOK, Sound, NoOversell
<1> QED BY <1>1, Invariance, PTL

(* However often a keyed call is retried, replayed or raced, it leaves one  *)
(* committed ledger entry at most.                                          *)
THEOREM KeyedCallsOnce == Spec => []ExactlyOnce
<1>1. ASSUME IInv PROVE ExactlyOnce
  <2> SUFFICES ASSUME NEW l \in Levels, NEW m \in Levels,
                      NEW i \in 1..Len(dbLevel[l].ledger),
                      NEW j \in 1..Len(dbLevel[m].ledger),
                      dbLevel[l].ledger[i].key # NoKey,
                      dbLevel[l].ledger[i].key = dbLevel[m].ledger[j].key
               PROVE  l = m /\ i = j
    BY DEF ExactlyOnce
  <2>1. TypeOK /\ PrefixOK /\ DistinctOK
    BY <1>1 DEF IInv, EntriesOK
  <2>2. i \in Positions(l) /\ j \in Positions(m)
    BY <2>1, EntryTypes DEF PrefixOK, Positions
  <2>3. KeyAt(l, i) = dbLevel[l].ledger[i].key /\ KeyAt(m, j) = dbLevel[m].ledger[j].key
    BY <2>1 DEF PrefixOK, KeyAt
  <2> QED BY <2>1, <2>2, <2>3 DEF DistinctOK
<1> QED BY <1>1, Invariance, PTL

(* The "duplicate in-flight" refusal cannot outlive the request in flight:  *)
(* the pending state of a key is never committed.                           *)
THEOREM PendingNeverCommitted == Spec => []NoPendingCommitted
<1>1. IInv => NoPendingCommitted
  BY KeyRowFacts DEF IInv, KeysOK, NoPendingCommitted, TypeOK
<1> QED BY <1>1, Invariance, PTL

(* Commits only append to ledgers, and never rewrite a recorded answer.     *)
THEOREM HistoryIsKept == Spec => HistoryKept
<1>1. ASSUME IInv, [Next]_vars PROVE [HistoryStep]_vars
  <2>0. TypeOK /\ PrefixOK /\ RowsOwned
    BY <1>1 DEF IInv, LocksOK, EntriesOK
  <2>1. CASE UNCHANGED <<dbLevel, dbRow>>
    BY <2>0, <2>1, EntryTypes DEF HistoryStep
  <2>2. ASSUME NEW w \in Workers, Commit(w) PROVE HistoryStep
    <3>1. /\ \A l \in Levels : dbLevel'[l] = IF lock[l] = w THEN level[l] ELSE dbLevel[l]
          /\ \A k \in Keys : dbRow'[k] = IF rowOwner[k] = w THEN row[k] ELSE dbRow[k]
      BY <2>2 DEF Commit
    <3>2. \A k \in Keys : dbRow[k].st # "none" => dbRow'[k] = dbRow[k]
      BY <2>0, <3>1, SessionsAssumption, KeyRowFacts DEF RowsOwned, TypeOK
    <3>3. \A l \in Levels :
            /\ Len(dbLevel[l].ledger) <= Len(dbLevel'[l].ledger)
            /\ \A i \in 1..Len(dbLevel[l].ledger) :
                 dbLevel'[l].ledger[i] = dbLevel[l].ledger[i]
      BY <2>0, <3>1, EntryTypes DEF PrefixOK
    <3> QED BY <3>2, <3>3 DEF HistoryStep
  <2>3. UNCHANGED <<dbLevel, dbRow>> \/ \E w \in Workers : Commit(w)
    BY <1>1, ZenonT(60) DEF Next, Step, vars, Begin, FindKey, InsertKey, LockLevel, ApplyRecipe,
                ApplyLevel, RejectMutation, SaveResult, AdjustReserved,
                DeadlockVictim, Fail, Replay, Rollback
  <2> QED BY <2>1, <2>2, <2>3
<1> QED BY <1>1, Invariance, PTL DEF Spec, HistoryKept

-----------------------------------------------------------------------------
(* RecordedResult: what the idempotency row of a key answers is the movement *)
(* the ledgers hold under that key.                                          *)
(*                                                                           *)
(* The answer is fixed when the ledger row is written and recorded some      *)
(* statements later, after the components of the call have moved.  In        *)
(* between it is a promise: a "result" call still to be made.  AnswersOK     *)
(* relates ledgers, rows and promises; it is kept on top of IInv.            *)

(* The movement a ledger row records, in the form of an answer. *)
AnswerOf(l, e) == [lv |-> l, before |-> e.before, delta |-> e.delta]

(* The movements under a key in the ledgers of a version of the levels. *)
MovesIn(rows, k) ==
  UNION {{AnswerOf(l, rows[l].ledger[i]) :
            i \in {j \in 1..Len(rows[l].ledger) : rows[l].ledger[j].key = k}} : l \in Levels}
Moves(k) == MovesIn(level, k)

(* The answer that a session still has to record. *)
Promise(op) == [lv |-> op.lv, before |-> op.before, delta |-> op.qty]
Promises(todo) == {op \in Ops(todo) : op.kind = "result"}

(* A movement under a key is the answer of its row, once there is one ... *)
MovesAnswered ==
  \A k \in Keys : \A r \in Moves(k) : row[k] \in {PendingRow, DoneRow(r)}

(* ... and an answer that claims a movement has it. *)
AnswersMoved ==
  \A k \in Keys : \A r \in Result :
    row[k] = DoneRow(r) /\ r.delta # 0 => Moves(k) # {}

(* A promise tells what was moved, if anything was, and nothing else is     *)
(* recorded or promised under its key.                                      *)
PromisesTrue ==
  \A w \in Workers : \A op \in Promises(tx[w].todo) :
    /\ Moves(op.key) \subseteq {Promise(op)}
    /\ op.qty # 0 => Moves(op.key) # {}
    /\ row[op.key] \in {PendingRow, DoneRow(Promise(op))}
    /\ \A o \in Promises(tx[w].todo) : o.key = op.key => Promise(o) = Promise(op)

(* Before a call with a key has moved anything, nothing is promised. *)
NothingPromised ==
  \A w \in Workers :
    tx[w].pc \in {"lock", "apply"} /\ Call(w).key # NoKey =>
      /\ row[Call(w).key] = PendingRow
      /\ \A op \in Promises(tx[w].todo) : op.key # Call(w).key

AnswersOK == MovesAnswered /\ AnswersMoved /\ PromisesTrue /\ NothingPromised

Layer5 == Layer4 /\ AnswersOK

-----------------------------------------------------------------------------
(* Movements and promises. *)

LEMMA MoveIn ==
  ASSUME NEW rows, NEW k, NEW r
  PROVE  r \in MovesIn(rows, k) <=>
           \E l \in Levels : \E i \in 1..Len(rows[l].ledger) :
             rows[l].ledger[i].key = k /\ r = AnswerOf(l, rows[l].ledger[i])
BY DEF MovesIn

LEMMA SameMoves ==
  ASSUME NEW rows, NEW others, NEW k,
         \A l \in Levels : others[l].ledger = rows[l].ledger
  PROVE  MovesIn(others, k) = MovesIn(rows, k)
<1>1. ASSUME NEW r PROVE r \in MovesIn(others, k) <=> r \in MovesIn(rows, k)
  BY MoveIn
<1> QED BY <1>1

LEMMA MoveTyped ==
  ASSUME TypeOK, NEW k, NEW r \in Moves(k)
  PROVE  r \in Result
<1>1. PICK l \in Levels : \E i \in Positions(l) : r = AnswerOf(l, level[l].ledger[i])
  BY MoveIn DEF Moves, Positions
<1>2. PICK i \in Positions(l) : r = AnswerOf(l, level[l].ledger[i])
  BY <1>1
<1>3. level[l].ledger \in Seq(Entry)
  BY EntryTypes
<1>4. level[l].ledger[i] \in Entry
  BY <1>3 DEF Positions
<1> QED BY <1>2, <1>4 DEF AnswerOf, Result, Entry

LEMMA PromiseTyped ==
  ASSUME TypeOK, CallsOK, NEW w \in Workers, NEW op \in Promises(tx[w].todo)
  PROVE  /\ op.key \in Keys /\ Promise(op) \in Result
         /\ op.kind = "result" /\ op \in Ops(tx[w].todo) /\ Owes(w, op.key)
<1>1. op \in Ops(tx[w].todo) /\ op.kind = "result"
  BY DEF Promises
<1>2. tx[w].todo \in Seq(Op) /\ OpFine(op)
  BY <1>1 DEF TypeOK, CallsOK
<1>3. op \in Op
  BY <1>1, <1>2 DEF Ops
<1>4. op.key \in Keys /\ Promise(op) \in Result
  BY <1>1, <1>2, <1>3 DEF Op, OpFine, Promise, Result
<1>5. Owes(w, op.key)
  BY <1>1 DEF Owes
<1> QED BY <1>1, <1>4, <1>5

LEMMA DoneRowInjective ==
  ASSUME NEW r, NEW s, DoneRow(r) = DoneRow(s)
  PROVE  r = s
BY DEF DoneRow

(* The movements under a key that no open transaction owns are committed,   *)
(* and none is if the key has no row.                                       *)
LEMMA CommittedMoves ==
  ASSUME Layer4, NEW k \in Keys
  PROVE  /\ dbRow[k] = NoRow => MovesIn(dbLevel, k) = {}
         /\ rowOwner[k] = NoWorker => MovesIn(dbLevel, k) = Moves(k)
<1>0. TypeOK /\ UnlockedSame /\ PrefixOK /\ KeyedOK /\ k # NoKey
  BY ConstantsAssumption DEF Layer4, Layer2, LocksOK, EntriesOK
<1>1. \A l \in Levels : \A i \in 1..Len(dbLevel[l].ledger) :
        i \in Positions(l) /\ dbLevel[l].ledger[i] = level[l].ledger[i]
  BY <1>0, EntryTypes DEF PrefixOK, Positions
<1>2. ASSUME dbRow[k] = NoRow, NEW r \in MovesIn(dbLevel, k) PROVE FALSE
  <2>1a. PICK l \in Levels : \E i \in 1..Len(dbLevel[l].ledger) :
          dbLevel[l].ledger[i].key = k
    BY <1>2, MoveIn
  <2>1. PICK i \in 1..Len(dbLevel[l].ledger) :
          dbLevel[l].ledger[i].key = k
    BY <2>1a
  <2>2. i \in Positions(l) /\ KeyAt(l, i) = k
    BY <1>1, <2>1 DEF KeyAt
  <2>3. i <= Len(dbLevel[l].ledger)
    BY <1>0, EntryTypes
  <2> QED BY <1>0, <1>2, <2>2, <2>3 DEF KeyedOK
<1>3. ASSUME rowOwner[k] = NoWorker, NEW r
      PROVE  r \in MovesIn(dbLevel, k) <=> r \in Moves(k)
  <2>1. ASSUME NEW l \in Levels, NEW i \in Positions(l), KeyAt(l, i) = k
        PROVE  i \in 1..Len(dbLevel[l].ledger)
    <3>1. CASE i <= Len(dbLevel[l].ledger)
      BY <1>0, <3>1, EntryTypes DEF Positions
    <3>2. CASE ~(i <= Len(dbLevel[l].ledger))
      <4>1. lock[l] = NoWorker
        BY <1>0, <1>3, <2>1, <3>2 DEF KeyedOK
      <4>2. level[l] = dbLevel[l]
        BY <1>0, <4>1 DEF UnlockedSame
      <4> QED BY <4>2 DEF Positions
    <3> QED BY <3>1, <3>2
  <2>2. ASSUME r \in MovesIn(dbLevel, k) PROVE r \in Moves(k)
    <3>1a. PICK l \in Levels : \E i \in 1..Len(dbLevel[l].ledger) :
            dbLevel[l].ledger[i].key = k /\ r = AnswerOf(l, dbLevel[l].ledger[i])
      BY <2>2, MoveIn
    <3>1. PICK i \in 1..Len(dbLevel[l].ledger) :
            dbLevel[l].ledger[i].key = k /\ r = AnswerOf(l, dbLevel[l].ledger[i])
      BY <3>1a
    <3>2. i \in 1..Len(level[l].ledger) /\ level[l].ledger[i] = dbLevel[l].ledger[i]
      BY <1>1 DEF Positions
    <3> QED BY <3>1, <3>2, MoveIn DEF Moves
  <2>3. ASSUME r \in Moves(k) PROVE r \in MovesIn(dbLevel, k)
    <3>1a. PICK l \in Levels : \E i \in 1..Len(level[l].ledger) :
            level[l].ledger[i].key = k /\ r = AnswerOf(l, level[l].ledger[i])
      BY <2>3, MoveIn DEF Moves
    <3>1. PICK i \in 1..Len(level[l].ledger) :
            level[l].ledger[i].key = k /\ r = AnswerOf(l, level[l].ledger[i])
      BY <3>1a
    <3>2. i \in 1..Len(dbLevel[l].ledger)
      BY <2>1, <3>1 DEF Positions, KeyAt
    <3>3. dbLevel[l].ledger[i] = level[l].ledger[i]
      BY <1>1, <3>2
    <3> QED BY <3>1, <3>2, <3>3, MoveIn
  <2> QED BY <2>2, <2>3
<1> QED BY <1>2, <1>3

(* A rollback removes the movements under the keys of its session only. *)
LEMMA RollbackMoves ==
  ASSUME Layer4, NEW w \in Workers, Rollback(w), NEW k \in Keys
  PROVE  /\ rowOwner[k] = w => Moves(k)' = {} /\ row'[k] = NoRow
         /\ rowOwner[k] # w => Moves(k)' = Moves(k) /\ row'[k] = row[k]
<1>0. TypeOK /\ RowsOwned /\ PrefixOK /\ KeyedOK /\ k # NoKey /\ w # NoWorker
  BY ConstantsAssumption, SessionsAssumption DEF Layer4, Layer2, LocksOK, EntriesOK
<1>1. /\ \A l \in Levels : level'[l] = IF lock[l] = w THEN dbLevel[l] ELSE level[l]
      /\ row'[k] = IF rowOwner[k] = w THEN dbRow[k] ELSE row[k]
  BY DEF Rollback
<1>2. \A l \in Levels : \A i \in 1..Len(level'[l].ledger) :
        i \in Positions(l) /\ level'[l].ledger[i] = level[l].ledger[i]
  <2> SUFFICES ASSUME NEW l \in Levels, NEW i \in 1..Len(level'[l].ledger)
               PROVE  i \in Positions(l) /\ level'[l].ledger[i] = level[l].ledger[i]
    OBVIOUS
  <2>1. CASE lock[l] = w
    <3>1. level'[l] = dbLevel[l]
      BY <1>1, <2>1
    <3>2. /\ Len(dbLevel[l].ledger) \in Nat /\ Len(level[l].ledger) \in Nat
          /\ Len(dbLevel[l].ledger) <= Len(level[l].ledger)
      BY <1>0, EntryTypes DEF PrefixOK
    <3>3. i \in 1..Len(dbLevel[l].ledger) /\ dbLevel[l].ledger[i] = level[l].ledger[i]
      BY <1>0, <3>1 DEF PrefixOK
    <3> QED BY <3>1, <3>2, <3>3 DEF Positions
  <2>2. CASE lock[l] # w
    BY <1>1, <2>2 DEF Positions
  <2> QED BY <2>1, <2>2
<1>3. ASSUME NEW l \in Levels, NEW i \in Positions(l), KeyAt(l, i) = k
      PROVE  i \in 1..Len(level'[l].ledger) <=> rowOwner[k] # w
  <2>1. CASE i <= Len(dbLevel[l].ledger)
    <3>1. dbRow[k] # NoRow
      BY <1>0, <1>3, <2>1 DEF KeyedOK
    <3>2. rowOwner[k] # w
      BY <1>0, <3>1 DEF RowsOwned
    <3>3. i \in 1..Len(dbLevel[l].ledger) /\ i \in 1..Len(level[l].ledger)
      BY <1>0, <2>1, EntryTypes DEF Positions
    <3> QED BY <1>1, <3>2, <3>3
  <2>2. CASE ~(i <= Len(dbLevel[l].ledger))
    <3>1. lock[l] = rowOwner[k]
      BY <1>0, <1>3, <2>2 DEF KeyedOK
    <3>2. i \notin 1..Len(dbLevel[l].ledger) /\ i \in 1..Len(level[l].ledger)
      BY <1>0, <2>2, EntryTypes DEF Positions
    <3> QED BY <1>1, <3>1, <3>2
  <2> QED BY <2>1, <2>2
<1>4. ASSUME NEW r
      PROVE  r \in Moves(k)' <=> rowOwner[k] # w /\ r \in Moves(k)
  <2>0. r \in Moves(k)' <=>
          \E l \in Levels : \E i \in 1..Len(level'[l].ledger) :
            level'[l].ledger[i].key = k /\ r = AnswerOf(l, level'[l].ledger[i])
    BY MoveIn DEF Moves
  <2>1. ASSUME r \in Moves(k)' PROVE rowOwner[k] # w /\ r \in Moves(k)
    <3>1a. PICK l \in Levels : \E i \in 1..Len(level'[l].ledger) :
            level'[l].ledger[i].key = k /\ r = AnswerOf(l, level'[l].ledger[i])
      BY <2>0, <2>1
    <3>1. PICK i \in 1..Len(level'[l].ledger) :
            level'[l].ledger[i].key = k /\ r = AnswerOf(l, level'[l].ledger[i])
      BY <3>1a
    <3>2. /\ i \in Positions(l) /\ level[l].ledger[i].key = k
          /\ r = AnswerOf(l, level[l].ledger[i])
      BY <1>2, <3>1
    <3>3. rowOwner[k] # w
      BY <1>3, <3>1, <3>2 DEF KeyAt
    <3> QED BY <3>2, <3>3, MoveIn DEF Moves, Positions
  <2>2. ASSUME rowOwner[k] # w, r \in Moves(k) PROVE r \in Moves(k)'
    <3>1a. PICK l \in Levels : \E i \in Positions(l) :
            level[l].ledger[i].key = k /\ r = AnswerOf(l, level[l].ledger[i])
      BY <2>2, MoveIn DEF Moves, Positions
    <3>1. PICK i \in Positions(l) :
            level[l].ledger[i].key = k /\ r = AnswerOf(l, level[l].ledger[i])
      BY <3>1a
    <3>2. i \in 1..Len(level'[l].ledger)
      BY <1>3, <2>2, <3>1 DEF KeyAt
    <3> QED BY <1>2, <2>0, <3>1, <3>2
  <2> QED BY <2>1, <2>2
<1>5. rowOwner[k] = w => row'[k] = NoRow
  BY <1>0, <1>1 DEF RowsOwned
<1> QED BY <1>1, <1>4, <1>5

-----------------------------------------------------------------------------
(* The steps. *)

(* A step that records nothing, and promises nothing new. *)
LEMMA SameAnswers ==
  ASSUME TypeOK, CallsOK, AnswersOK, NEW w \in Workers,
         \A v \in Workers \ {w} : tx'[v] = tx[v],
         Promises(tx'[w].todo) \subseteq Promises(tx[w].todo),
         tx'[w].pc \in {"lock", "apply"} /\ Call(w)'.key # NoKey =>
           tx[w].pc \in {"lock", "apply"} /\ tx'[w].todo = tx[w].todo,
         UNCHANGED row, \A k \in Keys : Moves(k)' = Moves(k)
  PROVE  AnswersOK'
<1>1. \A v \in Workers : Promises(tx'[v].todo) \subseteq Promises(tx[v].todo)
  OBVIOUS
<1>2. MovesAnswered' /\ AnswersMoved'
  BY DEF AnswersOK, MovesAnswered, AnswersMoved
<1>3. PromisesTrue'
  <2> SUFFICES ASSUME NEW v \in Workers, NEW op \in Promises(tx'[v].todo)
               PROVE  /\ Moves(op.key)' \subseteq {Promise(op)}
                      /\ op.qty # 0 => Moves(op.key)' # {}
                      /\ row'[op.key] \in {PendingRow, DoneRow(Promise(op))}
                      /\ \A o \in Promises(tx'[v].todo) :
                           o.key = op.key => Promise(o) = Promise(op)
    BY DEF PromisesTrue
  <2>1. op \in Promises(tx[v].todo) /\ op.key \in Keys
    BY <1>1, PromiseTyped
  <2>2. Moves(op.key)' = Moves(op.key) /\ row' = row
    BY <2>1
  <2> QED BY <1>1, <2>1, <2>2 DEF AnswersOK, PromisesTrue
<1>4. NothingPromised'
  <2> SUFFICES ASSUME NEW v \in Workers, tx'[v].pc \in {"lock", "apply"},
                      Call(v)'.key # NoKey
               PROVE  /\ row'[Call(v)'.key] = PendingRow
                      /\ \A op \in Promises(tx'[v].todo) : op.key # Call(v)'.key
    BY DEF NothingPromised
  <2>1. tx[v].pc \in {"lock", "apply"} /\ Call(v)' = Call(v)
    BY DEF Call
  <2> QED BY <1>1, <2>1 DEF AnswersOK, NothingPromised
<1> QED BY <1>2, <1>3, <1>4 DEF AnswersOK

LEMMA RollbackAnswers ==
  ASSUME Layer5, NEW w \in Workers, Rollback(w)
  PROVE  AnswersOK'
<1>0. /\ TypeOK /\ CallsOK /\ OwersOwn /\ Layer4
      /\ MovesAnswered /\ AnswersMoved /\ PromisesTrue /\ NothingPromised
  BY DEF Layer5, Layer4, Layer2, KeysOK, AnswersOK
<1>1. tx'[w] = Idle /\ \A v \in Workers \ {w} : tx'[v] = tx[v]
  BY <1>0 DEF Rollback, TypeOK
<1>2. Promises(tx'[w].todo) = {} /\ tx'[w].pc = "idle"
  BY <1>1, OpsShort DEF Promises, Idle
<1>3. \A k \in Keys : /\ rowOwner[k] = w => Moves(k)' = {} /\ row'[k] = NoRow
                      /\ rowOwner[k] # w => Moves(k)' = Moves(k) /\ row'[k] = row[k]
  BY <1>0, RollbackMoves
<1>4. MovesAnswered'
  BY <1>0, <1>3 DEF MovesAnswered
<1>5. AnswersMoved'
  <2>1. \A r \in Result : NoRow # DoneRow(r)
    BY KeyRowFacts
  <2> QED BY <1>0, <1>3, <2>1 DEF AnswersMoved
<1>6. PromisesTrue'
  <2> SUFFICES ASSUME NEW v \in Workers, NEW op \in Promises(tx'[v].todo)
               PROVE  /\ Moves(op.key)' \subseteq {Promise(op)}
                      /\ op.qty # 0 => Moves(op.key)' # {}
                      /\ row'[op.key] \in {PendingRow, DoneRow(Promise(op))}
                      /\ \A o \in Promises(tx'[v].todo) :
                           o.key = op.key => Promise(o) = Promise(op)
    BY DEF PromisesTrue
  <2>1. v # w /\ tx'[v] = tx[v]
    BY <1>1, <1>2
  <2>2. op.key \in Keys /\ rowOwner[op.key] = v
    BY <1>0, <2>1, PromiseTyped DEF OwersOwn
  <2>3. Moves(op.key)' = Moves(op.key) /\ row'[op.key] = row[op.key]
    BY <1>3, <2>1, <2>2
  <2> QED BY <1>0, <2>1, <2>3 DEF PromisesTrue
<1>7. NothingPromised'
  <2> SUFFICES ASSUME NEW v \in Workers, tx'[v].pc \in {"lock", "apply"},
                      Call(v)'.key # NoKey
               PROVE  /\ row'[Call(v)'.key] = PendingRow
                      /\ \A op \in Promises(tx'[v].todo) : op.key # Call(v)'.key
    BY DEF NothingPromised
  <2>1. v # w /\ tx'[v] = tx[v] /\ Call(v)' = Call(v)
    BY <1>1, <1>2 DEF Call
  <2>2. Call(v).key \in Keys
    BY <1>0, <2>1, CallTyped
  <2>3. rowOwner[Call(v).key] = v
    BY <1>0, <2>1, <2>2 DEF OwersOwn, Owes
  <2>4. row'[Call(v).key] = row[Call(v).key]
    BY <1>3, <2>1, <2>2, <2>3
  <2> QED BY <1>0, <2>1, <2>4 DEF NothingPromised
<1> QED BY <1>4, <1>5, <1>6, <1>7 DEF AnswersOK

(* The caller's next call: no promise, and nothing locked for a key. *)
LEMMA RunPromises ==
  ASSUME TypeOK, NEW w \in Workers, NEW todo \in Seq(Op),
         tx' = [tx EXCEPT ![w] = Run(todo)]
  PROVE  /\ tx'[w].todo = todo
         /\ tx'[w].pc \in {"lock", "apply"} => Call(w)'.key = NoKey
         /\ \A v \in Workers \ {w} : tx'[v] = tx[v]
<1>1. tx'[w] = Run(todo) /\ \A v \in Workers \ {w} : tx'[v] = tx[v]
  BY DEF TypeOK
<1> QED BY <1>1, RunFine DEF Call

LEMMA ReturnPromises ==
  ASSUME TypeOK, CallsOK, NEW w \in Workers, tx[w].pc \notin {"idle", "commit"}, Return(w)
  PROVE  /\ tx'[w].todo = Tail(tx[w].todo)
         /\ Promises(tx'[w].todo) \subseteq Promises(tx[w].todo)
         /\ tx'[w].pc \in {"lock", "apply"} => Call(w)'.key = NoKey
         /\ \A v \in Workers \ {w} : tx'[v] = tx[v]
<1>1. /\ Tail(tx[w].todo) \in Seq(Op)
      /\ Ops(tx[w].todo) = {Call(w)} \cup Ops(Tail(tx[w].todo))
  BY CallTyped
<1>2. /\ tx'[w].todo = Tail(tx[w].todo)
      /\ tx'[w].pc \in {"lock", "apply"} => Call(w)'.key = NoKey
      /\ \A v \in Workers \ {w} : tx'[v] = tx[v]
  BY <1>1, RunPromises DEF Return
<1> QED BY <1>1, <1>2 DEF Promises

LEMMA ReplayAnswers ==
  ASSUME Layer5, NEW w \in Workers, tx[w].pc \in {"find", "insert"}, NEW r, Replay(w, r)
  PROVE  AnswersOK'
<1>0. TypeOK /\ CallsOK /\ AnswersOK
  BY DEF Layer5, Layer4, Layer2
<1>1. CASE r.st = "done"
  <2>1. Return(w) /\ UNCHANGED <<level, row>>
    BY <1>1 DEF Replay
  <2>2. \A k \in Keys : Moves(k)' = Moves(k)
    BY <2>1 DEF Moves, MovesIn
  <2> QED BY <1>0, <2>1, <2>2, ReturnPromises, SameAnswers
<1>2. CASE r.st # "done"
  BY <1>2, RollbackAnswers DEF Replay
<1> QED BY <1>1, <1>2

(* A call that moves stock promises its answer. *)
LEMMA GoOnPromises ==
  ASSUME TypeOK, CallsOK, NEW w \in Workers, tx[w].pc = "apply",
         NEW delta \in Int, GoOn(w, delta)
  PROVE  /\ \A op \in Promises(tx'[w].todo) :
              \/ op \in Promises(tx[w].todo)
              \/ /\ op.key = Call(w).key /\ op.key # NoKey /\ op.qty = delta
                 /\ Promise(op) = [lv |-> Call(w).lv, before |-> level[Call(w).lv].onHand,
                                   delta |-> delta]
         /\ tx'[w].pc \in {"lock", "apply"} => Call(w)'.key = NoKey
         /\ \A v \in Workers \ {w} : tx'[v] = tx[v]
<1> DEFINE todo == Parts(w) \o Res(w, delta) \o Tail(tx[w].todo)
<1>1. /\ todo \in Seq(Op)
      /\ Ops(todo) = Ops(Parts(w)) \cup Ops(Res(w, delta)) \cup Ops(Tail(tx[w].todo))
      /\ \A o \in Ops(Parts(w)) : o.kind = "mutate"
  BY MutationTodo
<1>2. tx' = [tx EXCEPT ![w] = Run(todo)]
  BY DEF GoOn
<1> HIDE DEF todo
<1>3. /\ tx'[w].todo = todo
      /\ tx'[w].pc \in {"lock", "apply"} => Call(w)'.key = NoKey
      /\ \A v \in Workers \ {w} : tx'[v] = tx[v]
  BY <1>1, <1>2, RunPromises
<1>4. Ops(Tail(tx[w].todo)) \subseteq Ops(tx[w].todo) /\ Call(w) \in Op
  BY CallTyped
<1>5. ASSUME NEW op \in Ops(Res(w, delta))
      PROVE  /\ op.key = Call(w).key /\ op.key # NoKey /\ op.qty = delta
             /\ Promise(op) = [lv |-> Call(w).lv, before |-> level[Call(w).lv].onHand,
                               delta |-> delta]
  <2> DEFINE b == level[Call(w).lv].onHand
             o == [Call(w) EXCEPT !.kind = "result", !.qty = delta, !.before = b]
  <2>1. Call(w).key # NoKey /\ op = o
    <3>1. Res(w, delta) = IF Call(w).key = NoKey THEN <<>> ELSE <<o>>
      BY DEF Res, ResultOp
    <3>2. Ops(<<>>) = {} /\ Ops(<<o>>) = {o}
      BY OpsShort
    <3> HIDE DEF o
    <3> QED BY <3>1, <3>2
  <2>2. o.key = Call(w).key /\ o.qty = delta /\ o.before = b /\ o.lv = Call(w).lv
    BY <1>4 DEF Op
  <2> HIDE DEF o
  <2> QED BY <2>1, <2>2 DEF Promise
<1>6. ASSUME NEW op \in Promises(todo), op \notin Promises(tx[w].todo)
      PROVE  op \in Ops(Res(w, delta))
  BY <1>1, <1>4, <1>6 DEF Promises
<1> QED BY <1>3, <1>5, <1>6

LEMMA AppliedAnswers ==
  ASSUME Layer5, NEW w \in Workers, tx[w].pc = "apply", NEW delta \in Int, GoOn(w, delta),
         NEW key, key = Call(w).key,
         NEW said, said = [lv |-> Call(w).lv, before |-> level[Call(w).lv].onHand,
                           delta |-> delta],
         UNCHANGED row,
         \A k \in Keys \ {key} : Moves(k)' = Moves(k),
         key # NoKey => Moves(key)' \subseteq {said} /\ (delta # 0 => Moves(key)' # {})
  PROVE  AnswersOK'
<1>0. /\ TypeOK /\ CallsOK /\ OwersOwn
      /\ MovesAnswered /\ AnswersMoved /\ PromisesTrue /\ NothingPromised
  BY DEF Layer5, Layer4, Layer2, KeysOK, AnswersOK
<1>1. /\ \A op \in Promises(tx'[w].todo) :
           \/ op \in Promises(tx[w].todo)
           \/ op.key = key /\ op.key # NoKey /\ op.qty = delta /\ Promise(op) = said
      /\ tx'[w].pc \in {"lock", "apply"} => Call(w)'.key = NoKey
      /\ \A v \in Workers \ {w} : tx'[v] = tx[v]
  BY <1>0, GoOnPromises
<1>2. key # NoKey => /\ key \in Keys /\ row[key] = PendingRow /\ rowOwner[key] = w
                     /\ \A op \in Promises(tx[w].todo) : op.key # key
  BY <1>0, CallTyped DEF NothingPromised, OwersOwn, Owes
<1>3. key \in Keys => key # NoKey
  BY ConstantsAssumption
<1>4. MovesAnswered'
  BY <1>0, <1>2, <1>3 DEF MovesAnswered
<1>5. AnswersMoved'
  <2>1. \A r \in Result : PendingRow # DoneRow(r)
    BY KeyRowFacts
  <2> QED BY <1>0, <1>2, <1>3, <2>1 DEF AnswersMoved
<1>6. ASSUME NEW v \in Workers, NEW op \in Promises(tx[v].todo)
      PROVE  op.key \in Keys /\ op.key # key
  <2>1. op.key \in Keys /\ rowOwner[op.key] = v
    BY <1>0, PromiseTyped DEF OwersOwn
  <2>2. CASE v = w
    <3>1. op.key # NoKey
      BY <2>1, ConstantsAssumption
    <3> QED BY <1>2, <2>1, <2>2, <3>1
  <2>3. CASE v # w
    <3>1. op.key # NoKey
      BY <2>1, ConstantsAssumption
    <3> QED BY <1>2, <2>1, <2>3, <3>1
  <2> QED BY <2>2, <2>3
<1>7. PromisesTrue'
  <2> SUFFICES ASSUME NEW v \in Workers, NEW op \in Promises(tx'[v].todo)
               PROVE  /\ Moves(op.key)' \subseteq {Promise(op)}
                      /\ op.qty # 0 => Moves(op.key)' # {}
                      /\ row'[op.key] \in {PendingRow, DoneRow(Promise(op))}
                      /\ \A o \in Promises(tx'[v].todo) :
                           o.key = op.key => Promise(o) = Promise(op)
    BY DEF PromisesTrue
  <2>1. CASE op \in Promises(tx[v].todo)
    <3>1. op.key \in Keys /\ op.key # key
      BY <1>6, <2>1
    <3>2. Moves(op.key)' = Moves(op.key) /\ row' = row
      BY <3>1
    <3>3. \A o \in Promises(tx'[v].todo) : o.key = op.key => o \in Promises(tx[v].todo)
      BY <1>1, <3>1
    <3> QED BY <1>0, <2>1, <3>2, <3>3 DEF PromisesTrue
  <2>2. CASE op \notin Promises(tx[v].todo)
    <3>1. v = w /\ op.key = key /\ op.key # NoKey /\ op.qty = delta /\ Promise(op) = said
      BY <1>1, <2>2
    <3>2. \A o \in Promises(tx'[v].todo) : o.key = key => Promise(o) = said
      BY <1>1, <1>6, <3>1
    <3>3. row'[key] = PendingRow
      BY <1>2, <3>1
    <3> QED BY <3>1, <3>2, <3>3
  <2> QED BY <2>1, <2>2
<1>8. NothingPromised'
  <2> SUFFICES ASSUME NEW v \in Workers, tx'[v].pc \in {"lock", "apply"},
                      Call(v)'.key # NoKey
               PROVE  /\ row'[Call(v)'.key] = PendingRow
                      /\ \A op \in Promises(tx'[v].todo) : op.key # Call(v)'.key
    BY DEF NothingPromised
  <2>1. v # w /\ tx'[v] = tx[v] /\ Call(v)' = Call(v)
    BY <1>1 DEF Call
  <2> QED BY <1>0, <2>1 DEF NothingPromised
<1> QED BY <1>4, <1>5, <1>7, <1>8 DEF AnswersOK

LEMMA ApplyMoves ==
  ASSUME Layer4, NEW w \in Workers, ApplyLevel(w),
         NEW key, key = Call(w).key,
         NEW said, said = [lv |-> Call(w).lv, before |-> level[Call(w).lv].onHand,
                           delta |-> Call(w).qty]
  PROVE  /\ \A k \in Keys \ {key} : Moves(k)' = Moves(k)
         /\ key # NoKey => Moves(key)' = {said}
<1> DEFINE t == Call(w).lv
           n == Len(level[t].ledger)
           e == [key |-> key, before |-> level[t].onHand, delta |-> Call(w).qty,
                 after |-> level[t].onHand + Call(w).qty, dmg |-> Call(w).dmg]
           rows == level'
<1>0. TypeOK /\ CallsOK /\ FreshOK
  BY DEF Layer4, Layer2, EntriesOK
<1>1. tx[w].pc = "apply" /\ level' = [level EXCEPT ![t] = Mutated(Call(w), @)]
  BY DEF ApplyLevel
<1>2. t \in Levels
  BY <1>0, <1>1, CallTyped
<1>3. level[t].ledger \in Seq(Entry) /\ n \in Nat
  BY <1>0, <1>2, EntryTypes
<1>4. rows[t].ledger = Append(level[t].ledger, e)
  BY <1>0, <1>1, <1>2 DEF Mutated, TypeOK
<1>5. \A l \in Levels \ {t} : rows[l] = level[l]
  BY <1>0, <1>1, <1>2 DEF TypeOK
<1> HIDE DEF e, rows
<1>6. /\ Len(rows[t].ledger) = n + 1 /\ rows[t].ledger[n + 1] = e
      /\ \A i \in 1..n : rows[t].ledger[i] = level[t].ledger[i]
  BY <1>3, <1>4
<1> HIDE DEF t, n
<1>7. ASSUME NEW k, NEW r
      PROVE  r \in MovesIn(rows, k) <=> r \in Moves(k) \/ (k = key /\ r = AnswerOf(t, e))
  <2>1. ASSUME r \in MovesIn(rows, k)
        PROVE  r \in Moves(k) \/ (k = key /\ r = AnswerOf(t, e))
    <3>1. PICK l \in Levels : \E i \in 1..Len(rows[l].ledger) :
            rows[l].ledger[i].key = k /\ r = AnswerOf(l, rows[l].ledger[i])
      BY <2>1, MoveIn
    <3>2. PICK i \in 1..Len(rows[l].ledger) :
            rows[l].ledger[i].key = k /\ r = AnswerOf(l, rows[l].ledger[i])
      BY <3>1
    <3>3. CASE l # t
      BY <1>5, <3>2, <3>3, MoveIn DEF Moves
    <3>4. CASE l = t /\ i = n + 1
      <4>1. e.key = key
        BY DEF e
      <4> QED BY <1>6, <3>2, <3>4, <4>1
    <3>5. CASE l = t /\ i # n + 1
      <4>1. i \in 1..n
        BY <1>3, <1>6, <3>5 DEF n
      <4>2. i \in 1..Len(level[l].ledger) /\ rows[l].ledger[i] = level[l].ledger[i]
        BY <1>6, <3>5, <4>1 DEF n
      <4> QED BY <3>2, <4>2, MoveIn DEF Moves
    <3> QED BY <3>3, <3>4, <3>5
  <2>2. ASSUME r \in Moves(k) PROVE r \in MovesIn(rows, k)
    <3>1. PICK l \in Levels : \E i \in 1..Len(level[l].ledger) :
            level[l].ledger[i].key = k /\ r = AnswerOf(l, level[l].ledger[i])
      BY <2>2, MoveIn DEF Moves
    <3>2. PICK i \in 1..Len(level[l].ledger) :
            level[l].ledger[i].key = k /\ r = AnswerOf(l, level[l].ledger[i])
      BY <3>1
    <3>3. i \in 1..Len(rows[l].ledger) /\ rows[l].ledger[i] = level[l].ledger[i]
      <4>1. CASE l # t
        BY <1>5, <4>1
      <4>2. CASE l = t
        BY <1>3, <1>6, <4>2 DEF n
      <4> QED BY <4>1, <4>2
    <3> QED BY <3>2, <3>3, MoveIn
  <2>3. ASSUME k = key, r = AnswerOf(t, e) PROVE r \in MovesIn(rows, k)
    <3>1. n + 1 \in 1..Len(rows[t].ledger)
      BY <1>3, <1>6 DEF n
    <3>2. rows[t].ledger[n + 1].key = k
      BY <1>6, <2>3 DEF e
    <3>3. \E i \in 1..Len(rows[t].ledger) :
            rows[t].ledger[i].key = k /\ r = AnswerOf(t, rows[t].ledger[i])
      BY <1>6, <2>3, <3>1, <3>2
    <3> QED BY <1>2, <3>3, MoveIn DEF t
  <2> QED BY <2>1, <2>2, <2>3
<1>8. AnswerOf(t, e) = said
  BY DEF AnswerOf, e, t
<1>9. key # NoKey => Moves(key) = {}
  <2> SUFFICES ASSUME key # NoKey, NEW r \in Moves(key) PROVE FALSE
    OBVIOUS
  <2>1. PICK l \in Levels : \E i \in Positions(l) : KeyAt(l, i) = key
    BY MoveIn DEF Moves, Positions, KeyAt
  <2> QED BY <1>0, <1>1, <2>1 DEF FreshOK
<1>10. \A k : Moves(k)' = MovesIn(rows, k)
  BY DEF Moves, MovesIn, rows
<1> QED BY <1>7, <1>8, <1>9, <1>10

(* The recorded answer is the promise, so that movements and other promises *)
(* under the key agree with it.                                             *)
LEMMA SaveAnswers ==
  ASSUME Layer5, NEW w \in Workers, SaveResult(w)
  PROVE  AnswersOK'
<1>0. /\ TypeOK /\ CallsOK /\ OwersOwn /\ tx[w].pc = "result"
      /\ MovesAnswered /\ AnswersMoved /\ PromisesTrue /\ NothingPromised
  BY DEF Layer5, Layer4, Layer2, KeysOK, AnswersOK, SaveResult
<1>1. PICK call : call = Call(w)
  OBVIOUS
<1>2. call \in Promises(tx[w].todo)
  BY <1>0, <1>1, CallTyped DEF Promises, CallsOK
<1>3. call.key \in Keys /\ Promise(call) \in Result /\ rowOwner[call.key] = w
  BY <1>0, <1>2, PromiseTyped DEF OwersOwn
<1>4. /\ row' = [row EXCEPT ![call.key] = DoneRow(Promise(call))]
      /\ Return(w) /\ UNCHANGED level
  BY <1>1 DEF SaveResult, Promise
<1>5. /\ row'[call.key] = DoneRow(Promise(call))
      /\ \A k \in Keys \ {call.key} : row'[k] = row[k]
  BY <1>0, <1>3, <1>4 DEF TypeOK
<1>6. \A k : Moves(k)' = Moves(k)
  BY <1>4 DEF Moves, MovesIn
<1>7. /\ \A v \in Workers : Promises(tx'[v].todo) \subseteq Promises(tx[v].todo)
      /\ tx'[w].pc \in {"lock", "apply"} => Call(w)'.key = NoKey
      /\ \A v \in Workers \ {w} : tx'[v] = tx[v]
  BY <1>0, <1>4, ReturnPromises
<1>8. /\ Moves(call.key) \subseteq {Promise(call)} /\ (call.qty # 0 => Moves(call.key) # {})
      /\ \A o \in Promises(tx[w].todo) : o.key = call.key => Promise(o) = Promise(call)
  BY <1>0, <1>2 DEF PromisesTrue
<1>9. MovesAnswered'
  BY <1>0, <1>5, <1>6, <1>8 DEF MovesAnswered
<1>10. AnswersMoved'
  <2> SUFFICES ASSUME NEW k \in Keys, NEW r \in Result, row'[k] = DoneRow(r), r.delta # 0
               PROVE  Moves(k) # {}
    BY <1>6 DEF AnswersMoved
  <2>1. CASE k = call.key
    <3>1. r = Promise(call)
      BY <1>5, <2>1, DoneRowInjective
    <3> QED BY <1>8, <2>1, <3>1 DEF Promise
  <2>2. CASE k # call.key
    BY <1>0, <1>5, <2>2 DEF AnswersMoved
  <2> QED BY <2>1, <2>2
<1>11. PromisesTrue'
  <2> SUFFICES ASSUME NEW v \in Workers, NEW op \in Promises(tx'[v].todo)
               PROVE  /\ Moves(op.key)' \subseteq {Promise(op)}
                      /\ op.qty # 0 => Moves(op.key)' # {}
                      /\ row'[op.key] \in {PendingRow, DoneRow(Promise(op))}
                      /\ \A o \in Promises(tx'[v].todo) :
                           o.key = op.key => Promise(o) = Promise(op)
    BY DEF PromisesTrue
  <2>1. op \in Promises(tx[v].todo) /\ op.key \in Keys /\ rowOwner[op.key] = v
    BY <1>0, <1>7, PromiseTyped DEF OwersOwn
  <2>2. /\ Moves(op.key) \subseteq {Promise(op)} /\ (op.qty # 0 => Moves(op.key) # {})
        /\ row[op.key] \in {PendingRow, DoneRow(Promise(op))}
        /\ \A o \in Promises(tx[v].todo) : o.key = op.key => Promise(o) = Promise(op)
    BY <1>0, <2>1 DEF PromisesTrue
  <2>3. row'[op.key] \in {PendingRow, DoneRow(Promise(op))}
    <3>1. CASE op.key = call.key
      <4>1. v = w
        BY <1>3, <2>1, <3>1
      <4> QED BY <1>5, <1>8, <2>1, <3>1, <4>1
    <3>2. CASE op.key # call.key
      BY <1>5, <2>1, <2>2, <3>2
    <3> QED BY <3>1, <3>2
  <2> QED BY <1>6, <1>7, <2>2, <2>3
<1>12. NothingPromised'
  <2> SUFFICES ASSUME NEW v \in Workers, tx'[v].pc \in {"lock", "apply"},
                      Call(v)'.key # NoKey
               PROVE  /\ row'[Call(v)'.key] = PendingRow
                      /\ \A op \in Promises(tx'[v].todo) : op.key # Call(v)'.key
    BY DEF NothingPromised
  <2>1. v # w /\ tx'[v] = tx[v] /\ Call(v)' = Call(v)
    BY <1>7 DEF Call
  <2>2. Call(v).key \in Keys
    BY <1>0, <2>1, CallTyped
  <2>3. rowOwner[Call(v).key] = v
    BY <1>0, <2>1, <2>2 DEF OwersOwn, Owes
  <2>4. row'[Call(v).key] = row[Call(v).key]
    BY <1>3, <1>5, <2>1, <2>2, <2>3
  <2> QED BY <1>0, <2>1, <2>4 DEF NothingPromised
<1> QED BY <1>9, <1>10, <1>11, <1>12 DEF AnswersOK

LEMMA Answers == Layer5 /\ [Next]_vars => AnswersOK'
<1> SUFFICES ASSUME Layer5, [Next]_vars PROVE AnswersOK'
  OBVIOUS
<1>0. TypeOK /\ CallsOK /\ AnswersOK /\ Layer4 /\ FreshOK
  BY DEF Layer5, Layer4, Layer2, EntriesOK
<1>1. ASSUME NEW w \in Workers, Begin(w) PROVE AnswersOK'
  <2>1. PICK r \in Requests : tx' = [tx EXCEPT ![w] = Run(r)]
    BY <1>1 DEF Begin
  <2>2. r \in Seq(Op) /\ Promises(r) = {} /\ UNCHANGED <<level, row>>
    BY <1>1, RequestFine DEF Begin, Promises
  <2>3. \A k \in Keys : Moves(k)' = Moves(k)
    BY <2>2 DEF Moves, MovesIn
  <2> QED BY <1>0, <2>1, <2>2, <2>3, RunPromises, SameAnswers
<1>2. ASSUME NEW w \in Workers, FindKey(w) PROVE AnswersOK'
  <2>1. CASE tx' = [tx EXCEPT ![w].pc = "insert"] /\ UNCHANGED <<level, row>>
    <3>1. /\ tx'[w].todo = tx[w].todo /\ tx'[w].pc = "insert"
          /\ \A v \in Workers \ {w} : tx'[v] = tx[v]
      BY <1>0, <2>1 DEF TypeOK
    <3>2. \A k \in Keys : Moves(k)' = Moves(k)
      BY <2>1 DEF Moves, MovesIn
    <3> QED BY <1>0, <2>1, <3>1, <3>2, SameAnswers
  <2>2. CASE Replay(w, VisibleRow(w, Call(w).key))
    BY <1>2, <2>2, ReplayAnswers DEF FindKey
  <2> QED BY <1>2, <2>1, <2>2 DEF FindKey
<1>3. ASSUME NEW w \in Workers, InsertKey(w) PROVE AnswersOK'
  <2>1. PICK key : key = Call(w).key
    OBVIOUS
  <2>2. key \in Keys /\ tx[w].pc = "insert" /\ tx[w].todo # <<>>
    BY <1>0, <1>3, <2>1, CallTyped DEF InsertKey, CallsOK
  <2>3. CASE /\ row[key].st = "none"
             /\ row' = [row EXCEPT ![key] = PendingRow]
             /\ tx' = [tx EXCEPT ![w].pc = "lock"]
             /\ UNCHANGED level
    <3>1. row[key] = NoRow
      BY <1>0, <2>2, <2>3, KeyRowFacts DEF TypeOK
    <3>2. row'[key] = PendingRow /\ \A k \in Keys \ {key} : row'[k] = row[k]
      BY <1>0, <2>2, <2>3 DEF TypeOK
    <3>3. \A k : Moves(k)' = Moves(k)
      BY <2>3 DEF Moves, MovesIn
    <3>4. /\ \A v \in Workers : tx'[v].todo = tx[v].todo /\ Call(v)' = Call(v)
          /\ \A v \in Workers \ {w} : tx'[v] = tx[v]
      BY <1>0, <2>3 DEF TypeOK, Call
    <3>5. Moves(key) = {}
      <4>1. \A r \in Result : NoRow \notin {PendingRow, DoneRow(r)}
        BY KeyRowFacts
      <4> QED BY <1>0, <2>2, <3>1, <4>1, MoveTyped DEF AnswersOK, MovesAnswered
    <3>6. \A v \in Workers : \A op \in Promises(tx[v].todo) : op.key # key
      <4> SUFFICES ASSUME NEW v \in Workers, NEW op \in Promises(tx[v].todo), op.key = key
                   PROVE  FALSE
        OBVIOUS
      <4>1. row[key] \in {PendingRow, DoneRow(Promise(op))}
        BY <1>0 DEF AnswersOK, PromisesTrue
      <4> QED BY <1>0, <3>1, <4>1, PromiseTyped, KeyRowFacts
    <3>7. MovesAnswered'
      BY <1>0, <3>2, <3>3, <3>5 DEF AnswersOK, MovesAnswered
    <3>8. AnswersMoved'
      <4>1. \A r \in Result : PendingRow # DoneRow(r)
        BY KeyRowFacts
      <4> QED BY <1>0, <3>2, <3>3, <4>1 DEF AnswersOK, AnswersMoved
    <3>9. PromisesTrue'
      <4> SUFFICES ASSUME NEW v \in Workers, NEW op \in Promises(tx[v].todo)
                   PROVE  /\ Moves(op.key)' \subseteq {Promise(op)}
                          /\ op.qty # 0 => Moves(op.key)' # {}
                          /\ row'[op.key] \in {PendingRow, DoneRow(Promise(op))}
                          /\ \A o \in Promises(tx[v].todo) :
                               o.key = op.key => Promise(o) = Promise(op)
        BY <3>4 DEF PromisesTrue
      <4>1. op.key \in Keys \ {key}
        BY <1>0, <3>6, PromiseTyped
      <4> QED BY <1>0, <3>2, <3>3, <4>1 DEF AnswersOK, PromisesTrue
    <3>10. NothingPromised'
      <4> SUFFICES ASSUME NEW v \in Workers, tx'[v].pc \in {"lock", "apply"},
                          Call(v).key # NoKey
                   PROVE  /\ row'[Call(v).key] = PendingRow
                          /\ \A op \in Promises(tx[v].todo) : op.key # Call(v).key
        BY <3>4 DEF NothingPromised
      <4>1. CASE v = w
        BY <2>1, <3>2, <3>6, <4>1
      <4>2. CASE v # w
        <5>1. tx[v].pc \in {"lock", "apply"}
          BY <3>4, <4>2
        <5>2. /\ row[Call(v).key] = PendingRow
              /\ \A op \in Promises(tx[v].todo) : op.key # Call(v).key
          BY <1>0, <5>1 DEF AnswersOK, NothingPromised
        <5>3. Call(v).key \in Keys
          BY <1>0, <5>1, CallTyped
        <5> QED BY <3>2, <5>2, <5>3
      <4> QED BY <4>1, <4>2
    <3> QED BY <3>7, <3>8, <3>9, <3>10 DEF AnswersOK
  <2>4. CASE Replay(w, row[key])
    BY <2>2, <2>4, ReplayAnswers
  <2> QED BY <1>3, <2>1, <2>3, <2>4 DEF InsertKey
<1>4. ASSUME NEW w \in Workers, LockLevel(w) PROVE AnswersOK'
  <2>1. /\ tx[w].pc = "lock" /\ tx' = [tx EXCEPT ![w].pc = "apply"]
        /\ UNCHANGED <<level, row>>
    BY <1>4 DEF LockLevel
  <2>2. tx'[w].todo = tx[w].todo /\ \A v \in Workers \ {w} : tx'[v] = tx[v]
    BY <1>0, <2>1 DEF TypeOK
  <2>3. \A k \in Keys : Moves(k)' = Moves(k)
    BY <2>1 DEF Moves, MovesIn
  <2> QED BY <1>0, <2>1, <2>2, <2>3, SameAnswers
<1>5. ASSUME NEW w \in Workers, ApplyRecipe(w) PROVE AnswersOK'
  <2>1. tx[w].pc = "apply" /\ GoOn(w, 0) /\ UNCHANGED <<level, row>>
    BY <1>5 DEF ApplyRecipe
  <2>2. PICK key : key = Call(w).key
    OBVIOUS
  <2>3. PICK said : said = [lv |-> Call(w).lv, before |-> level[Call(w).lv].onHand,
                            delta |-> 0]
    OBVIOUS
  <2>4. \A k : Moves(k)' = Moves(k)
    BY <2>1 DEF Moves, MovesIn
  <2>5. key # NoKey => Moves(key) = {}
    <3> SUFFICES ASSUME key # NoKey, NEW r \in Moves(key) PROVE FALSE
      OBVIOUS
    <3>1. PICK l \in Levels : \E i \in Positions(l) : KeyAt(l, i) = key
      BY MoveIn DEF Moves, Positions, KeyAt
    <3> QED BY <1>0, <2>1, <2>2, <3>1 DEF FreshOK
  <2>6. 0 \in Int
    OBVIOUS
  <2> QED BY <2>1, <2>2, <2>3, <2>4, <2>5, <2>6, AppliedAnswers
<1>6. ASSUME NEW w \in Workers, ApplyLevel(w) PROVE AnswersOK'
  <2>1. PICK key : key = Call(w).key
    OBVIOUS
  <2>2. PICK said : said = [lv |-> Call(w).lv, before |-> level[Call(w).lv].onHand,
                            delta |-> Call(w).qty]
    OBVIOUS
  <2>3. PICK delta \in Int : delta = Call(w).qty
    BY <1>0, <1>6, CallTyped DEF ApplyLevel
  <2>4. tx[w].pc = "apply" /\ GoOn(w, delta) /\ UNCHANGED row
    BY <1>6, <2>3 DEF ApplyLevel
  <2>5. /\ \A k \in Keys \ {key} : Moves(k)' = Moves(k)
        /\ key # NoKey => Moves(key)' = {said}
    BY <1>0, <1>6, <2>1, <2>2, ApplyMoves
  <2> QED BY <2>1, <2>2, <2>3, <2>4, <2>5, AppliedAnswers
<1>7. ASSUME NEW w \in Workers, AdjustReserved(w) PROVE AnswersOK'
  <2>0. Call(w) \in Op /\ Call(w).lv \in Levels /\ tx[w].pc = "reserve"
    BY <1>0, <1>7, CallTyped DEF AdjustReserved
  <2>1. CASE ReserveAllowed(Call(w), level[Call(w).lv])
    <3>1. /\ level' = [level EXCEPT ![Call(w).lv] = Reserved(Call(w), @)]
          /\ Return(w) /\ UNCHANGED row
      BY <1>7, <2>1 DEF AdjustReserved
    <3>2. Reserved(Call(w), level[Call(w).lv]).ledger = level[Call(w).lv].ledger
      BY <1>0, <2>0, ReservedType DEF TypeOK
    <3>3. \A l \in Levels : level'[l].ledger = level[l].ledger
      BY <1>0, <2>0, <3>1, <3>2 DEF TypeOK
    <3>4. \A k \in Keys : Moves(k)' = Moves(k)
      BY <3>3, SameMoves DEF Moves
    <3> QED BY <1>0, <2>0, <3>1, <3>4, ReturnPromises, SameAnswers
  <2>2. CASE ~ReserveAllowed(Call(w), level[Call(w).lv])
    BY <1>7, <2>2, RollbackAnswers DEF AdjustReserved
  <2> QED BY <2>1, <2>2
<1>8. ASSUME NEW w \in Workers, Commit(w) PROVE AnswersOK'
  <2>1. tx' = [tx EXCEPT ![w] = Idle] /\ UNCHANGED <<level, row>>
    BY <1>8 DEF Commit
  <2>2. tx'[w] = Idle /\ \A v \in Workers \ {w} : tx'[v] = tx[v]
    BY <1>0, <2>1 DEF TypeOK
  <2>3. Promises(tx'[w].todo) = {} /\ tx'[w].pc = "idle"
    BY <2>2, OpsShort DEF Promises, Idle
  <2>4. \A k \in Keys : Moves(k)' = Moves(k)
    BY <2>1 DEF Moves, MovesIn
  <2> QED BY <1>0, <2>1, <2>2, <2>3, <2>4, SameAnswers
<1>9. ASSUME NEW w \in Workers, RejectMutation(w) \/ DeadlockVictim(w) \/ Fail(w)
      PROVE  AnswersOK'
  BY <1>9, RollbackAnswers DEF RejectMutation, DeadlockVictim, Fail
<1>10. CASE UNCHANGED vars
  <2>1. /\ UNCHANGED <<row, tx>> /\ \A k : Moves(k)' = Moves(k)
        /\ \A w : Call(w)' = Call(w)
    BY <1>10 DEF vars, Moves, MovesIn, Call
  <2>2. MovesAnswered' /\ AnswersMoved' /\ PromisesTrue'
    BY <1>0, <2>1 DEF AnswersOK, MovesAnswered, AnswersMoved, PromisesTrue
  <2>3. NothingPromised'
    BY <1>0, <2>1 DEF AnswersOK, NothingPromised
  <2> QED BY <2>2, <2>3 DEF AnswersOK
<1> QED BY <1>1, <1>2, <1>3, <1>4, <1>5, <1>6, <1>7, <1>8, <1>9, <1>10, SaveAnswers
        DEF Next, Step

LEMMA InitAnswers == Init => AnswersOK
<1> SUFFICES ASSUME Init PROVE AnswersOK
  OBVIOUS
<1>1. /\ \A l \in Levels : level[l].ledger = <<>>
      /\ row = [k \in Keys |-> NoRow] /\ tx = [w \in Workers |-> Idle]
  BY DEF Init, OpeningRow
<1>2. \A k : Moves(k) = {}
  <2> SUFFICES ASSUME NEW k, NEW r \in Moves(k) PROVE FALSE
    OBVIOUS
  <2>1. PICK l \in Levels : \E i \in 1..Len(level[l].ledger) : TRUE
    BY MoveIn DEF Moves
  <2>2. 1..Len(level[l].ledger) = {}
    BY <1>1
  <2> QED BY <2>1, <2>2
<1>3. \A w \in Workers : Promises(tx[w].todo) = {} /\ tx[w].pc = "idle"
  BY <1>1, OpsShort DEF Promises, Idle
<1>4. \A r \in Result : NoRow # DoneRow(r)
  BY KeyRowFacts
<1> QED BY <1>1, <1>2, <1>3, <1>4
        DEF AnswersOK, MovesAnswered, AnswersMoved, PromisesTrue, NothingPromised

-----------------------------------------------------------------------------

LEMMA AnswersInvariance == Spec => []AnswersOK
<1>1. Init => AnswersOK
  BY InitAnswers
<1>2. IInv /\ AnswersOK /\ [Next]_vars => AnswersOK'
  BY Answers DEF IInv, Layer5, Layer4, Layer2
<1> QED BY <1>1, <1>2, Invariance, PTL DEF Spec

(* mutateInTx: what a replay returns is the movement made: the row committed *)
(* for a key and the ledger entries committed under it agree, whatever      *)
(* sessions race for the key, fail or are rolled back.                      *)
THEOREM AnswersAgree == Spec => []RecordedResult
<1>1. IInv /\ AnswersOK => Layer5
  BY DEF IInv, Layer5, Layer4, Layer2
<1>2. Layer5 => RecordedResult
  <2> SUFFICES ASSUME Layer5, NEW k \in Keys
               PROVE  LET entries == UNION {{l} \X (1..Len(dbLevel[l].ledger)) : l \in Levels}
                          found == {p \in entries : dbLevel[p[1]].ledger[p[2]].key = k} IN
                      /\ dbRow[k].st = "none" => found = {}
                      /\ \A p \in found : dbRow[k] = DoneRow([lv |-> p[1],
                              before |-> dbLevel[p[1]].ledger[p[2]].before,
                              delta |-> dbLevel[p[1]].ledger[p[2]].delta])
                      /\ dbRow[k].st = "done" /\ dbRow[k].res.delta # 0 => found # {}
    BY DEF RecordedResult
  <2> DEFINE entries == UNION {{l} \X (1..Len(dbLevel[l].ledger)) : l \in Levels}
             found == {p \in entries : dbLevel[p[1]].ledger[p[2]].key = k}
  <2>0. /\ TypeOK /\ Layer4 /\ RowsOwned /\ MovesAnswered /\ AnswersMoved
        /\ dbRow[k] \in KeyRow /\ dbRow[k] # PendingRow
    BY DEF Layer5, Layer4, Layer2, LocksOK, KeysOK, AnswersOK, TypeOK
  <2>1. \A p \in found : /\ p[1] \in Levels /\ p[2] \in 1..Len(dbLevel[p[1]].ledger)
                         /\ AnswerOf(p[1], dbLevel[p[1]].ledger[p[2]]) \in MovesIn(dbLevel, k)
    BY MoveIn
  <2>2. MovesIn(dbLevel, k) # {} => found # {}
    <3> SUFFICES ASSUME NEW r \in MovesIn(dbLevel, k) PROVE found # {}
      OBVIOUS
    <3>1. PICK l \in Levels : \E i \in 1..Len(dbLevel[l].ledger) : dbLevel[l].ledger[i].key = k
      BY MoveIn
    <3>2. PICK i \in 1..Len(dbLevel[l].ledger) : dbLevel[l].ledger[i].key = k
      BY <3>1
    <3>3. <<l, i>> \in found
      BY <3>2
    <3> QED BY <3>3
  <2> HIDE DEF found
  <2>3. dbRow[k] # NoRow =>
          row[k] = dbRow[k] /\ MovesIn(dbLevel, k) = Moves(k)
    BY <2>0, CommittedMoves DEF RowsOwned
  <2>4. dbRow[k].st = "none" => found = {}
    BY <2>0, <2>1, CommittedMoves, KeyRowFacts
  <2>5. ASSUME NEW p \in found
        PROVE  dbRow[k] = DoneRow(AnswerOf(p[1], dbLevel[p[1]].ledger[p[2]]))
    <3>1. dbRow[k] # NoRow
      BY <2>0, <2>1, CommittedMoves
    <3> QED BY <2>0, <2>1, <2>3, <3>1 DEF MovesAnswered
  <2>6. ASSUME dbRow[k].st = "done", dbRow[k].res.delta # 0 PROVE found # {}
    <3>1. dbRow[k].res \in Result /\ dbRow[k] = DoneRow(dbRow[k].res) /\ dbRow[k] # NoRow
      BY <2>0, <2>6, KeyRowFacts DEF KeyRow, DoneRow, NoRow, PendingRow
    <3>2. Moves(k) # {}
      BY <2>0, <2>3, <2>6, <3>1 DEF AnswersMoved
    <3> QED BY <2>2, <2>3, <3>1, <3>2
  <2> QED BY <2>4, <2>5, <2>6 DEF found, AnswerOf
<1> QED BY <1>1, <1>2, Invariance, AnswersInvariance, PTL

-----------------------------------------------------------------------------
(* Serialisable: what a request makes of a state of the stock when it runs   *)
(* alone, as a fold of the calls it makes, and when some of it is still to   *)
(* be run.                                                                   *)

Snaps == [stock : [Levels -> LevelRow], answers : [Keys -> KeyRow], ok : BOOLEAN]

(* One call of what is left to do, which may also be the record of a result. *)
Recorded(s, op) ==
  [s EXCEPT !.answers[op.key] = DoneRow([lv |-> op.lv, before |-> op.before, delta |-> op.qty])]
Called(s, op) == IF op.kind = "result" THEN Recorded(s, op) ELSE Atomic!Do(s, op)

Steps(q) == [i \in 1 .. Len(q) |-> [s \in Snaps |-> Called(s, q[i])]]
Runs(p, s, q) ==
  p \in [0 .. Len(q) -> Snaps] /\ p[0] = s /\ \A i \in 1 .. Len(q) : p[i] = Called(p[i - 1], q[i])
Ends(s, q) == CHOOSE e : \E p : Runs(p, s, q) /\ e = p[Len(q)]

-----------------------------------------------------------------------------
(* Types.                                                                    *)

(* The abstract specification reads the same StockOps.                       *)
LEMMA SameOps ==
  /\ \A op, lv : Atomic!Allowed(op, lv) = Allowed(op, lv) /\ Atomic!Mutated(op, lv) = Mutated(op, lv)
  /\ \A op, lv : Atomic!ReserveAllowed(op, lv) = ReserveAllowed(op, lv)
                 /\ Atomic!Reserved(op, lv) = Reserved(op, lv)
  /\ \A op : Atomic!IsRecipeParent(op) = IsRecipeParent(op)
  /\ \A l, q : Atomic!ConsumeComponents(l, q) = ConsumeComponents(l, q)
  /\ \A r : Atomic!DoneRow(r) = DoneRow(r)
  /\ \A l : Atomic!OpeningRow(l) = OpeningRow(l)
  /\ Atomic!NoRow = NoRow
BY DEF Atomic!Allowed, Allowed, Atomic!Mutated, Mutated, Atomic!ReserveAllowed, ReserveAllowed,
       Atomic!Reserved, Reserved, Atomic!IsRecipeParent, IsRecipeParent, Atomic!ConsumeComponents,
       ConsumeComponents, Atomic!ComponentOps, ComponentOps, Atomic!DoneRow, DoneRow,
       Atomic!OpeningRow, OpeningRow, Atomic!NoRow, NoRow

(* One call on a state of the stock.                                         *)
LEMMA MoveIs ==
  ASSUME NEW s, NEW op
  PROVE  Atomic!Move(s, op) =
           IF s.ok /\ Allowed(op, s.stock[op.lv])
           THEN [s EXCEPT !.stock[op.lv] = Mutated(op, @)] ELSE [s EXCEPT !.ok = FALSE]
BY SameOps DEF Atomic!Move

LEMMA ReserveIs ==
  ASSUME NEW s, NEW op
  PROVE  Atomic!Reserve(s, op) =
           IF ReserveAllowed(op, s.stock[op.lv])
           THEN [s EXCEPT !.stock[op.lv] = Reserved(op, @)] ELSE [s EXCEPT !.ok = FALSE]
BY SameOps DEF Atomic!Reserve

LEMMA AnswerIs ==
  ASSUME NEW s, NEW op, NEW before, NEW delta
  PROVE  Atomic!Answer(s, op, before, delta) =
           IF op.key = NoKey THEN s
           ELSE [s EXCEPT !.answers[op.key] = DoneRow([lv |-> op.lv, before |-> before, delta |-> delta])]
BY SameOps DEF Atomic!Answer

LEMMA MoveTypedSnap ==
  ASSUME NEW s \in Snaps, NEW op \in Op
  PROVE  Atomic!Move(s, op) \in Snaps
<1>1. s.stock[op.lv] \in LevelRow /\ op.lv \in Levels
  BY DEF Snaps, Op
<1>2. CASE s.ok /\ Allowed(op, s.stock[op.lv])
  <2>1. Atomic!Move(s, op) = [s EXCEPT !.stock[op.lv] = Mutated(op, @)]
    BY <1>2, MoveIs
  <2>2. Mutated(op, s.stock[op.lv]) \in LevelRow
    BY <1>1, <1>2, MutatedType
  <2> QED BY <1>1, <2>1, <2>2 DEF Snaps
<1>3. CASE ~(s.ok /\ Allowed(op, s.stock[op.lv]))
  BY <1>3, MoveIs DEF Snaps
<1> QED BY <1>2, <1>3

LEMMA ReserveTypedSnap ==
  ASSUME NEW s \in Snaps, NEW op \in Op
  PROVE  Atomic!Reserve(s, op) \in Snaps
<1>1. s.stock[op.lv] \in LevelRow /\ op.lv \in Levels
  BY DEF Snaps, Op
<1>2. Reserved(op, s.stock[op.lv]) \in LevelRow
  BY <1>1, ReservedType
<1> QED BY <1>1, <1>2, ReserveIs DEF Snaps

LEMMA RecordedTyped ==
  ASSUME NEW s \in Snaps, NEW k, NEW r \in Result
  PROVE  [s EXCEPT !.answers[k] = DoneRow(r)] \in Snaps
<1>1. DoneRow(r) \in KeyRow
  BY KeyRowFacts
<1> QED BY <1>1 DEF Snaps

LEMMA AnswerTyped ==
  ASSUME NEW s \in Snaps, NEW op \in Op, NEW before \in Int, NEW delta \in Int
  PROVE  Atomic!Answer(s, op, before, delta) \in Snaps
<1>1. [lv |-> op.lv, before |-> before, delta |-> delta] \in Result
  BY DEF Result, Op
<1> QED BY <1>1, RecordedTyped, AnswerIs

-----------------------------------------------------------------------------
(* The components of a call, one after the other.                            *)

MovesBody(g, b, q, V) == IF V = {} THEN b ELSE Atomic!Move(g[V \ {Greatest(V)}], q[Greatest(V)])
IsMoving(g, b, q) == g = [V \in SUBSET DOMAIN q |-> MovesBody(g, b, q, V)]
Moving(b, q) == CHOOSE g : IsMoving(g, b, q)

LEMMA MovesAreFold ==
  ASSUME NEW b, NEW q
  PROVE  Atomic!FoldLeft(Atomic!Move, b, q) = Moving(b, q)[DOMAIN q]
BY DEF Atomic!FoldLeft, Atomic!MapThenFoldSet, Moving, IsMoving, MovesBody, Greatest, Atomic!Max

LEMMA GreatestOf ==
  ASSUME NEW n \in Nat, NEW V \in SUBSET (1 .. n), V # {}
  PROVE  Greatest(V) \in 1 .. n /\ V \ {Greatest(V)} \in SUBSET (1 .. n)
<1>1. PICK S : S = 1 .. n
  OBVIOUS
<1>2. IsFiniteSet(S) /\ S \in SUBSET Int
  BY <1>1, FS_Interval
<1>3. IsFiniteSet(V) /\ V \in SUBSET Int
  BY <1>1, <1>2, FS_Subset
<1>4. Greatest(V) \in V
  BY <1>3, GreatestIn
<1> QED BY <1>4

LEMMA MovingPath ==
  ASSUME NEW b \in Snaps, NEW q \in Seq(Op)
  PROVE  \E p \in [0 .. Len(q) -> Snaps] :
           /\ p[0] = b /\ \A i \in 1 .. Len(q) : p[i] = Atomic!Move(p[i - 1], q[i])
           /\ Atomic!FoldLeft(Atomic!Move, b, q) = p[Len(q)]
<1> DEFINE F == [i \in 1 .. Len(q) |-> [s \in Snaps |-> Atomic!Move(s, q[i])]]
<1>1. PICK n \in Nat : n = Len(q)
  OBVIOUS
<1>2. F \in [1 .. n -> [Snaps -> Snaps]] /\ \A i \in 1 .. n, s \in Snaps : F[i][s] = Atomic!Move(s, q[i])
  <2>1. \A i \in 1 .. n : q[i] \in Op
    BY <1>1
  <2> QED BY <1>1, <2>1, MoveTypedSnap
<1> HIDE DEF F
<1>3. PICK f : f = Left(F, b, 1 .. n)
  OBVIOUS
<1>4. IsLeft(f, F, b, 1 .. n)
  BY <1>3, LeftExists, FS_Interval
<1>5. \A V \in SUBSET (1 .. n) : f[V] = LeftBody(f, F, b, V)
  BY <1>4, LeftStep
<1>6. f[{}] = b /\ \A V \in SUBSET (1 .. n) : V # {} => f[V] = F[Greatest(V)][f[V \ {Greatest(V)}]]
  BY <1>5 DEF LeftBody
<1>7. \A V \in SUBSET (1 .. n) : f[V] \in Snaps
  <2>1. Folded(f, F, b, n, Snaps)
    BY <1>2, <1>6 DEF Folded
  <2> QED BY <2>1, FoldTypes
<1>8. \A V \in SUBSET (1 .. n) : f[V] = MovesBody(f, b, q, V)
  BY <1>2, <1>6, <1>7, GreatestOf DEF MovesBody
<1>9. IsMoving(f, b, q)
  <2>1. f = [V \in SUBSET (1 .. n) |-> f[V]] /\ DOMAIN q = 1 .. n
    BY <1>1, <1>4 DEF IsLeft
  <2> QED BY <1>8, <2>1 DEF IsMoving
<1>10. PICK g : g = Moving(b, q)
  OBVIOUS
<1>11. IsMoving(g, b, q)
  BY <1>9, <1>10, Zenon DEF Moving
<1>12. \A V \in SUBSET (1 .. n) : g[V] = MovesBody(g, b, q, V)
  BY <1>1, <1>11 DEF IsMoving
<1>13. g[{}] = b
  BY <1>12 DEF MovesBody
<1>14. \A V \in SUBSET (1 .. n) :
         V # {} /\ g[V \ {Greatest(V)}] \in Snaps => g[V] = F[Greatest(V)][g[V \ {Greatest(V)}]]
  BY <1>2, <1>12, GreatestOf DEF MovesBody
<1>15. PICK p \in [0 .. n -> Snaps] : Path(p, F, b, n) /\ p[n] = g[1 .. n]
  <2>1. Folded(g, F, b, n, Snaps)
    BY <1>2, <1>13, <1>14 DEF Folded
  <2> QED BY <2>1, FoldPath
<1>16. Atomic!FoldLeft(Atomic!Move, b, q) = p[n]
  <2>1. DOMAIN q = 1 .. n
    BY <1>1
  <2> QED BY <1>10, <1>15, <2>1, MovesAreFold
<1>17. p[0] = b /\ \A i \in 1 .. n : p[i] = Atomic!Move(p[i - 1], q[i])
  <2>1. \A i \in 1 .. n : i - 1 \in 0 .. n
    OBVIOUS
  <2> QED BY <1>2, <1>15, <2>1 DEF Path
<1> QED BY <1>1, <1>16, <1>17

LEMMA ConsumeTyped ==
  ASSUME NEW s \in Snaps, NEW l \in Levels, NEW x \in Int
  PROVE  ConsumeComponents(l, x) \in Seq(Op)
         /\ Atomic!FoldLeft(Atomic!Move, s, ConsumeComponents(l, x)) \in Snaps
<1>1. PICK q : q = ConsumeComponents(l, x)
  OBVIOUS
<1>2. q \in Seq(Op)
  BY <1>1, ComponentOpsFine DEF ConsumeComponents
<1>3. PICK p \in [0 .. Len(q) -> Snaps] : Atomic!FoldLeft(Atomic!Move, s, q) = p[Len(q)]
  BY <1>2, MovingPath
<1>4. Len(q) \in 0 .. Len(q)
  BY <1>2
<1> QED BY <1>1, <1>2, <1>3, <1>4

(* A call of the engine that moves stock, with its components.               *)
Moved(s, op) == IF IsRecipeParent(op) THEN s ELSE Atomic!Move(s, op)
Delta(op) == IF IsRecipeParent(op) THEN 0 ELSE op.qty
Consumed(s, op) ==
  IF ~op.comp /\ op.qty < 0
  THEN Atomic!FoldLeft(Atomic!Move, s, ConsumeComponents(op.lv, -op.qty)) ELSE s

LEMMA MutateIs ==
  ASSUME NEW s, NEW op
  PROVE  Atomic!Mutate(s, op) =
           IF op.key # NoKey /\ s.answers[op.key].st = "done" THEN s
           ELSE Atomic!Answer(Consumed(Moved(s, op), op), op, s.stock[op.lv].onHand, Delta(op))
BY SameOps DEF Atomic!Mutate, Atomic!Consume, Moved, Delta, Consumed

LEMMA DoTyped ==
  ASSUME NEW s \in Snaps, NEW op \in Op
  PROVE  Atomic!Do(s, op) \in Snaps
<1>1. /\ op.qty \in Int /\ op.lv \in Levels /\ -op.qty \in Int
      /\ s.stock[op.lv].onHand \in Int
  BY DEF Op, Snaps, LevelRow
<1>2. Moved(s, op) \in Snaps /\ Delta(op) \in Int
  BY <1>1, MoveTypedSnap DEF Moved, Delta
<1>3. Consumed(Moved(s, op), op) \in Snaps
  BY <1>1, <1>2, ConsumeTyped DEF Consumed
<1>4. Atomic!Mutate(s, op) \in Snaps
  BY <1>1, <1>2, <1>3, MutateIs, AnswerTyped
<1> QED BY <1>4, ReserveTypedSnap DEF Atomic!Do

-----------------------------------------------------------------------------
(* A whole request.                                                          *)

DoesBody(g, b, q, V) == IF V = {} THEN b ELSE Atomic!Do(g[V \ {Greatest(V)}], q[Greatest(V)])
IsDoing(g, b, q) == g = [V \in SUBSET DOMAIN q |-> DoesBody(g, b, q, V)]
Doing(b, q) == CHOOSE g : IsDoing(g, b, q)

LEMMA DoesAreFold ==
  ASSUME NEW b, NEW q
  PROVE  Atomic!FoldLeft(Atomic!Do, b, q) = Doing(b, q)[DOMAIN q]
BY DEF Atomic!FoldLeft, Atomic!MapThenFoldSet, Doing, IsDoing, DoesBody, Greatest, Atomic!Max

LEMMA DoingPath ==
  ASSUME NEW b \in Snaps, NEW q \in Seq(Op)
  PROVE  \E p \in [0 .. Len(q) -> Snaps] :
           /\ p[0] = b /\ \A i \in 1 .. Len(q) : p[i] = Atomic!Do(p[i - 1], q[i])
           /\ Atomic!FoldLeft(Atomic!Do, b, q) = p[Len(q)]
<1> DEFINE F == [i \in 1 .. Len(q) |-> [s \in Snaps |-> Atomic!Do(s, q[i])]]
<1>1. PICK n \in Nat : n = Len(q)
  OBVIOUS
<1>2. F \in [1 .. n -> [Snaps -> Snaps]] /\ \A i \in 1 .. n, s \in Snaps : F[i][s] = Atomic!Do(s, q[i])
  <2>1. \A i \in 1 .. n : q[i] \in Op
    BY <1>1
  <2> QED BY <1>1, <2>1, DoTyped
<1> HIDE DEF F
<1>3. PICK f : f = Left(F, b, 1 .. n)
  OBVIOUS
<1>4. IsLeft(f, F, b, 1 .. n)
  BY <1>3, LeftExists, FS_Interval
<1>5. \A V \in SUBSET (1 .. n) : f[V] = LeftBody(f, F, b, V)
  BY <1>4, LeftStep
<1>6. f[{}] = b /\ \A V \in SUBSET (1 .. n) : V # {} => f[V] = F[Greatest(V)][f[V \ {Greatest(V)}]]
  BY <1>5 DEF LeftBody
<1>7. \A V \in SUBSET (1 .. n) : f[V] \in Snaps
  <2>1. Folded(f, F, b, n, Snaps)
    BY <1>2, <1>6 DEF Folded
  <2> QED BY <2>1, FoldTypes
<1>8. \A V \in SUBSET (1 .. n) : f[V] = DoesBody(f, b, q, V)
  BY <1>2, <1>6, <1>7, GreatestOf DEF DoesBody
<1>9. IsDoing(f, b, q)
  <2>1. f = [V \in SUBSET (1 .. n) |-> f[V]] /\ DOMAIN q = 1 .. n
    BY <1>1, <1>4 DEF IsLeft
  <2> QED BY <1>8, <2>1 DEF IsDoing
<1>10. PICK g : g = Doing(b, q)
  OBVIOUS
<1>11. IsDoing(g, b, q)
  BY <1>9, <1>10, Zenon DEF Doing
<1>12. \A V \in SUBSET (1 .. n) : g[V] = DoesBody(g, b, q, V)
  BY <1>1, <1>11 DEF IsDoing
<1>13. g[{}] = b
  BY <1>12 DEF DoesBody
<1>14. \A V \in SUBSET (1 .. n) :
         V # {} /\ g[V \ {Greatest(V)}] \in Snaps => g[V] = F[Greatest(V)][g[V \ {Greatest(V)}]]
  BY <1>2, <1>12, GreatestOf DEF DoesBody
<1>15. PICK p \in [0 .. n -> Snaps] : Path(p, F, b, n) /\ p[n] = g[1 .. n]
  <2>1. Folded(g, F, b, n, Snaps)
    BY <1>2, <1>13, <1>14 DEF Folded
  <2> QED BY <2>1, FoldPath
<1>16. Atomic!FoldLeft(Atomic!Do, b, q) = p[n]
  <2>1. DOMAIN q = 1 .. n
    BY <1>1
  <2> QED BY <1>10, <1>15, <2>1, DoesAreFold
<1>17. p[0] = b /\ \A i \in 1 .. n : p[i] = Atomic!Do(p[i - 1], q[i])
  <2>1. \A i \in 1 .. n : i - 1 \in 0 .. n
    OBVIOUS
  <2> QED BY <1>2, <1>15, <2>1 DEF Path
<1> QED BY <1>1, <1>16, <1>17

LEMMA CalledTyped ==
  ASSUME NEW s \in Snaps, NEW op \in Op
  PROVE  Called(s, op) \in Snaps
<1>1. op.qty \in Int /\ op.lv \in Levels /\ op.before \in Int
  BY DEF Op
<1>2. [lv |-> op.lv, before |-> op.before, delta |-> op.qty] \in Result
  BY <1>1 DEF Result
<1> QED BY <1>2, RecordedTyped, DoTyped DEF Called, Recorded

LEMMA RunExists ==
  ASSUME NEW s \in Snaps, NEW q \in Seq(Op)
  PROVE  \E p : Runs(p, s, q)
<1>1. PICK n \in Nat : n = Len(q)
  OBVIOUS
<1>2. Steps(q) \in [1 .. n -> [Snaps -> Snaps]]
      /\ \A i \in 1 .. n, u \in Snaps : Steps(q)[i][u] = Called(u, q[i])
  <2>1. \A i \in 1 .. n : q[i] \in Op
    BY <1>1
  <2> QED BY <1>1, <2>1, CalledTyped DEF Steps
<1>3. PICK F : F = Steps(q)
  OBVIOUS
<1>4. PICK p \in [0 .. n -> Snaps] : Path(p, F, s, n)
  BY <1>2, <1>3, PathExists
<1>5. \A i \in 1 .. n : i - 1 \in 0 .. n
  OBVIOUS
<1>6. Runs(p, s, q)
  BY <1>1, <1>2, <1>3, <1>4, <1>5 DEF Path, Runs
<1> QED BY <1>6

LEMMA EndsIs ==
  ASSUME NEW s \in Snaps, NEW q \in Seq(Op), NEW p, Runs(p, s, q)
  PROVE  Ends(s, q) = p[Len(q)] /\ Ends(s, q) \in Snaps
<1>1. PICK n \in Nat : n = Len(q)
  OBVIOUS
<1>2. ASSUME NEW r, Runs(r, s, q) PROVE r[n] = p[n]
  <2>1. Path(p, Steps(q), s, n) /\ Path(r, Steps(q), s, n)
    <3>1. \A i \in 1 .. n, x \in Snaps : Steps(q)[i][x] = Called(x, q[i])
      BY <1>1 DEF Steps
    <3>2. \A i \in 1 .. n : i - 1 \in 0 .. n
      OBVIOUS
    <3>3. /\ p \in [0 .. n -> Snaps] /\ p[0] = s /\ \A i \in 1 .. n : p[i] = Called(p[i - 1], q[i])
          /\ r \in [0 .. n -> Snaps] /\ r[0] = s /\ \A i \in 1 .. n : r[i] = Called(r[i - 1], q[i])
      BY <1>1, <1>2 DEF Runs
    <3> QED BY <3>1, <3>2, <3>3 DEF Path
  <2>2. PICK F : F = Steps(q)
    OBVIOUS
  <2>3. Path(p, F, s, n) /\ Path(r, F, s, n)
    BY <2>1, <2>2
  <2>4. \A i \in 0 .. n : r[i] = p[i]
    BY <2>3, PathUnique
  <2> QED BY <2>4
<1>3. p[n] \in Snaps
  BY <1>1 DEF Runs
<1> QED BY <1>1, <1>2, <1>3 DEF Ends

LEMMA EndsNothing ==
  ASSUME NEW s \in Snaps
  PROVE  Ends(s, <<>>) = s
<1>1. Runs([i \in 0 .. 0 |-> s], s, <<>>)
  BY DEF Runs
<1>2. PICK p : p = [i \in 0 .. 0 |-> s]
  OBVIOUS
<1>3. <<>> \in Seq(Op) /\ Runs(p, s, <<>>) /\ p[0] = s
  BY <1>1, <1>2
<1> QED BY <1>3, EndsIs

(* The first call, then the others.                                          *)
LEMMA EndsFirst ==
  ASSUME NEW s \in Snaps, NEW q \in Seq(Op), q # <<>>
  PROVE  Ends(s, q) = Ends(Called(s, Head(q)), Tail(q)) /\ Called(s, Head(q)) \in Snaps
<1>1. PICK r, u : r = Tail(q) /\ u = Called(s, Head(q))
  OBVIOUS
<1>2. r \in Seq(Op) /\ Len(q) = Len(r) + 1 /\ Head(q) = q[1] /\ \A i \in 1 .. Len(r) : r[i] = q[i + 1]
  BY <1>1
<1>3. u \in Snaps
  BY <1>1, CalledTyped
<1>4. PICK p : Runs(p, u, r)
  BY <1>2, <1>3, RunExists
<1>5. PICK n \in Nat : n = Len(r) /\ Len(q) = n + 1
  BY <1>2
<1> DEFINE f == [i \in 0 .. n + 1 |-> IF i = 0 THEN s ELSE p[i - 1]]
<1>6. f \in [0 .. n + 1 -> Snaps] /\ f[0] = s /\ f[n + 1] = p[n]
  <2>1. p \in [0 .. n -> Snaps]
    BY <1>4, <1>5 DEF Runs
  <2> QED BY <2>1
<1>7. ASSUME NEW i \in 1 .. n + 1 PROVE f[i] = Called(f[i - 1], q[i])
  <2>1. CASE i = 1
    BY <1>1, <1>2, <1>4, <2>1 DEF Runs
  <2>2. CASE i # 1
    <3>1. PICK j \in 1 .. n : j = i - 1
      BY <2>2
    <3>2. p[j] = Called(p[j - 1], r[j]) /\ r[j] = q[i]
      <4>1. r[j] = q[j + 1] /\ j + 1 = i
        BY <1>2, <1>5, <3>1
      <4>2. p[j] = Called(p[j - 1], r[j])
        BY <1>4, <1>5 DEF Runs
      <4> QED BY <4>1, <4>2
    <3>3. f[i] = p[j] /\ f[i - 1] = p[j - 1]
      BY <2>2, <3>1
    <3> QED BY <3>2, <3>3
  <2> QED BY <2>1, <2>2
<1> HIDE DEF f
<1>8. Runs(f, s, q)
  BY <1>5, <1>6, <1>7 DEF Runs
<1>9. Ends(s, q) = f[n + 1] /\ Ends(u, r) = p[n]
  BY <1>2, <1>3, <1>4, <1>5, <1>8, EndsIs
<1> QED BY <1>1, <1>3, <1>6, <1>9

LEMMA EndsConcat ==
  ASSUME NEW s \in Snaps, NEW q \in Seq(Op), NEW r \in Seq(Op)
  PROVE  Ends(s, q \o r) = Ends(Ends(s, q), r) /\ Ends(s, q) \in Snaps
<1>1. PICK p : Runs(p, s, q)
  BY RunExists
<1>2. PICK u \in Snaps : u = Ends(s, q) /\ u = p[Len(q)]
  BY <1>1, EndsIs
<1>3. PICK v : Runs(v, u, r)
  BY RunExists
<1>4. PICK n \in Nat, m \in Nat : n = Len(q) /\ m = Len(r)
  OBVIOUS
<1>0. PICK t : t = q \o r
  OBVIOUS
<1>5. /\ t \in Seq(Op) /\ t = q \o r /\ Len(t) = n + m
      /\ \A i \in 1 .. n + m : t[i] = IF i <= n THEN q[i] ELSE r[i - n]
  <2> DEFINE x == q \o r
  <2>1. /\ x \in Seq(Op) /\ Len(x) = Len(q) + Len(r)
        /\ \A i \in 1 .. Len(x) : x[i] = IF i <= Len(q) THEN q[i] ELSE r[i - Len(q)]
    OBVIOUS
  <2> QED BY <1>0, <1>4, <2>1
<1>6. /\ p \in [0 .. n -> Snaps] /\ p[0] = s /\ \A i \in 1 .. n : p[i] = Called(p[i - 1], q[i])
      /\ v \in [0 .. m -> Snaps] /\ v[0] = p[n] /\ \A i \in 1 .. m : v[i] = Called(v[i - 1], r[i])
  BY <1>1, <1>2, <1>3, <1>4 DEF Runs
<1> DEFINE f == [i \in 0 .. n + m |-> IF i <= n THEN p[i] ELSE v[i - n]]
<1>7. f \in [0 .. n + m -> Snaps] /\ f[0] = s /\ f[n + m] = v[m]
  BY <1>6
<1>8. ASSUME NEW i \in 1 .. n + m PROVE f[i] = Called(f[i - 1], t[i])
  <2>1. CASE i <= n
    BY <1>5, <1>6, <2>1
  <2>2. CASE i > n
    <3>1. PICK j \in 1 .. m : j = i - n
      BY <2>2
    <3>2. f[i] = v[j] /\ t[i] = r[j]
      <4>1. ~(i <= n)
        BY <2>2
      <4>2. f[i] = v[i - n]
        BY <4>1
      <4>3. t[i] = r[i - n]
        BY <1>5, <4>1
      <4> QED BY <3>1, <4>2, <4>3
    <3>3. f[i - 1] = v[j - 1]
      <4>1. CASE j = 1
        BY <1>6, <3>1, <4>1
      <4>2. CASE j # 1
        BY <3>1, <4>2
      <4> QED BY <4>1, <4>2
    <3> QED BY <1>6, <3>2, <3>3
  <2> QED BY <2>1, <2>2
<1> HIDE DEF f
<1>9. Runs(f, s, t)
  BY <1>5, <1>7, <1>8 DEF Runs
<1>10. Ends(s, t) = f[n + m]
  <2>1. t \in Seq(Op) /\ Len(t) = n + m
    BY <1>5
  <2> QED BY <1>9, <2>1, EndsIs
<1>11. Ends(u, r) = v[m]
  BY <1>3, <1>4, EndsIs
<1> QED BY <1>2, <1>5, <1>7, <1>10, <1>11

-----------------------------------------------------------------------------
(* A request, and what the engine makes of one call, as such folds.          *)

LEMMA EndsRequest ==
  ASSUME NEW s \in Snaps, NEW r \in Requests
  PROVE  Ends(s, r) = Atomic!FoldLeft(Atomic!Do, s, r)
<1>1. r \in Seq(Op) /\ \A i \in 1 .. Len(r) : r[i].kind # "result"
  BY RequestsAssumption
<1>2. PICK p \in [0 .. Len(r) -> Snaps] :
        /\ p[0] = s /\ \A i \in 1 .. Len(r) : p[i] = Atomic!Do(p[i - 1], r[i])
        /\ Atomic!FoldLeft(Atomic!Do, s, r) = p[Len(r)]
  BY <1>1, DoingPath
<1>3. Runs(p, s, r)
  BY <1>1, <1>2 DEF Runs, Called
<1> QED BY <1>1, <1>2, <1>3, EndsIs

IsPart(op) == op.kind = "mutate" /\ op.comp /\ op.key = NoKey

LEMMA PartIs ==
  ASSUME NEW s \in Snaps, NEW op \in Op, IsPart(op)
  PROVE  Called(s, op) = Atomic!Move(s, op)
<1>1. CASE ~s.ok
  <2>1. Called(s, op) = s
    BY <1>1 DEF Called, Atomic!Do, IsPart
  <2>2. Atomic!Move(s, op) = [s EXCEPT !.ok = FALSE]
    BY <1>1, MoveIs
  <2>3. s.ok = FALSE
    BY <1>1 DEF Snaps
  <2> QED BY <2>1, <2>2, <2>3 DEF Snaps
<1>2. CASE s.ok
  <2>1. Called(s, op) = Atomic!Mutate(s, op)
    BY <1>2 DEF Called, Atomic!Do, IsPart
  <2>2. Atomic!Mutate(s, op) = Atomic!Answer(Moved(s, op), op, s.stock[op.lv].onHand, Delta(op))
    BY MutateIs DEF IsPart, Consumed
  <2>3. Moved(s, op) = Atomic!Move(s, op)
    BY DEF Moved, IsPart, IsRecipeParent
  <2> QED BY <2>1, <2>2, <2>3, AnswerIs DEF IsPart
<1> QED BY <1>1, <1>2

LEMMA EndsParts ==
  ASSUME NEW s \in Snaps, NEW q \in Seq(Op), \A i \in 1 .. Len(q) : IsPart(q[i])
  PROVE  Ends(s, q) = Atomic!FoldLeft(Atomic!Move, s, q)
<1>1. PICK p \in [0 .. Len(q) -> Snaps] :
        /\ p[0] = s /\ \A i \in 1 .. Len(q) : p[i] = Atomic!Move(p[i - 1], q[i])
        /\ Atomic!FoldLeft(Atomic!Move, s, q) = p[Len(q)]
  BY MovingPath
<1>2. ASSUME NEW i \in 1 .. Len(q) PROVE p[i] = Called(p[i - 1], q[i])
  <2>1. p[i - 1] \in Snaps /\ q[i] \in Op /\ IsPart(q[i])
    <3>1. i - 1 \in 0 .. Len(q)
      OBVIOUS
    <3> QED BY <1>1, <3>1
  <2> QED BY <1>1, <2>1, PartIs
<1>3. Runs(p, s, q)
  BY <1>1, <1>2 DEF Runs
<1> QED BY <1>1, <1>3, EndsIs

PartsOf(op) ==
  IF ~op.comp /\ op.qty < 0 THEN ConsumeComponents(op.lv, -op.qty) ELSE <<>>

LEMMA EndsConsumed ==
  ASSUME NEW s \in Snaps, NEW op \in Op
  PROVE  PartsOf(op) \in Seq(Op) /\ Ends(s, PartsOf(op)) = Consumed(s, op)
<1>1. op.qty \in Int /\ op.lv \in Levels /\ -op.qty \in Int
  BY DEF Op
<1>2. CASE ~op.comp /\ op.qty < 0
  <2>1. PICK q : q = ConsumeComponents(op.lv, -op.qty)
    OBVIOUS
  <2>2. q \in Seq(Op)
    BY <1>1, <2>1, ConsumeTyped
  <2>3. \A i \in 1 .. Len(q) : IsPart(q[i])
    <3>1. q = [i \in 1 .. Len(Lines[op.lv]) |->
                 [kind |-> "mutate", lv |-> Lines[op.lv][i].lv, qty |-> (-(-op.qty)) * Lines[op.lv][i].qty,
                  dmg |-> 0, key |-> NoKey, neg |-> FALSE, comp |-> TRUE, before |-> 0]]
      BY <2>1 DEF ConsumeComponents, ComponentOps
    <3>2. DOMAIN q = 1 .. Len(q)
      BY <2>2
    <3> QED BY <3>1, <3>2 DEF IsPart
  <2>4. Ends(s, q) = Atomic!FoldLeft(Atomic!Move, s, q)
    BY <2>2, <2>3, EndsParts
  <2> QED BY <1>2, <2>1, <2>2, <2>4 DEF PartsOf, Consumed
<1>3. CASE ~(~op.comp /\ op.qty < 0)
  BY <1>3, EndsNothing DEF PartsOf, Consumed
<1> QED BY <1>2, <1>3

LEMMA EndsAnswer ==
  ASSUME NEW s \in Snaps, NEW op \in Op, NEW before \in Int, NEW delta \in Int
  PROVE  /\ ResultOp(op, before, delta) \in Seq(Op)
         /\ Ends(s, ResultOp(op, before, delta)) = Atomic!Answer(s, op, before, delta)
<1>1. CASE op.key = NoKey
  <2>1. ResultOp(op, before, delta) = <<>>
    BY <1>1 DEF ResultOp
  <2>2. Atomic!Answer(s, op, before, delta) = s
    BY <1>1, AnswerIs
  <2>3. <<>> \in Seq(Op) /\ Ends(s, <<>>) = s
    BY EndsNothing
  <2> QED BY <2>1, <2>2, <2>3
<1>2. CASE op.key # NoKey
  <2>1. PICK o : o = [op EXCEPT !.kind = "result", !.qty = delta, !.before = before]
    OBVIOUS
  <2>2. o \in Op /\ o.kind = "result" /\ o.key = op.key /\ o.lv = op.lv /\ o.before = before /\ o.qty = delta
    BY <2>1 DEF Op
  <2>3. ResultOp(op, before, delta) = <<o>>
    BY <1>2, <2>1 DEF ResultOp
  <2>4. <<o>> \in Seq(Op) /\ <<o>> # <<>> /\ Head(<<o>>) = o /\ Tail(<<o>>) = <<>>
    BY <2>2
  <2>5. Called(s, o) \in Snaps
    BY <2>2, CalledTyped
  <2>6. Ends(s, <<o>>) = Called(s, o)
    BY <2>4, <2>5, EndsFirst, EndsNothing
  <2>7. Called(s, o) = Atomic!Answer(s, op, before, delta)
    BY <1>2, <2>2, AnswerIs DEF Called, Recorded
  <2> QED BY <2>3, <2>4, <2>6, <2>7
<1> QED BY <1>1, <1>2

(* One call is its movement, its components and the record of its result.    *)
LEMMA EndsUnfolded ==
  ASSUME NEW s \in Snaps, s.ok, NEW op \in Op, op.kind = "mutate", NEW rest \in Seq(Op),
         op.key # NoKey => s.answers[op.key].st # "done"
  PROVE  Ends(Called(s, op), rest) =
           Ends(Moved(s, op), PartsOf(op) \o ResultOp(op, s.stock[op.lv].onHand, Delta(op)) \o rest)
<1>1. s.stock[op.lv].onHand \in Int /\ Delta(op) \in Int
  BY DEF Op, Snaps, LevelRow, Delta
<1>2. PICK m, before, delta : m = Moved(s, op) /\ before = s.stock[op.lv].onHand /\ delta = Delta(op)
  OBVIOUS
<1>3. m \in Snaps /\ before \in Int /\ delta \in Int
  BY <1>1, <1>2, MoveTypedSnap DEF Moved
<1>4. Called(s, op) = Atomic!Answer(Consumed(m, op), op, before, delta)
  BY <1>2, MutateIs DEF Called, Atomic!Do
<1>5. PICK a, b : a = PartsOf(op) /\ b = ResultOp(op, before, delta)
  OBVIOUS
<1>6. a \in Seq(Op) /\ b \in Seq(Op) /\ a \o b \in Seq(Op)
  BY <1>3, <1>5, EndsConsumed, EndsAnswer
<1>7. PICK u : u = Ends(m, a)
  OBVIOUS
<1>8. u = Consumed(m, op) /\ u \in Snaps /\ Ends(m, a \o b) = Ends(u, b)
  BY <1>3, <1>5, <1>6, <1>7, EndsConsumed, EndsConcat
<1>9. Ends(u, b) = Called(s, op)
  BY <1>3, <1>4, <1>5, <1>8, EndsAnswer
<1>10. Ends(m, a \o b \o rest) = Ends(Ends(m, a \o b), rest)
  BY <1>3, <1>6, EndsConcat
<1> QED BY <1>2, <1>5, <1>8, <1>9, <1>10

-----------------------------------------------------------------------------
(* A session works on a stock of its own: the rows it has locked or written, *)
(* in a state s that has the committed rows where it can see them.  Whatever *)
(* s is, to run what the session has left to do takes that stock where the   *)
(* whole request takes s.  When the session commits, s is the committed      *)
(* stock and nothing is left to do.                                          *)

View(w, s) ==
  [stock |-> [l \in Levels |-> IF lock[l] = w THEN level[l] ELSE s.stock[l]],
   answers |-> [k \in Keys |-> IF rowOwner[k] = w /\ row[k] # PendingRow
                               THEN row[k] ELSE s.answers[k]],
   ok |-> TRUE]

Agrees(w, s) ==
  /\ s \in Snaps /\ s.ok
  /\ \A l \in Levels : lock[l] = w => s.stock[l] = dbLevel[l]
  /\ \A k \in Keys : rowOwner[k] = w \/ dbRow[k] # NoRow => s.answers[k] = dbRow[k]

Serves(w, r) ==
  \A s \in Snaps : Agrees(w, s) => Ends(View(w, s), tx[w].todo) = Ends(s, r)

HoldsNothing(w) ==
  (\A l \in Levels : lock[l] # w) /\ (\A k \in Keys : rowOwner[k] # w)

Goes(w, r) == IF tx[w].pc = "idle" THEN HoldsNothing(w) ELSE Serves(w, r)

Serial ==
  \A w \in Workers :
    IF tx[w].pc = "idle" THEN HoldsNothing(w) ELSE \E r \in Requests : Serves(w, r)

(* What a step of another session leaves alone ... *)
Stays(w) ==
  /\ tx'[w] = tx[w]
  /\ \A l \in Levels :
       /\ lock'[l] = w <=> lock[l] = w
       /\ lock[l] = w => level'[l] = level[l] /\ dbLevel'[l] = dbLevel[l]
  /\ \A k \in Keys :
       /\ rowOwner'[k] = w <=> rowOwner[k] = w
       /\ rowOwner[k] = w => row'[k] = row[k] /\ dbRow'[k] = dbRow[k]
       /\ dbRow[k] # NoRow => dbRow'[k] = dbRow[k]

(* ... and one's own step keeps until the end. *)
Keeps(w) ==
  /\ UNCHANGED <<dbLevel, dbRow>>
  /\ \A l \in Levels : lock[l] = w => lock'[l] = w
  /\ \A k \in Keys : rowOwner[k] = w => rowOwner'[k] = w

LEMMA ViewTyped ==
  ASSUME TypeOK, NEW w \in Workers, NEW s \in Snaps
  PROVE  View(w, s) \in Snaps /\ View(w, s).ok
BY DEF View, Snaps, TypeOK

LEMMA StaysServed ==
  ASSUME NEW w \in Workers, NEW r \in Requests, Stays(w), Serves(w, r)
  PROVE  Serves(w, r)'
<1> SUFFICES ASSUME NEW s \in Snaps, Agrees(w, s)'
             PROVE  Ends(View(w, s)', tx'[w].todo) = Ends(s, r)
  BY DEF Serves
<1>1. Agrees(w, s)
  BY DEF Agrees, Stays
<1>2. View(w, s)' = View(w, s)
  BY DEF View, Stays
<1>3. tx'[w].todo = tx[w].todo
  BY DEF Stays
<1> QED BY <1>1, <1>2, <1>3 DEF Serves

LEMMA StepServed ==
  ASSUME NEW w \in Workers, NEW r \in Requests, Keeps(w), Serves(w, r),
         \A s \in Snaps : Agrees(w, s) /\ Agrees(w, s)' =>
           Ends(View(w, s)', tx'[w].todo) = Ends(View(w, s), tx[w].todo)
  PROVE  Serves(w, r)'
<1> SUFFICES ASSUME NEW s \in Snaps, Agrees(w, s)'
             PROVE  Ends(View(w, s)', tx'[w].todo) = Ends(s, r)
  BY DEF Serves
<1>1. Agrees(w, s)
  BY DEF Agrees, Keeps
<1> QED BY <1>1 DEF Serves

-----------------------------------------------------------------------------
(* The steps of a session. *)

LEMMA BeginServed ==
  ASSUME NEW w \in Workers, NEW r \in Requests, HoldsNothing(w), TypeOK,
         tx' = [tx EXCEPT ![w] = Run(r)],
         UNCHANGED <<level, dbLevel, lock, row, dbRow, rowOwner>>
  PROVE  Serves(w, r)' /\ tx'[w].pc # "idle"
<1>1. r \in Seq(Op)
  BY RequestsAssumption
<1>2. tx'[w].todo = r /\ tx'[w].pc # "idle"
  <2>1. tx'[w] = Run(r)
    BY DEF TypeOK
  <2> QED BY <1>1, <2>1, RunFine
<1>3. ASSUME NEW s \in Snaps, Agrees(w, s)' PROVE View(w, s)' = s
  <2>1. View(w, s)' = [stock |-> [l \in Levels |-> s.stock[l]],
                       answers |-> [k \in Keys |-> s.answers[k]], ok |-> TRUE]
    BY DEF HoldsNothing, View
  <2>2. s.ok = TRUE
    BY <1>3 DEF Agrees, Snaps
  <2> QED BY <2>1, <2>2 DEF Snaps
<1>4. Serves(w, r)'
  BY <1>2, <1>3 DEF Serves
<1> QED BY <1>2, <1>4

LEMMA RollbackServed ==
  ASSUME TypeOK, NEW w \in Workers, Rollback(w), NEW r
  PROVE  Goes(w, r)'
<1>1. tx'[w].pc = "idle"
  BY DEF Rollback, TypeOK, Idle
<1>2. /\ \A l \in Levels : lock'[l] = IF lock[l] = w THEN NoWorker ELSE lock[l]
      /\ \A k \in Keys : rowOwner'[k] = IF rowOwner[k] = w THEN NoWorker ELSE rowOwner[k]
  BY DEF Rollback
<1>3. HoldsNothing(w)'
  BY <1>2, SessionsAssumption DEF HoldsNothing
<1> QED BY <1>1, <1>3 DEF Goes

LEMMA CommitHoldsNothing ==
  ASSUME TypeOK, NEW w \in Workers, Commit(w), NEW r
  PROVE  Goes(w, r)'
<1>1. tx'[w].pc = "idle"
  BY DEF Commit, TypeOK, Idle
<1>2. /\ \A l \in Levels : lock'[l] = IF lock[l] = w THEN NoWorker ELSE lock[l]
      /\ \A k \in Keys : rowOwner'[k] = IF rowOwner[k] = w THEN NoWorker ELSE rowOwner[k]
  BY DEF Commit
<1>3. HoldsNothing(w)'
  BY <1>2, SessionsAssumption DEF HoldsNothing
<1> QED BY <1>1, <1>3 DEF Goes

(* The call returns, having done to the view what the call does. *)
LEMMA ReturnServed ==
  ASSUME TypeOK, CallsOK, NEW w \in Workers, tx[w].pc \notin {"idle", "commit"},
         Return(w), Keeps(w), NEW r \in Requests, Serves(w, r),
         \A s \in Snaps : Agrees(w, s) /\ Agrees(w, s)' =>
           View(w, s)' = Called(View(w, s), Call(w))
  PROVE  Goes(w, r)'
<1>1. tx[w].todo \in Seq(Op) /\ tx[w].todo # <<>> /\ Tail(tx[w].todo) \in Seq(Op)
  BY CallTyped
<1>2. tx'[w].todo = Tail(tx[w].todo) /\ tx'[w].pc # "idle"
  <2>1. PICK rest \in Seq(Op) : rest = Tail(tx[w].todo)
    BY <1>1
  <2>2. tx'[w] = Run(rest)
    BY <2>1 DEF TypeOK, Return
  <2>3. Run(rest).todo = rest /\ Run(rest).pc # "idle"
    BY RunFine
  <2> QED BY <2>1, <2>2, <2>3
<1>3. ASSUME NEW s \in Snaps, Agrees(w, s), Agrees(w, s)'
      PROVE  Ends(View(w, s)', tx'[w].todo) = Ends(View(w, s), tx[w].todo)
  <2>1. View(w, s) \in Snaps
    BY ViewTyped
  <2>2. Ends(View(w, s), tx[w].todo) = Ends(Called(View(w, s), Call(w)), Tail(tx[w].todo))
    BY <1>1, <2>1, EndsFirst DEF Call
  <2> QED BY <1>2, <1>3, <2>2
<1>4. Serves(w, r)'
  BY <1>3, StepServed
<1> QED BY <1>2, <1>4 DEF Goes

(* A statement that changes nothing the session sees. *)
LEMMA AdvanceServed ==
  ASSUME TypeOK, NEW w \in Workers, NEW pc, pc # "idle", tx' = [tx EXCEPT ![w].pc = pc],
         Keeps(w), NEW r \in Requests, Serves(w, r),
         \A s \in Snaps : Agrees(w, s) /\ Agrees(w, s)' => View(w, s)' = View(w, s)
  PROVE  Goes(w, r)'
<1>1. tx'[w].todo = tx[w].todo /\ tx'[w].pc # "idle"
  BY DEF TypeOK
<1>2. Serves(w, r)'
  BY <1>1, StepServed
<1> QED BY <1>1, <1>2 DEF Goes

LEMMA ReplayServed ==
  ASSUME TypeOK, CallsOK, NEW w \in Workers, tx[w].pc \in {"find", "insert"},
         NEW a, Replay(w, a), NEW r \in Requests, Serves(w, r),
         a.st = "done" => \A s \in Snaps : Agrees(w, s) => View(w, s).answers[Call(w).key] = a
  PROVE  Goes(w, r)'
<1>1. CASE a.st = "done"
  <2>1. Return(w) /\ UNCHANGED <<level, dbLevel, lock, row, dbRow, rowOwner>>
    BY <1>1 DEF Replay
  <2>2. Keeps(w)
    BY <2>1 DEF Keeps
  <2>3. Call(w).kind = "mutate" /\ Call(w).key # NoKey
    BY DEF CallsOK
  <2>4. ASSUME NEW s \in Snaps, Agrees(w, s)
        PROVE  View(w, s)' = Called(View(w, s), Call(w))
    <3>1. View(w, s)' = View(w, s)
      BY <2>1 DEF View
    <3>2. Atomic!Mutate(View(w, s), Call(w)) = View(w, s)
      BY <1>1, <2>3, <2>4, MutateIs
    <3>3. Called(View(w, s), Call(w)) = View(w, s)
      BY <2>3, <3>2 DEF Called, Atomic!Do
    <3> QED BY <3>1, <3>3
  <2> QED BY <2>1, <2>2, <2>4, ReturnServed
<1>2. CASE a.st # "done"
  BY <1>2, RollbackServed DEF Replay
<1> QED BY <1>1, <1>2

(* findUnique shows the row that the request alone would find. *)
LEMMA SeenAnswer ==
  ASSUME IInv, NEW w \in Workers, NEW k \in Keys, NEW s \in Snaps, Agrees(w, s),
         VisibleRow(w, k).st = "done"
  PROVE  View(w, s).answers[k] = VisibleRow(w, k)
<1>1. TypeOK /\ RowsOwned
  BY DEF IInv, LocksOK
<1>2. View(w, s).answers[k] = IF rowOwner[k] = w /\ row[k] # PendingRow
                              THEN row[k] ELSE s.answers[k]
  BY DEF View
<1>3. CASE rowOwner[k] = w
  <2>1. row[k] # PendingRow /\ VisibleRow(w, k) = row[k]
    BY <1>1, <1>3, KeyRowFacts DEF VisibleRow, TypeOK
  <2> QED BY <1>2, <1>3, <2>1
<1>4. CASE rowOwner[k] # w
  <2>1. VisibleRow(w, k) = dbRow[k]
    BY <1>4 DEF VisibleRow
  <2>2. dbRow[k] # NoRow
    BY <2>1, KeyRowFacts DEF NoRow
  <2> QED BY <1>2, <1>4, <2>1, <2>2 DEF Agrees
<1> QED BY <1>3, <1>4

LEMMA FindKeyServed ==
  ASSUME IInv, NEW w \in Workers, FindKey(w), NEW r \in Requests, Serves(w, r)
  PROVE  Goes(w, r)'
<1>0. TypeOK /\ CallsOK /\ tx[w].pc = "find"
  BY DEF IInv, FindKey
<1>1. CASE /\ tx' = [tx EXCEPT ![w].pc = "insert"]
           /\ UNCHANGED <<level, dbLevel, lock, row, dbRow, rowOwner, begun>>
  <2>1. Keeps(w) /\ \A s \in Snaps : View(w, s)' = View(w, s)
    BY <1>1 DEF Keeps, View
  <2> QED BY <1>0, <1>1, <2>1, AdvanceServed
<1>2. CASE Replay(w, VisibleRow(w, Call(w).key))
  <2>1. Call(w).key \in Keys
    BY <1>0, CallTyped DEF CallsOK
  <2>2. PICK a : a = VisibleRow(w, Call(w).key)
    OBVIOUS
  <2>3. a.st = "done" => \A s \in Snaps : Agrees(w, s) => View(w, s).answers[Call(w).key] = a
    BY <2>1, <2>2, SeenAnswer
  <2>4. Replay(w, a)
    BY <1>2, <2>2
  <2> QED BY <1>0, <2>3, <2>4, ReplayServed
<1> QED BY <1>1, <1>2 DEF FindKey

LEMMA InsertKeyServed ==
  ASSUME IInv, NEW w \in Workers, InsertKey(w), NEW r \in Requests, Serves(w, r)
  PROVE  Goes(w, r)'
<1>0. TypeOK /\ CallsOK /\ RowsOwned /\ tx[w].pc = "insert"
  BY DEF IInv, InsertKey, LocksOK
<1>1. PICK k \in Keys : k = Call(w).key
  BY <1>0, CallTyped DEF CallsOK
<1>2. rowOwner[k] \in {NoWorker, w} /\ row[k] \in KeyRow
  BY <1>0, <1>1 DEF InsertKey, CanInsert, TypeOK
<1>3. CASE /\ row[k].st = "none"
           /\ row' = [row EXCEPT ![k] = PendingRow]
           /\ rowOwner' = [rowOwner EXCEPT ![k] = w]
           /\ tx' = [tx EXCEPT ![w].pc = "lock"]
           /\ UNCHANGED <<level, dbLevel, lock, dbRow, begun>>
  <2>1. row[k] = NoRow
    BY <1>2, <1>3, KeyRowFacts
  <2>2. rowOwner[k] # w
    BY <1>0, <2>1, SessionsAssumption DEF RowsOwned
  <2>3. \A j \in Keys : row'[j] = IF j = k THEN PendingRow ELSE row[j]
    BY <1>0, <1>3 DEF TypeOK
  <2>4. \A j \in Keys : rowOwner'[j] = IF j = k THEN w ELSE rowOwner[j]
    BY <1>0, <1>3 DEF TypeOK
  <2>5. Keeps(w)
    BY <1>3, <2>4 DEF Keeps
  <2>6. ASSUME NEW s \in Snaps PROVE View(w, s)' = View(w, s)
    <3>1. \A j \in Keys : (IF rowOwner'[j] = w /\ row'[j] # PendingRow THEN row'[j] ELSE s.answers[j])
            = (IF rowOwner[j] = w /\ row[j] # PendingRow THEN row[j] ELSE s.answers[j])
      BY <2>2, <2>3, <2>4
    <3> QED BY <1>3, <3>1 DEF View
  <2> QED BY <1>0, <1>3, <2>5, <2>6, AdvanceServed
<1>4. CASE Replay(w, row[k])
  <2>1. PICK a : a = row[k]
    OBVIOUS
  <2>2. a.st = "done" => VisibleRow(w, k) = a
    BY <1>0, <1>2, <2>1 DEF VisibleRow, RowsOwned
  <2>3. a.st = "done" => \A s \in Snaps : Agrees(w, s) => View(w, s).answers[Call(w).key] = a
    BY <1>1, <2>2, SeenAnswer
  <2>4. Replay(w, a)
    BY <1>4, <2>1
  <2> QED BY <1>0, <2>3, <2>4, ReplayServed
<1>5. \/ /\ row[k].st = "none"
         /\ row' = [row EXCEPT ![k] = PendingRow]
         /\ rowOwner' = [rowOwner EXCEPT ![k] = w]
         /\ tx' = [tx EXCEPT ![w].pc = "lock"]
         /\ UNCHANGED <<level, dbLevel, lock, dbRow, begun>>
      \/ row[k].st # "none" /\ Replay(w, row[k])
  BY <1>1 DEF InsertKey
<1> QED BY <1>3, <1>4, <1>5

(* A level that a session locks is the committed one. *)
LEMMA LockLevelServed ==
  ASSUME IInv, NEW w \in Workers, LockLevel(w), NEW r \in Requests, Serves(w, r)
  PROVE  Goes(w, r)'
<1>0. TypeOK /\ CallsOK /\ UnlockedSame /\ tx[w].pc = "lock"
  BY DEF IInv, LockLevel, LocksOK
<1>1. PICK l \in Levels : l = Call(w).lv
  BY <1>0, CallTyped
<1>2. /\ lock[l] \in {NoWorker, w} /\ lock' = [lock EXCEPT ![l] = w]
      /\ tx' = [tx EXCEPT ![w].pc = "apply"]
      /\ UNCHANGED <<level, dbLevel, row, dbRow, rowOwner>>
  BY <1>1 DEF LockLevel, CanLock
<1>3. \A m \in Levels : lock'[m] = IF m = l THEN w ELSE lock[m]
  BY <1>0, <1>2 DEF TypeOK
<1>4. Keeps(w)
  BY <1>2, <1>3 DEF Keeps
<1>5. ASSUME NEW s \in Snaps, Agrees(w, s)' PROVE View(w, s)' = View(w, s)
  <2>1. s.stock[l] = dbLevel[l]
    BY <1>2, <1>3, <1>5 DEF Agrees
  <2>2. lock[l] # w => level[l] = s.stock[l]
    BY <1>0, <1>2, <2>1 DEF UnlockedSame
  <2>3. \A m \in Levels : (IF lock'[m] = w THEN level'[m] ELSE s.stock[m])
                          = (IF lock[m] = w THEN level[m] ELSE s.stock[m])
    BY <1>2, <1>3, <2>2
  <2> QED BY <1>2, <2>3 DEF View
<1> QED BY <1>0, <1>2, <1>4, <1>5, AdvanceServed

(* The record that is still missing is missing from the committed rows too. *)
LEMMA NotAnswered ==
  ASSUME IInv, NothingPromised, NEW w \in Workers, tx[w].pc = "apply",
         NEW s \in Snaps, Agrees(w, s), Call(w).key # NoKey
  PROVE  View(w, s).answers[Call(w).key].st # "done"
<1>0. TypeOK /\ CallsOK /\ RowsOwned /\ OwersOwn
  BY DEF IInv, LocksOK, KeysOK
<1>1. PICK k \in Keys : k = Call(w).key
  BY <1>0, CallTyped
<1>2. row[k] = PendingRow
  BY <1>1 DEF NothingPromised
<1>3. rowOwner[k] = w
  BY <1>0, <1>1 DEF OwersOwn, Owes
<1>4. dbRow[k] = NoRow
  BY <1>0, <1>3, SessionsAssumption DEF RowsOwned
<1>5. View(w, s).answers[k] = NoRow
  BY <1>2, <1>3, <1>4 DEF View, Agrees
<1> QED BY <1>1, <1>5 DEF NoRow

(* A call moves its level and leaves its components and its record to do. *)
LEMMA GoOnServed ==
  ASSUME IInv, NothingPromised, NEW w \in Workers, tx[w].pc = "apply", Keeps(w),
         GoOn(w, Delta(Call(w))), NEW r \in Requests, Serves(w, r),
         \A s \in Snaps : Agrees(w, s) /\ Agrees(w, s)' =>
           View(w, s)' = Moved(View(w, s), Call(w))
  PROVE  Goes(w, r)'
<1>0. TypeOK /\ CallsOK /\ ApplyLocked
  BY DEF IInv, LocksOK
<1>1. PICK op \in Op, rest \in Seq(Op) :
        /\ op = Call(w) /\ rest = Tail(tx[w].todo) /\ op.kind = "mutate" /\ op.lv \in Levels
        /\ tx[w].todo \in Seq(Op) /\ tx[w].todo # <<>>
  BY <1>0, CallTyped DEF CallsOK
<1>2. PICK d \in Int : d = Delta(op)
  BY <1>0, <1>1, CallTyped DEF Delta
<1>3. PICK todo \in Seq(Op) : todo = Parts(w) \o Res(w, d) \o rest
  BY <1>0, <1>1, <1>2, MutationTodo
<1>4. tx'[w].todo = todo /\ tx'[w].pc # "idle"
  <2>1. tx'[w] = Run(todo)
    BY <1>0, <1>1, <1>2, <1>3 DEF GoOn, TypeOK
  <2> QED BY <2>1, RunFine
<1>5. ASSUME NEW s \in Snaps, Agrees(w, s), Agrees(w, s)'
      PROVE  Ends(View(w, s)', tx'[w].todo) = Ends(View(w, s), tx[w].todo)
  <2>1. PICK v \in Snaps : v = View(w, s) /\ v.ok
    BY <1>0, ViewTyped
  <2>2. v.stock[op.lv] = level[op.lv]
    BY <1>0, <1>1, <2>1 DEF View, ApplyLocked
  <2>3. Parts(w) = PartsOf(op) /\ Res(w, d) = ResultOp(op, v.stock[op.lv].onHand, Delta(op))
    BY <1>1, <1>2, <2>2 DEF Parts, PartsOf, Res
  <2>4. op.key # NoKey => v.answers[op.key].st # "done"
    BY <1>1, <1>5, <2>1, NotAnswered
  <2>5. Ends(Called(v, op), rest) = Ends(Moved(v, op), todo)
    <3>1. Ends(Called(v, op), rest) =
            Ends(Moved(v, op), PartsOf(op) \o ResultOp(op, v.stock[op.lv].onHand, Delta(op)) \o rest)
      BY <1>1, <2>1, <2>4, EndsUnfolded
    <3> QED BY <1>3, <2>3, <3>1
  <2>6. Ends(v, tx[w].todo) = Ends(Called(v, op), rest)
    BY <1>1, <2>1, EndsFirst DEF Call
  <2>7. View(w, s)' = Moved(v, op)
    BY <1>1, <1>5, <2>1
  <2> QED BY <1>4, <2>1, <2>5, <2>6, <2>7
<1>6. Serves(w, r)'
  BY <1>5, StepServed
<1> QED BY <1>4, <1>6 DEF Goes

LEMMA StockExcept ==
  ASSUME NEW v \in Snaps, NEW l \in Levels, NEW m
  PROVE  [v EXCEPT !.stock[l] = m] =
           [stock |-> [v.stock EXCEPT ![l] = m], answers |-> v.answers, ok |-> v.ok]
<1>1. PICK a, b, c : v = [stock |-> a, answers |-> b, ok |-> c]
  BY DEF Snaps
<1>2. v.stock = a /\ v.answers = b /\ v.ok = c
  BY <1>1
<1>3. [v EXCEPT !.stock[l] = m] = [stock |-> [a EXCEPT ![l] = m], answers |-> b, ok |-> c]
  BY <1>1
<1> QED BY <1>2, <1>3

LEMMA StockWritten ==
  ASSUME NEW v \in Snaps, NEW l \in Levels, NEW m
  PROVE  [v EXCEPT !.stock[l] = m] =
           [stock |-> [n \in Levels |-> IF n = l THEN m ELSE v.stock[n]],
            answers |-> v.answers, ok |-> v.ok]
<1>1. v.stock \in [Levels -> LevelRow]
  BY DEF Snaps
<1>2. [v.stock EXCEPT ![l] = m] = [n \in Levels |-> IF n = l THEN m ELSE v.stock[n]]
  BY <1>1
<1> QED BY <1>1, <1>2, StockExcept

LEMMA AnswersExcept ==
  ASSUME NEW v \in Snaps, NEW k \in Keys, NEW e
  PROVE  [v EXCEPT !.answers[k] = e] =
           [stock |-> v.stock, answers |-> [v.answers EXCEPT ![k] = e], ok |-> v.ok]
<1>1. PICK a, b, c : v = [stock |-> a, answers |-> b, ok |-> c]
  BY DEF Snaps
<1>2. v.stock = a /\ v.answers = b /\ v.ok = c
  BY <1>1
<1>3. [v EXCEPT !.answers[k] = e] = [stock |-> a, answers |-> [b EXCEPT ![k] = e], ok |-> c]
  BY <1>1
<1> QED BY <1>2, <1>3

LEMMA AnswersWritten ==
  ASSUME NEW v \in Snaps, NEW k \in Keys, NEW e
  PROVE  [v EXCEPT !.answers[k] = e] =
           [stock |-> v.stock,
            answers |-> [j \in Keys |-> IF j = k THEN e ELSE v.answers[j]], ok |-> v.ok]
<1>1. v.answers \in [Keys -> KeyRow]
  BY DEF Snaps
<1>2. [v.answers EXCEPT ![k] = e] = [j \in Keys |-> IF j = k THEN e ELSE v.answers[j]]
  BY <1>1
<1> QED BY <1>1, <1>2, AnswersExcept

LEMMA ApplyServed ==
  ASSUME IInv, NothingPromised, NEW w \in Workers, ApplyRecipe(w) \/ ApplyLevel(w),
         NEW r \in Requests, Serves(w, r)
  PROVE  Goes(w, r)'
<1>0. TypeOK /\ CallsOK /\ ApplyLocked /\ tx[w].pc = "apply"
  BY DEF IInv, LocksOK, ApplyRecipe, ApplyLevel
<1>1. PICK op \in Op, l \in Levels : op = Call(w) /\ l = op.lv /\ lock[l] = w
  BY <1>0, CallTyped DEF ApplyLocked
<1>2. CASE ApplyRecipe(w)
  <2>1. IsRecipeParent(op) /\ GoOn(w, Delta(Call(w)))
    BY <1>1, <1>2 DEF ApplyRecipe, Delta
  <2>2. UNCHANGED <<level, dbLevel, lock, row, dbRow, rowOwner>>
    BY <1>2 DEF ApplyRecipe
  <2>3. Keeps(w) /\ \A s \in Snaps : View(w, s)' = Moved(View(w, s), Call(w))
    BY <1>1, <2>1, <2>2 DEF Keeps, View, Moved
  <2> QED BY <1>0, <2>1, <2>3, GoOnServed
<1>3. CASE ApplyLevel(w)
  <2>1. ~IsRecipeParent(op) /\ GoOn(w, Delta(Call(w)))
    BY <1>1, <1>3 DEF ApplyLevel, Delta
  <2>2. /\ Allowed(op, level[l]) /\ level' = [level EXCEPT ![l] = Mutated(op, level[l])]
        /\ UNCHANGED <<dbLevel, lock, row, dbRow, rowOwner>>
    BY <1>1, <1>3 DEF ApplyLevel
  <2>3. Keeps(w)
    BY <2>2 DEF Keeps
  <2>4. ASSUME NEW s \in Snaps PROVE View(w, s)' = Moved(View(w, s), Call(w))
    <3>1. PICK v \in Snaps : v = View(w, s) /\ v.ok
      BY <1>0, ViewTyped
    <3>2. v.stock[l] = level[l]
      BY <1>1, <3>1 DEF View
    <3>3. PICK m : m = Mutated(op, level[l])
      OBVIOUS
    <3>4. Moved(v, op) = [v EXCEPT !.stock[l] = m]
      BY <1>1, <2>1, <2>2, <3>1, <3>2, <3>3, MoveIs DEF Moved
    <3>5. \A n \in Levels : level'[n] = IF n = l THEN m ELSE level[n]
      BY <1>0, <2>2, <3>3 DEF TypeOK
    <3>6. View(w, s)' = [v EXCEPT !.stock[l] = m]
      <4>1. \A n \in Levels : (IF lock'[n] = w THEN level'[n] ELSE s.stock[n])
                              = (IF n = l THEN m ELSE v.stock[n])
        BY <1>1, <2>2, <3>1, <3>5 DEF View
      <4>2. View(w, s)' = [stock |-> [n \in Levels |-> IF n = l THEN m ELSE v.stock[n]],
                           answers |-> v.answers, ok |-> v.ok]
        <5>1. View(w, s)' =
                [stock |-> [n \in Levels |-> IF lock'[n] = w THEN level'[n] ELSE s.stock[n]],
                 answers |-> [k \in Keys |-> IF rowOwner[k] = w /\ row[k] # PendingRow
                                             THEN row[k] ELSE s.answers[k]], ok |-> v.ok]
          BY <2>2, <3>1 DEF View
        <5>2. v.answers = [k \in Keys |-> IF rowOwner[k] = w /\ row[k] # PendingRow
                                          THEN row[k] ELSE s.answers[k]]
          BY <3>1 DEF View
        <5>3. [n \in Levels |-> IF lock'[n] = w THEN level'[n] ELSE s.stock[n]]
                = [n \in Levels |-> IF n = l THEN m ELSE v.stock[n]]
          BY <4>1
        <5> QED BY <5>1, <5>2, <5>3
      <4> QED BY <1>1, <3>1, <4>2, StockWritten
    <3> QED BY <1>1, <3>1, <3>4, <3>6
  <2> QED BY <1>0, <2>1, <2>3, <2>4, GoOnServed
<1> QED BY <1>2, <1>3

LEMMA SaveResultServed ==
  ASSUME IInv, NEW w \in Workers, SaveResult(w), NEW r \in Requests, Serves(w, r)
  PROVE  Goes(w, r)'
<1>0. TypeOK /\ CallsOK /\ OwersOwn /\ tx[w].pc = "result" /\ Return(w)
  BY DEF IInv, KeysOK, SaveResult
<1>1. PICK op \in Op : op = Call(w) /\ op.kind = "result" /\ op \in Ops(tx[w].todo) /\ op.key \in Keys
  <2>1. Call(w) \in Op /\ Call(w).kind = "result" /\ Call(w) \in Ops(tx[w].todo)
        /\ Call(w).key \in Keys \cup {NoKey} /\ OpFine(Call(w))
    BY <1>0, CallTyped DEF CallsOK
  <2> QED BY <2>1 DEF OpFine
<1>2. PICK k \in Keys : k = op.key
  BY <1>1
<1>3. rowOwner[k] = w
  BY <1>0, <1>1, <1>2 DEF OwersOwn, Owes
<1>4. PICK a : a = DoneRow([lv |-> op.lv, before |-> op.before, delta |-> op.qty])
  OBVIOUS
<1>5. a # PendingRow
  BY <1>4 DEF DoneRow, PendingRow
<1>6. \A j \in Keys : row'[j] = IF j = k THEN a ELSE row[j]
  BY <1>0, <1>1, <1>2, <1>4 DEF SaveResult, TypeOK
<1>7. UNCHANGED <<level, dbLevel, lock, dbRow, rowOwner>>
  BY DEF SaveResult
<1>8. Keeps(w)
  BY <1>7 DEF Keeps
<1>9. ASSUME NEW s \in Snaps PROVE View(w, s)' = Called(View(w, s), Call(w))
  <2>1. PICK v \in Snaps : v = View(w, s) /\ v.ok
    BY <1>0, ViewTyped
  <2>2. Called(v, op) = [v EXCEPT !.answers[k] = a]
    BY <1>1, <1>2, <1>4 DEF Called, Recorded
  <2>3. \A j \in Keys : (IF rowOwner'[j] = w /\ row'[j] # PendingRow THEN row'[j] ELSE s.answers[j])
                        = (IF j = k THEN a ELSE v.answers[j])
    BY <1>3, <1>5, <1>6, <1>7, <2>1 DEF View
  <2>4. View(w, s)' = [stock |-> v.stock,
                       answers |-> [j \in Keys |-> IF j = k THEN a ELSE v.answers[j]], ok |-> v.ok]
    BY <1>7, <2>1, <2>3 DEF View
  <2> QED BY <1>1, <1>2, <2>1, <2>2, <2>4, AnswersWritten
<1> QED BY <1>0, <1>8, <1>9, ReturnServed

LEMMA AdjustReservedServed ==
  ASSUME IInv, NEW w \in Workers, AdjustReserved(w), NEW r \in Requests, Serves(w, r)
  PROVE  Goes(w, r)'
<1>0. TypeOK /\ CallsOK /\ UnlockedSame /\ tx[w].pc = "reserve"
  BY DEF IInv, LocksOK, AdjustReserved
<1>1. PICK op \in Op, l \in Levels : op = Call(w) /\ l = op.lv /\ op.kind = "reserve"
  BY <1>0, CallTyped DEF CallsOK
<1>2. lock[l] \in {NoWorker, w}
  BY <1>1 DEF AdjustReserved, CanLock
<1>3. CASE ReserveAllowed(op, level[l])
  <2>1. /\ level' = [level EXCEPT ![l] = Reserved(op, level[l])]
        /\ lock' = [lock EXCEPT ![l] = w] /\ Return(w)
        /\ UNCHANGED <<dbLevel, row, dbRow, rowOwner>>
    BY <1>1, <1>3 DEF AdjustReserved
  <2>2. PICK m : m = Reserved(op, level[l])
    OBVIOUS
  <2>3. /\ \A n \in Levels : level'[n] = IF n = l THEN m ELSE level[n]
        /\ \A n \in Levels : lock'[n] = IF n = l THEN w ELSE lock[n]
    BY <1>0, <2>1, <2>2 DEF TypeOK
  <2>4. Keeps(w)
    BY <2>1, <2>3 DEF Keeps
  <2>5. ASSUME NEW s \in Snaps, Agrees(w, s)' PROVE View(w, s)' = Called(View(w, s), Call(w))
    <3>1. s.stock[l] = dbLevel[l]
      BY <2>1, <2>3, <2>5 DEF Agrees
    <3>2. PICK v \in Snaps : v = View(w, s) /\ v.ok
      BY <1>0, ViewTyped
    <3>3. v.stock[l] = level[l]
      BY <1>0, <1>2, <3>1, <3>2 DEF View, UnlockedSame
    <3>4. Atomic!Reserve(v, op) = [v EXCEPT !.stock[l] = m]
      BY <1>1, <1>3, <2>2, <3>3, ReserveIs
    <3>5. Called(v, op) = [v EXCEPT !.stock[l] = m]
      BY <1>1, <3>2, <3>4 DEF Called, Atomic!Do
    <3>6. View(w, s)' = [v EXCEPT !.stock[l] = m]
      <4>1. \A n \in Levels : (IF lock'[n] = w THEN level'[n] ELSE s.stock[n])
                              = (IF n = l THEN m ELSE v.stock[n])
        BY <2>1, <2>3, <3>2 DEF View
      <4>2. View(w, s)' = [stock |-> [n \in Levels |-> IF n = l THEN m ELSE v.stock[n]],
                           answers |-> v.answers, ok |-> v.ok]
        <5>1. View(w, s)' =
                [stock |-> [n \in Levels |-> IF lock'[n] = w THEN level'[n] ELSE s.stock[n]],
                 answers |-> [k \in Keys |-> IF rowOwner[k] = w /\ row[k] # PendingRow
                                             THEN row[k] ELSE s.answers[k]], ok |-> v.ok]
          BY <2>1, <3>2 DEF View
        <5>2. v.answers = [k \in Keys |-> IF rowOwner[k] = w /\ row[k] # PendingRow
                                          THEN row[k] ELSE s.answers[k]]
          BY <3>2 DEF View
        <5>3. [n \in Levels |-> IF lock'[n] = w THEN level'[n] ELSE s.stock[n]]
                = [n \in Levels |-> IF n = l THEN m ELSE v.stock[n]]
          BY <4>1
        <5> QED BY <5>1, <5>2, <5>3
      <4> QED BY <1>1, <3>2, <4>2, StockWritten
    <3> QED BY <1>1, <3>2, <3>5, <3>6
  <2> QED BY <1>0, <2>1, <2>4, <2>5, ReturnServed
<1>4. CASE ~ReserveAllowed(op, level[l])
  BY <1>0, <1>1, <1>4, RollbackServed DEF AdjustReserved
<1> QED BY <1>3, <1>4

LEMMA OwnStep ==
  ASSUME IInv, NothingPromised, NEW w \in Workers, Step(w) \/ Fail(w),
         NEW r \in Requests, Serves(w, r)
  PROVE  Goes(w, r)'
<1>0. TypeOK
  BY DEF IInv
<1>1. CASE FindKey(w)
  BY <1>1, FindKeyServed
<1>2. CASE InsertKey(w)
  BY <1>2, InsertKeyServed
<1>3. CASE LockLevel(w)
  BY <1>3, LockLevelServed
<1>4. CASE ApplyRecipe(w) \/ ApplyLevel(w)
  BY <1>4, ApplyServed
<1>5. CASE RejectMutation(w) \/ DeadlockVictim(w) \/ Fail(w)
  BY <1>0, <1>5, RollbackServed DEF RejectMutation, DeadlockVictim, Fail
<1>6. CASE SaveResult(w)
  BY <1>6, SaveResultServed
<1>7. CASE AdjustReserved(w)
  BY <1>7, AdjustReservedServed
<1>8. CASE Commit(w)
  BY <1>0, <1>8, CommitHoldsNothing
<1> QED BY <1>1, <1>2, <1>3, <1>4, <1>5, <1>6, <1>7, <1>8 DEF Step

(* The other sessions keep their rows. *)
LEMMA OthersStay ==
  ASSUME IInv, NEW w \in Workers, Begin(w) \/ Step(w) \/ Fail(w), NEW v \in Workers \ {w}
  PROVE  Stays(v)
<1>0. TypeOK /\ CallsOK /\ RowsOwned /\ ApplyLocked /\ OwersOwn /\ NoWorker \notin Workers
  BY SessionsAssumption DEF IInv, LocksOK, KeysOK
<1>1. tx'[v] = tx[v] \/ ~(tx'[v] = tx[v])
  OBVIOUS
<1>2. ASSUME Rollback(w) PROVE Stays(v)
  <2>1. tx' = [tx EXCEPT ![w] = Idle] /\ UNCHANGED <<dbLevel, dbRow>>
    BY <1>2 DEF Rollback
  <2>2. /\ \A l \in Levels : level'[l] = IF lock[l] = w THEN dbLevel[l] ELSE level[l]
        /\ \A l \in Levels : lock'[l] = IF lock[l] = w THEN NoWorker ELSE lock[l]
        /\ \A k \in Keys : row'[k] = IF rowOwner[k] = w THEN dbRow[k] ELSE row[k]
        /\ \A k \in Keys : rowOwner'[k] = IF rowOwner[k] = w THEN NoWorker ELSE rowOwner[k]
    BY <1>2 DEF Rollback
  <2> QED BY <1>0, <2>1, <2>2 DEF Stays, TypeOK
<1>3. ASSUME UNCHANGED <<level, dbLevel, lock, row, dbRow, rowOwner>>, tx'[v] = tx[v]
      PROVE  Stays(v)
  BY <1>3 DEF Stays
<1>4. ASSUME NEW r, Replay(w, r) PROVE Stays(v)
  <2>1. CASE r.st = "done"
    BY <1>0, <1>3, <1>4, <2>1 DEF Replay, Return, TypeOK
  <2>2. CASE r.st # "done"
    BY <1>2, <1>4, <2>2 DEF Replay
  <2> QED BY <2>1, <2>2
<1>5. CASE Begin(w)
  BY <1>0, <1>3, <1>5 DEF Begin, TypeOK
<1>6. CASE FindKey(w)
  <2>1. CASE tx' = [tx EXCEPT ![w].pc = "insert"]
             /\ UNCHANGED <<level, dbLevel, lock, row, dbRow, rowOwner, begun>>
    BY <1>0, <1>3, <2>1 DEF TypeOK
  <2> QED BY <1>4, <1>6, <2>1 DEF FindKey
<1>7. CASE InsertKey(w)
  <2>1. PICK k \in Keys : k = Call(w).key
    BY <1>0, <1>7, CallTyped DEF CallsOK, InsertKey
  <2>2. CASE /\ row' = [row EXCEPT ![k] = PendingRow]
             /\ rowOwner' = [rowOwner EXCEPT ![k] = w]
             /\ tx' = [tx EXCEPT ![w].pc = "lock"]
             /\ UNCHANGED <<level, dbLevel, lock, dbRow, begun>>
    <3>1. rowOwner[k] \in {NoWorker, w}
      BY <1>7, <2>1 DEF InsertKey, CanInsert
    <3>2. \A j \in Keys : /\ row'[j] = IF j = k THEN PendingRow ELSE row[j]
                          /\ rowOwner'[j] = IF j = k THEN w ELSE rowOwner[j]
      BY <1>0, <2>2 DEF TypeOK
    <3>3. tx'[v] = tx[v]
      BY <1>0, <2>2 DEF TypeOK
    <3> QED BY <1>0, <2>2, <3>1, <3>2, <3>3 DEF Stays
  <2> QED BY <1>4, <1>7, <2>1, <2>2 DEF InsertKey
<1>8. CASE LockLevel(w)
  <2>1. PICK l \in Levels : l = Call(w).lv
    BY <1>0, <1>8, CallTyped DEF LockLevel
  <2>2. /\ lock[l] \in {NoWorker, w} /\ lock' = [lock EXCEPT ![l] = w]
        /\ tx' = [tx EXCEPT ![w].pc = "apply"]
        /\ UNCHANGED <<level, dbLevel, row, dbRow, rowOwner>>
    BY <1>8, <2>1 DEF LockLevel, CanLock
  <2>3. \A m \in Levels : lock'[m] = IF m = l THEN w ELSE lock[m]
    BY <1>0, <2>2 DEF TypeOK
  <2>4. tx'[v] = tx[v]
    BY <1>0, <2>2 DEF TypeOK
  <2> QED BY <1>0, <2>2, <2>3, <2>4 DEF Stays
<1>9. CASE ApplyRecipe(w)
  BY <1>0, <1>3, <1>9 DEF ApplyRecipe, GoOn, TypeOK
<1>10. CASE ApplyLevel(w)
  <2>1. PICK l \in Levels : l = Call(w).lv /\ lock[l] = w
    BY <1>0, <1>10, CallTyped DEF ApplyLevel, ApplyLocked
  <2>2. /\ level' = [level EXCEPT ![l] = Mutated(Call(w), @)] /\ tx'[v] = tx[v]
        /\ UNCHANGED <<dbLevel, lock, row, dbRow, rowOwner>>
    BY <1>0, <1>10, <2>1 DEF ApplyLevel, GoOn, TypeOK
  <2>3. \A m \in Levels : m # l => level'[m] = level[m]
    BY <1>0, <2>2 DEF TypeOK
  <2> QED BY <2>1, <2>2, <2>3 DEF Stays
<1>11. CASE RejectMutation(w) \/ DeadlockVictim(w) \/ Fail(w)
  BY <1>2, <1>11 DEF RejectMutation, DeadlockVictim, Fail
<1>12. CASE SaveResult(w)
  <2>1. Call(w) \in Ops(tx[w].todo) /\ Call(w).kind = "result"
    BY <1>0, <1>12, CallTyped DEF CallsOK, SaveResult
  <2>2. PICK k : k = Call(w).key
    OBVIOUS
  <2>3. k \in Keys => rowOwner[k] = w
    BY <1>0, <2>1, <2>2 DEF OwersOwn, Owes
  <2>4. \A j \in Keys : j # k => row'[j] = row[j]
    BY <1>0, <1>12, <2>2 DEF SaveResult, TypeOK
  <2>5. tx'[v] = tx[v] /\ UNCHANGED <<level, dbLevel, lock, dbRow, rowOwner>>
    BY <1>0, <1>12 DEF SaveResult, Return, TypeOK
  <2> QED BY <2>3, <2>4, <2>5 DEF Stays
<1>13. CASE AdjustReserved(w)
  <2>1. PICK l \in Levels : l = Call(w).lv
    BY <1>0, <1>13, CallTyped DEF AdjustReserved
  <2>2. lock[l] \in {NoWorker, w}
    BY <1>13, <2>1 DEF AdjustReserved, CanLock
  <2>3. CASE /\ level' = [level EXCEPT ![l] = Reserved(Call(w), @)]
             /\ lock' = [lock EXCEPT ![l] = w]
             /\ Return(w)
             /\ UNCHANGED <<dbLevel, row, dbRow, rowOwner, begun>>
    <3>1. \A m \in Levels : /\ m # l => level'[m] = level[m]
                            /\ lock'[m] = IF m = l THEN w ELSE lock[m]
      BY <1>0, <2>3 DEF TypeOK
    <3>2. tx'[v] = tx[v]
      BY <1>0, <2>3 DEF Return, TypeOK
    <3> QED BY <1>0, <2>2, <2>3, <3>1, <3>2 DEF Stays
  <2> QED BY <1>2, <1>13, <2>1, <2>3 DEF AdjustReserved
<1>14. CASE Commit(w)
  <2>1. /\ \A l \in Levels : /\ dbLevel'[l] = IF lock[l] = w THEN level[l] ELSE dbLevel[l]
                             /\ lock'[l] = IF lock[l] = w THEN NoWorker ELSE lock[l]
        /\ \A k \in Keys : /\ dbRow'[k] = IF rowOwner[k] = w THEN row[k] ELSE dbRow[k]
                           /\ rowOwner'[k] = IF rowOwner[k] = w THEN NoWorker ELSE rowOwner[k]
    BY <1>14 DEF Commit
  <2>2. tx'[v] = tx[v] /\ UNCHANGED <<level, row>>
    BY <1>0, <1>14 DEF Commit, TypeOK
  <2>3. \A k \in Keys : dbRow[k] # NoRow => rowOwner[k] # w
    BY <1>0 DEF RowsOwned
  <2> QED BY <1>0, <2>1, <2>2, <2>3 DEF Stays
<1> QED BY <1>5, <1>6, <1>7, <1>8, <1>9, <1>10, <1>11, <1>12, <1>13, <1>14 DEF Step

LEMMA SerialStep ==
  ASSUME IInv, NothingPromised, Serial, [Next]_vars
  PROVE  Serial'
<1>0. TypeOK
  BY DEF IInv
<1>1. CASE UNCHANGED vars
  <2>1. \A w \in Workers : Stays(w)
    BY <1>1 DEF vars, Stays
  <2>2. \A w \in Workers : HoldsNothing(w)' <=> HoldsNothing(w)
    BY <1>1 DEF vars, HoldsNothing
  <2>3. tx' = tx
    BY <1>1 DEF vars
  <2> QED BY <2>1, <2>2, <2>3, StaysServed DEF Serial
<1>2. CASE Next
  <2>1. PICK w \in Workers : Begin(w) \/ Step(w) \/ Fail(w)
    BY <1>2 DEF Next
  <2>2. SUFFICES ASSUME NEW v \in Workers
                 PROVE  IF tx'[v].pc = "idle" THEN HoldsNothing(v)'
                        ELSE \E r \in Requests : Serves(v, r)'
    BY DEF Serial
  <2>3. CASE v # w
    <3>1. Stays(v)
      BY <2>1, <2>3, OthersStay
    <3>2. tx'[v] = tx[v] /\ (HoldsNothing(v)' <=> HoldsNothing(v))
      BY <3>1 DEF Stays, HoldsNothing
    <3> QED BY <3>1, <3>2, StaysServed DEF Serial
  <2>4. CASE v = w /\ Begin(w)
    <3>1. HoldsNothing(w)
      BY <2>4 DEF Begin, Serial
    <3>2. PICK r \in Requests : tx' = [tx EXCEPT ![w] = Run(r)]
      BY <2>4 DEF Begin
    <3>3. UNCHANGED <<level, dbLevel, lock, row, dbRow, rowOwner>>
      BY <2>4 DEF Begin
    <3>4. Serves(w, r)' /\ tx'[w].pc # "idle"
      BY <1>0, <3>1, <3>2, <3>3, BeginServed
    <3> QED BY <2>4, <3>4
  <2>5. CASE v = w /\ ~Begin(w)
    <3>1. Step(w) \/ Fail(w)
      BY <2>1, <2>5
    <3>2. tx[w].pc # "idle"
      BY <3>1 DEF Step, Fail, FindKey, InsertKey, LockLevel, ApplyRecipe, ApplyLevel, RejectMutation,
                  SaveResult, AdjustReserved, Commit, DeadlockVictim, Deadlocked, WaitsFor
    <3>3. PICK r \in Requests : Serves(w, r)
      BY <3>2 DEF Serial
    <3>4. Goes(w, r)'
      BY <3>1, <3>3, OwnStep
    <3> QED BY <2>5, <3>4 DEF Goes
  <2> QED BY <2>1, <2>3, <2>4, <2>5
<1> QED BY <1>1, <1>2

-----------------------------------------------------------------------------
(* A commit is its request, executed alone. *)

LEMMA CommitExecutes ==
  ASSUME IInv, NEW w \in Workers, Commit(w), NEW r \in Requests, Serves(w, r)
  PROVE  Atomic!Execute(r)
<1>0. TypeOK /\ CallsOK /\ PendingOwed /\ tx[w].pc = "commit" /\ w # NoWorker
  BY SessionsAssumption DEF IInv, KeysOK, Commit
<1>1. tx[w].todo = <<>>
  BY <1>0 DEF CallsOK
<1>2. PICK s : s = Atomic!Snapshot
  OBVIOUS
<1>3. s = [stock |-> dbLevel, answers |-> dbRow, ok |-> TRUE]
  BY <1>2 DEF Atomic!Snapshot
<1>4. s \in Snaps /\ s.stock = dbLevel /\ s.answers = dbRow /\ s.ok
  BY <1>0, <1>3 DEF Snaps, TypeOK
<1>5. Agrees(w, s)
  BY <1>4 DEF Agrees
<1>6. PICK v \in Snaps : v = View(w, s) /\ v.ok
  BY <1>0, <1>4, ViewTyped
<1>7. Atomic!FoldLeft(Atomic!Do, s, r) = v
  <2>1. Ends(v, <<>>) = Ends(s, r)
    BY <1>1, <1>4, <1>5, <1>6 DEF Serves
  <2>2. Ends(v, <<>>) = v /\ Ends(s, r) = Atomic!FoldLeft(Atomic!Do, s, r)
    BY <1>4, EndsNothing, EndsRequest
  <2> QED BY <2>1, <2>2
<1>8. dbLevel' = v.stock
  <2>1. dbLevel' = [l \in Levels |-> IF lock[l] = w THEN level[l] ELSE dbLevel[l]]
    BY DEF Commit
  <2> QED BY <1>4, <1>6, <2>1 DEF View
<1>9. dbRow' = v.answers
  <2>1. dbRow' = [k \in Keys |-> IF rowOwner[k] = w THEN row[k] ELSE dbRow[k]]
    BY DEF Commit
  <2>2. v.answers = [k \in Keys |-> IF rowOwner[k] = w /\ row[k] # PendingRow
                                    THEN row[k] ELSE dbRow[k]]
    BY <1>4, <1>6 DEF View
  <2>3. ASSUME NEW k \in Keys, rowOwner[k] = w PROVE row[k] # PendingRow
    <3>1. SUFFICES ASSUME row[k] = PendingRow PROVE FALSE
      OBVIOUS
    <3>2. Owes(w, k)
      BY <1>0, <2>3, <3>1 DEF PendingOwed
    <3>3. Ops(tx[w].todo) = {}
      BY <1>1, OpsShort
    <3> QED BY <1>0, <3>2, <3>3 DEF Owes
  <2> QED BY <2>1, <2>2, <2>3
<1> QED BY <1>2, <1>6, <1>7, <1>8, <1>9 DEF Atomic!Execute

LEMMA SerialStart == Init => Atomic!AInit /\ Serial
<1> SUFFICES ASSUME Init PROVE Atomic!AInit /\ Serial
  OBVIOUS
<1>1. dbLevel = [l \in Levels |-> OpeningRow(l)] /\ dbRow = [k \in Keys |-> NoRow]
  BY DEF Init
<1>2. Atomic!AInit
  BY <1>1, SameOps DEF Atomic!AInit
<1>3. \A w \in Workers : tx[w].pc = "idle" /\ HoldsNothing(w)
  BY SessionsAssumption DEF Init, Idle, HoldsNothing
<1> QED BY <1>2, <1>3 DEF Serial

LEMMA SerialNext ==
  IInv /\ Serial /\ [Next]_vars => [Atomic!ANext]_(Atomic!avars)
<1> SUFFICES ASSUME IInv, Serial, [Next]_vars PROVE [Atomic!ANext]_(Atomic!avars)
  OBVIOUS
<1>1. UNCHANGED <<dbLevel, dbRow>> \/ \E w \in Workers : Commit(w)
  BY ZenonT(60) DEF Next, Step, vars, Begin, FindKey, InsertKey, LockLevel, ApplyRecipe,
              ApplyLevel, RejectMutation, SaveResult, AdjustReserved,
              DeadlockVictim, Fail, Replay, Rollback
<1>2. CASE UNCHANGED <<dbLevel, dbRow>>
  BY <1>2 DEF Atomic!avars
<1>3. ASSUME NEW w \in Workers, Commit(w) PROVE Atomic!ANext
  <2>1. PICK r \in Requests : Serves(w, r)
    BY <1>3 DEF Commit, Serial
  <2>2. Atomic!Execute(r)
    BY <1>3, <2>1, CommitExecutes
  <2> QED BY <2>2 DEF Atomic!ANext
<1> QED BY <1>1, <1>2, <1>3

(* mutateInTx, adjustReserved and the transactions of their callers: seen   *)
(* through the committed rows, every commit is one request executed as a    *)
(* whole on the stock that the commit before it left.                        *)
THEOREM EveryCommitIsSerial == Spec => Serialisable
<1>1. Init => Atomic!AInit /\ Serial
  BY SerialStart
<1>2. IInv /\ AnswersOK /\ Serial /\ [Next]_vars => Serial'
  BY SerialStep DEF AnswersOK
<1>3. IInv /\ Serial /\ [Next]_vars => [Atomic!ANext]_(Atomic!avars)
  BY SerialNext
<1> QED BY <1>1, <1>2, <1>3, Invariance, AnswersInvariance, PTL
        DEF Spec, Serialisable, Atomic!ASpec

-----------------------------------------------------------------------------
(* Dining.                                                                   *)

(* What rows and handlers are like: the parts of the inductive invariant.    *)
Known(o) == order[o].status # "none"
OpenBill(o) == order[o].status \in {"draft", "confirmed"}
EverBooked(t) == \E b \in Bookings : BookingAt[b] = t /\ booking[b] # "none"

OrderStatuses == {"none", "draft", "confirmed", "closed", "cancelled"}
BookingStatuses == {"none", "booked", "seated", "over"}
TicketStatuses == {"open", "served", "cancelled"}
TicketOK(k) ==
  /\ k = [key |-> k.key, number |-> k.number, order |-> k.order, items |-> k.items, status |-> k.status]
  /\ k.order \in Orders /\ k.items \in SUBSET Items /\ k.status \in TicketStatuses
  /\ k.key[3] = None => k.items = k.key[2]

(* Types of the rows, and what rows refer to. *)
FloorRows ==
  /\ table \in [Tables -> [status: TableStatuses, order: Orders \cup {None}]]
  /\ order \in [Orders -> [status: OrderStatuses, ext: BOOLEAN, at: Tables \cup {None},
                           parked: BOOLEAN, paid: BOOLEAN]]
  /\ itemOf \in [Items -> Orders \cup {None}]
  /\ booking \in [Bookings -> BookingStatuses]
  /\ \A k \in tickets : TicketOK(k) /\ Known(k.order)
  /\ \A k, l \in tickets : k.key = l.key => k = l
  /\ \A t \in Tables : table[t].order # None => Known(table[t].order)
  /\ \A o \in Orders : order[o].ext => Known(o)

(* Tables and bills. *)
PointsBack ==
  \A o \in Orders \ raced, t \in Tables :
    table[t].order = o => order[o].ext /\ order[o].at = t
NotOffered ==
  \A t \in Tables \ raced : table[t].order # None => table[t].status # "available"
BillShown ==
  \A o \in Orders \ raced :
    LET t == order[o].at IN
    OpenBill(o) /\ t # None /\ t \notin raced => (table[t].order = o \/ EverBooked(t))
OpenIsDining == \A o \in Orders \ raced : OpenBill(o) => order[o].ext
TablesHold == PointsBack /\ NotOffered /\ BillShown /\ OpenIsDining

(* Items and tickets. *)
On(k, i) == k.status # "cancelled" /\ i \in k.items
CookedOnce ==
  \A i \in Items \ raced : \A k, l \in tickets : On(k, i) /\ On(l, i) => k = l
NothingLeft ==
  \A o \in Orders \ raced :
    ~order[o].ext => ItemsOf(o) = {} /\ \A k \in tickets : k.order # o
KitchenHold == CookedOnce /\ NothingLeft

(* Two handlers that work on the same rows know it, and so does the screen;  *)
(* nobody works on an order that is not there yet.                           *)
RacesKnown ==
  /\ \A g, h \in Handlers :
       g # h /\ handler[g].on \cap handler[h].on # {} =>
         (handler[g].on \cap Tables) \cup (handler[g].on \cap handler[h].on) \subseteq raced
  /\ \A h \in Handlers : DOMAIN screen \cap handler[h].on \subseteq raced
  /\ \A h \in Handlers : \A o \in handler[h].on \cap Orders : Known(o)

(* What the floor screen is about to write. *)
ScreenOK ==
  /\ DOMAIN screen \subseteq Tables
  /\ \A t \in DOMAIN screen :
       screen[t] \in TableStatuses /\ (t \in raced \/ table[t].order = None)

(* What a handler has read and still relies on. *)
Bare(t) == t \in raced \/ table[t].order = None \/ EverBooked(t)
Has(t, o) == t \in raced \/ table[t].order = o
Seated(o, t) == o \in raced \/ (order[o].ext /\ order[o].at = t)
TablesIn(o, h) == TablesWith(o) \subseteq handler[h].on \cup raced

OpenOK(h) ==
  LET s == handler[h] IN
  /\ DOMAIN s = {"pc", "on", "at", "from", "items"}
  /\ s.at # None => s.at \in Tables \cap s.on /\ Bare(s.at)
  /\ s.from # None => s.from \in Orders \cap s.on
SplitOK(h) ==
  LET s == handler[h] IN
  /\ s.at \in Orders \cap s.on /\ s.from \in Orders \cap s.on
  /\ s.at \in raced \/ order[s.at].ext
AddOK(h) ==
  LET s == handler[h] IN
  s.from \in Orders \cap s.on /\ (s.from \in raced \/ order[s.from].ext)
SendOK(h) ==
  LET s == handler[h] IN
  /\ DOMAIN s = {"pc", "on", "from", "items", "draft", "station", "counted"}
  /\ s.from \in Orders \cap s.on /\ s.station \in Stations \cup {None}
  /\ s.items \subseteq Items \cap s.on
  /\ s.draft => (s.from \in raced \/ order[s.from].status = "draft")
  /\ \A i \in s.items : itemOf[i] # None /\ (i \in raced \/ ~Ticketed(i))
KotOK(h) ==
  LET s == handler[h] IN
  /\ s.status \in TicketStatuses
  /\ \E k \in tickets : k.key = s.key
  /\ \A k \in tickets : k.key = s.key =>
       /\ k.items \subseteq s.on
       /\ \A i \in k.items \ raced : \A l \in tickets : On(l, i) => l.key = s.key
GuestOK(h) ==
  LET s == handler[h] IN
  /\ s.at \in Tables \cap s.on /\ Has(s.at, s.from)
  /\ s.from # None => s.from \in Orders \cap s.on /\ Seated(s.from, s.at)
MoveOK(h) ==
  LET s == handler[h] IN
  /\ s.at \in Tables \cap s.on /\ s.to \in Tables \cap s.on /\ s.from \in Orders \cap s.on
  /\ Has(s.at, s.from) /\ Seated(s.from, s.at)
  /\ (Has(s.to, None) \/ Has(s.to, s.from))
MergeOK(h) ==
  LET s == handler[h] IN
  /\ s.at \in Tables \cap s.on /\ s.to \in Tables \cap s.on /\ s.from \in Orders \cap s.on
  /\ Has(s.at, s.from) /\ Seated(s.from, s.at)
  /\ Has(s.to, s.into) /\ s.into # s.from /\ s.at # s.to
  /\ s.into # None => s.into \in Orders \cap s.on /\ Seated(s.into, s.to)
FreeingOK(h) ==
  LET s == handler[h] IN
  /\ DOMAIN s = {"pc", "on", "freed", "from", "at", "status"}
  /\ s.freed \subseteq Tables \cap (s.on \cup raced)
  /\ s.from # None => s.from \in Orders \cap s.on
HoldingOK(h) ==
  LET s == handler[h] IN
  /\ s.at \in Tables \cap (s.on \cup raced) /\ s.status \in TableStatuses
  /\ s.status = "available" => Has(s.at, None)
BillOK(h) ==
  LET s == handler[h] IN
  s.from \in Orders \cap s.on /\ TablesIn(s.from, h)
ClosedOK(h) ==
  LET s == handler[h] IN s.from \in raced \/ ~OpenBill(s.from)
OfOrderOK(h) == handler[h].from \in Orders \cap handler[h].on
SaleOK(h) == handler[h].at \in Tables \cap handler[h].on
SeatOK(h) ==
  LET s == handler[h] IN
  s.booking \in Bookings /\ BookingAt[s.booking] \in s.on /\ s.status \in {"booked", "seated", "over"}

Does(h) ==
  LET pc == handler[h].pc IN
  /\ pc = "open" => OpenOK(h)
  /\ pc = "split" => SplitOK(h)
  /\ pc = "add" => AddOK(h)
  /\ pc \in {"count", "send"} => SendOK(h)
  /\ pc = "kot" => KotOK(h)
  /\ pc = "guest" => GuestOK(h)
  /\ pc = "move" => MoveOK(h)
  /\ pc = "merge" => MergeOK(h)
  /\ pc \in {"release", "hold", "holdWrite"} => FreeingOK(h)
  /\ pc = "holdWrite" => HoldingOK(h)
  /\ pc \in {"void", "bill"} => BillOK(h)
  /\ pc = "bill" => ClosedOK(h)
  /\ pc \in {"discard", "pay", "close"} => OfOrderOK(h)
  /\ pc \in {"pay", "close"} => DOMAIN handler[h] = {"pc", "on", "from", "open"}
  /\ pc = "sale" => SaleOK(h)
  /\ pc = "booking" => SeatOK(h)

AllDo ==
  /\ DOMAIN handler = Handlers
  /\ \A h \in Handlers : Does(h)

FloorInv == FloorRows /\ TablesHold /\ KitchenHold /\ RacesKnown /\ ScreenOK /\ AllDo

-----------------------------------------------------------------------------
(* What a step may change.  W is what the handler that takes it works on: it *)
(* changes tables and bills of its own or raced ones, never takes anything   *)
(* back that was there, and writes tickets of its own items or of new ones.  *)

Unseen(i) == itemOf[i] = None /\ \A k \in tickets : i \notin k.items
SameTicket(k, l, W) ==
  /\ k.key = l.key /\ k.items = l.items
  /\ l.status # "cancelled" => (k.status # "cancelled" \/ k.items \subseteq W)
NewTicket(l, W) ==
  /\ \A k \in tickets : k.key # l.key
  /\ \A i \in l.items : i \in W \/ Unseen(i)

TablesKept(W) ==
  \A t \in Tables :
    /\ t \in W \cup raced \/ table'[t] = table[t]
    /\ \/ table'[t].order \in {table[t].order, None}
       \/ t \in W /\ (table'[t].order \in W \/ ~Known(table'[t].order))
OrdersKept(W) ==
  \A o \in Orders : Known(o) => Known(o)' /\ (o \in W \cup raced \/ order'[o] = order[o])
TicketsKept(W) ==
  /\ \A k \in tickets : \E l \in tickets' : l.key = k.key
  /\ \A l \in tickets' : (\E k \in tickets : SameTicket(k, l, W)) \/ NewTicket(l, W)
ItemsKept == \A i \in Items : itemOf[i] # None => itemOf'[i] # None
BookingsKept == \A t \in Tables : EverBooked(t) => EverBooked(t)'
Changes(W) ==
  /\ raced \subseteq raced'
  /\ TablesKept(W) /\ OrdersKept(W) /\ TicketsKept(W) /\ ItemsKept /\ BookingsKept

(* What two handlers both work on is raced, and so are the tables of each.   *)
Apart(W, V) == W \cap V \subseteq raced /\ (W \cap V # {} => W \cap Tables \subseteq raced)

LEMMA HasKept ==
  ASSUME NEW W, NEW V, Changes(W), Apart(W, V), NEW t \in Tables, t \in V \cup raced,
         NEW o, Has(t, o)
  PROVE  Has(t, o)'
BY DEF Changes, TablesKept, Apart, Has

LEMMA BareKept ==
  ASSUME NEW W, NEW V, Changes(W), Apart(W, V), NEW t \in Tables, t \in V, Bare(t)
  PROVE  Bare(t)'
<1>1. CASE EverBooked(t)
  BY <1>1 DEF Bare, Changes, BookingsKept
<1>2. CASE ~EverBooked(t)
  BY <1>2 DEF Bare, Changes, TablesKept, Apart
<1> QED BY <1>1, <1>2

(* A bill somebody works on. *)
LEMMA BillKept ==
  ASSUME NEW W, NEW V, Changes(W), Apart(W, V), NEW o \in Orders, o \in V, Known(o)
  PROVE  Known(o)' /\ (o \in raced' \/ (o \notin raced /\ order'[o] = order[o]))
BY DEF Changes, OrdersKept, Apart

LEMMA SeatedKept ==
  ASSUME NEW W, NEW V, Changes(W), Apart(W, V), NEW o \in Orders, o \in V, Known(o),
         NEW t, Seated(o, t)
  PROVE  Seated(o, t)'
<1>1. o \in raced' \/ (o \notin raced /\ order'[o] = order[o])
  BY BillKept
<1> QED BY <1>1 DEF Seated

LEMMA TablesInKept ==
  ASSUME NEW W, NEW g \in Handlers, Changes(W), Apart(W, handler[g].on), FloorRows,
         NEW o \in Orders, o \in handler[g].on, Known(o), TablesIn(o, g), handler'[g] = handler[g]
  PROVE  TablesIn(o, g)'
<1> SUFFICES ASSUME NEW t \in Tables, table'[t].order = o PROVE t \in handler[g].on \cup raced'
  BY DEF TablesIn, TablesWith
<1>1. CASE table[t].order = o
  BY <1>1 DEF TablesIn, TablesWith, Changes
<1>2. CASE table[t].order # o
  <2>1. o # None
    BY DiningAssumption
  <2>2. t \in W /\ o \in W
    BY <1>2, <2>1 DEF Changes, TablesKept
  <2> QED BY <2>2 DEF Apart, Changes
<1> QED BY <1>1, <1>2

(* Tickets of an item, and a ticket by its key. *)
LEMMA TicketedKept ==
  ASSUME NEW W, NEW V, Changes(W), Apart(W, V), NEW i \in V, itemOf[i] # None,
         i \in raced \/ ~Ticketed(i)
  PROVE  i \in raced' \/ ~Ticketed(i)'
<1> SUFFICES ASSUME i \notin raced', NEW l \in tickets', l.status # "cancelled", i \in l.items
             PROVE  FALSE
  BY DEF Ticketed
<1>1. i \notin raced /\ i \notin W /\ ~Ticketed(i)
  BY DEF Changes, Apart
<1>2. CASE \E k \in tickets : SameTicket(k, l, W)
  BY <1>1, <1>2 DEF SameTicket, Ticketed
<1>3. CASE NewTicket(l, W)
  BY <1>1, <1>3 DEF NewTicket, Unseen
<1> QED BY <1>2, <1>3 DEF Changes, TicketsKept

LEMMA KotKept ==
  ASSUME NEW W, NEW g \in Handlers, Changes(W), Apart(W, handler[g].on), KotOK(g),
         handler'[g] = handler[g]
  PROVE  KotOK(g)'
<1>1. PICK s : s = handler[g]
  OBVIOUS
<1>2. PICK old \in tickets : old.key = s.key
  BY <1>1 DEF KotOK
<1>3. \E l \in tickets' : l.key = s.key
  BY <1>2 DEF Changes, TicketsKept
<1>4. ASSUME NEW l \in tickets', l.key = s.key
      PROVE  /\ l.items \subseteq s.on
             /\ \A i \in l.items \ raced' : \A m \in tickets' : On(m, i) => m.key = s.key
  <2>1. PICK k \in tickets : SameTicket(k, l, W)
    BY <1>2, <1>4 DEF Changes, TicketsKept, NewTicket
  <2>2. k.key = s.key /\ k.items = l.items
    BY <1>4, <2>1 DEF SameTicket
  <2>3. l.items \subseteq s.on
    BY <1>1, <2>2 DEF KotOK
  <2>4. ASSUME NEW i \in l.items \ raced', NEW m \in tickets', On(m, i) PROVE m.key = s.key
    <3>1. i \notin raced /\ i \notin W /\ i \in s.on
      BY <1>1, <2>3 DEF Changes, Apart
    <3>2. CASE \E n \in tickets : SameTicket(n, m, W)
      <4>1. PICK n \in tickets : SameTicket(n, m, W)
        BY <3>2
      <4>2. On(n, i)
        BY <2>4, <3>1, <4>1 DEF SameTicket, On
      <4>3. n.key = s.key
        BY <1>1, <2>2, <3>1, <4>2 DEF KotOK
      <4> QED BY <4>1, <4>3 DEF SameTicket
    <3>3. CASE NewTicket(m, W)
      BY <2>2, <2>4, <3>1, <3>3 DEF NewTicket, Unseen, On
    <3> QED BY <3>2, <3>3 DEF Changes, TicketsKept
  <2> QED BY <2>3, <2>4
<1>5. s.status \in TicketStatuses
  BY <1>1 DEF KotOK
<1> QED BY <1>1, <1>3, <1>4, <1>5 DEF KotOK

(* What a handler relies on stays, whatever another one does beside it.      *)
LEMMA DoesKept ==
  ASSUME NEW W, NEW g \in Handlers, FloorRows, RacesKnown, Does(g),
         Changes(W), Apart(W, handler[g].on), handler'[g] = handler[g]
  PROVE  Does(g)'
<1>1. PICK s : s = handler[g]
  OBVIOUS
<1>2. handler'[g] = s /\ Apart(W, s.on)
  BY <1>1
<1>3. ASSUME NEW o \in Orders, o \in s.on PROVE Known(o)
  BY <1>1, <1>3 DEF RacesKnown
<1>4. raced \subseteq raced'
  BY DEF Changes
<1>5. s.pc = "open" => OpenOK(g)'
  <2>1. SUFFICES ASSUME OpenOK(g) PROVE OpenOK(g)'
    BY <1>1 DEF Does
  <2>2. s.at # None => s.at \in Tables \cap s.on /\ Bare(s.at)'
    BY <1>1, <1>2, <2>1, BareKept DEF OpenOK
  <2> QED BY <1>1, <1>2, <2>1, <2>2 DEF OpenOK
<1>6. s.pc = "split" => SplitOK(g)'
  <2>1. SUFFICES ASSUME SplitOK(g) PROVE SplitOK(g)'
    BY <1>1 DEF Does
  <2>2. s.at \in Orders \cap s.on /\ s.from \in Orders \cap s.on /\ (s.at \in raced \/ order[s.at].ext)
    BY <1>1, <2>1 DEF SplitOK
  <2>3. s.at \in raced' \/ order'[s.at] = order[s.at]
    BY <1>2, <1>3, <2>2, BillKept
  <2> QED BY <1>2, <1>4, <2>2, <2>3 DEF SplitOK
<1>7. s.pc = "add" => AddOK(g)'
  <2>1. SUFFICES ASSUME AddOK(g) PROVE AddOK(g)'
    BY <1>1 DEF Does
  <2>2. s.from \in Orders \cap s.on /\ (s.from \in raced \/ order[s.from].ext)
    BY <1>1, <2>1 DEF AddOK
  <2>3. s.from \in raced' \/ order'[s.from] = order[s.from]
    BY <1>2, <1>3, <2>2, BillKept
  <2> QED BY <1>2, <1>4, <2>2, <2>3 DEF AddOK
<1>8. s.pc \in {"count", "send"} => SendOK(g)'
  <2>1. SUFFICES ASSUME SendOK(g) PROVE SendOK(g)'
    BY <1>1 DEF Does
  <2>2. /\ DOMAIN s = {"pc", "on", "from", "items", "draft", "station", "counted"}
        /\ s.from \in Orders \cap s.on /\ s.station \in Stations \cup {None}
        /\ s.items \subseteq Items \cap s.on
        /\ s.draft => (s.from \in raced \/ order[s.from].status = "draft")
    BY <1>1, <2>1 DEF SendOK
  <2>3. s.from \in raced' \/ (s.from \notin raced /\ order'[s.from] = order[s.from])
    BY <1>2, <1>3, <2>2, BillKept
  <2>4. s.draft => (s.from \in raced' \/ order'[s.from].status = "draft")
    BY <2>2, <2>3
  <2>5. ASSUME NEW i \in s.items PROVE itemOf'[i] # None /\ (i \in raced' \/ ~Ticketed(i)')
    <3>1. i \in Items /\ i \in s.on /\ itemOf[i] # None /\ (i \in raced \/ ~Ticketed(i))
      BY <1>1, <2>1, <2>2, <2>5 DEF SendOK
    <3>2. i \in raced' \/ ~Ticketed(i)'
      BY <1>2, <3>1, TicketedKept
    <3> QED BY <3>1, <3>2 DEF Changes, ItemsKept
  <2> QED BY <1>2, <2>2, <2>4, <2>5 DEF SendOK
<1>9. s.pc = "kot" => KotOK(g)'
  BY <1>1, KotKept DEF Does
<1>10. s.pc = "guest" => GuestOK(g)'
  <2>1. SUFFICES ASSUME GuestOK(g) PROVE GuestOK(g)'
    BY <1>1 DEF Does
  <2>2. s.at \in Tables \cap s.on /\ Has(s.at, s.from)'
    BY <1>1, <1>2, <2>1, HasKept DEF GuestOK
  <2>3. s.from # None => s.from \in Orders \cap s.on /\ Seated(s.from, s.at)'
    BY <1>1, <1>2, <1>3, <2>1, SeatedKept DEF GuestOK
  <2> QED BY <1>2, <2>2, <2>3 DEF GuestOK
<1>11. s.pc = "move" => MoveOK(g)'
  <2>1. SUFFICES ASSUME MoveOK(g) PROVE MoveOK(g)'
    BY <1>1 DEF Does
  <2>2. s.at \in Tables \cap s.on /\ s.to \in Tables \cap s.on /\ s.from \in Orders \cap s.on
    BY <1>1, <2>1 DEF MoveOK
  <2>3. Has(s.at, s.from)' /\ (Has(s.to, None)' \/ Has(s.to, s.from)')
    BY <1>1, <1>2, <2>1, <2>2, HasKept DEF MoveOK
  <2>4. Seated(s.from, s.at)'
    BY <1>1, <1>2, <1>3, <2>1, <2>2, SeatedKept DEF MoveOK
  <2> QED BY <1>2, <2>2, <2>3, <2>4 DEF MoveOK
<1>12. s.pc = "merge" => MergeOK(g)'
  <2>1. SUFFICES ASSUME MergeOK(g) PROVE MergeOK(g)'
    BY <1>1 DEF Does
  <2>2. /\ s.at \in Tables \cap s.on /\ s.to \in Tables \cap s.on /\ s.from \in Orders \cap s.on
        /\ s.into # s.from /\ s.at # s.to
        /\ s.into # None => s.into \in Orders \cap s.on /\ Seated(s.into, s.to)
    BY <1>1, <2>1 DEF MergeOK
  <2>3. Has(s.at, s.from)' /\ Has(s.to, s.into)'
    BY <1>1, <1>2, <2>1, <2>2, HasKept DEF MergeOK
  <2>4. Seated(s.from, s.at)'
    BY <1>1, <1>2, <1>3, <2>1, <2>2, SeatedKept DEF MergeOK
  <2>5. s.into # None => Seated(s.into, s.to)'
    BY <1>2, <1>3, <2>2, SeatedKept
  <2> QED BY <1>2, <2>2, <2>3, <2>4, <2>5 DEF MergeOK
<1>13. s.pc \in {"release", "hold", "holdWrite"} => FreeingOK(g)'
  BY <1>1, <1>2, <1>4 DEF Does, FreeingOK
<1>14. s.pc = "holdWrite" => HoldingOK(g)'
  <2>1. SUFFICES ASSUME HoldingOK(g) PROVE HoldingOK(g)'
    BY <1>1 DEF Does
  <2>2. s.status = "available" => Has(s.at, None)'
    BY <1>1, <1>2, <2>1, HasKept DEF HoldingOK
  <2> QED BY <1>1, <1>2, <1>4, <2>1, <2>2 DEF HoldingOK
<1>15. s.pc \in {"void", "bill"} => BillOK(g)'
  <2>1. SUFFICES ASSUME BillOK(g) PROVE BillOK(g)'
    BY <1>1 DEF Does
  <2>2. TablesIn(s.from, g)'
    BY <1>1, <1>2, <1>3, <2>1, TablesInKept DEF BillOK
  <2> QED BY <1>1, <1>2, <2>1, <2>2 DEF BillOK
<1>16. s.pc = "bill" => ClosedOK(g)'
  <2>1. SUFFICES ASSUME BillOK(g), ClosedOK(g) PROVE ClosedOK(g)'
    BY <1>1 DEF Does
  <2>2. s.from \in raced' \/ (s.from \notin raced /\ order'[s.from] = order[s.from])
    BY <1>1, <1>2, <1>3, <2>1, BillKept DEF BillOK
  <2> QED BY <1>1, <1>2, <2>1, <2>2 DEF ClosedOK, OpenBill
<1>17. s.pc \in {"discard", "pay", "close"} => OfOrderOK(g)'
  BY <1>1, <1>2 DEF Does, OfOrderOK
<1>18. s.pc \in {"pay", "close"} => DOMAIN s = {"pc", "on", "from", "open"}
  BY <1>1 DEF Does
<1>19. s.pc = "sale" => SaleOK(g)'
  BY <1>1, <1>2 DEF Does, SaleOK
<1>20. s.pc = "booking" => SeatOK(g)'
  BY <1>1, <1>2 DEF Does, SeatOK
<1> QED
  BY <1>2, <1>5, <1>6, <1>7, <1>8, <1>9, <1>10, <1>11, <1>12, <1>13, <1>14, <1>15, <1>16, <1>17,
     <1>18, <1>19, <1>20 DEF Does

(* The same for the screen. *)
LEMMA ScreenKept ==
  ASSUME NEW W, ScreenOK, Changes(W), DOMAIN screen \cap W \subseteq raced, screen' = screen
  PROVE  ScreenOK'
BY DEF ScreenOK, Changes, TablesKept

-----------------------------------------------------------------------------
(* What becomes of the handlers.                                             *)

LEMMA Turned ==
  ASSUME AllDo, NEW h \in Handlers, NEW s, Become(h, s)
  PROVE  /\ handler'[h] = s /\ DOMAIN handler' = Handlers
         /\ \A g \in Handlers : g # h => handler'[g] = handler[g]
BY DEF AllDo, Become

LEMMA HandlersApart ==
  ASSUME RacesKnown, NEW g \in Handlers, NEW h \in Handlers, g # h
  PROVE  Apart(handler[h].on, handler[g].on)
BY DEF RacesKnown, Apart

(* A handler goes on with what it works on, or with a new bill besides. *)
LEMMA RacesGoOn ==
  ASSUME FloorRows, RacesKnown, ScreenOK, AllDo, NEW h \in Handlers, NEW s, Become(h, s), UNCHANGED <<raced, screen>>,
         \A x \in s.on : x \in handler[h].on \/ (x \in Orders /\ ~Known(x)),
         \A o \in Orders : Known(o) => Known(o)',
         \A o \in s.on \cap Orders : Known(o)'
  PROVE  RacesKnown'
<1>1. /\ handler'[h] = s /\ DOMAIN handler' = Handlers
      /\ \A g \in Handlers : g # h => handler'[g] = handler[g]
  BY Turned
<1>2. ASSUME NEW x, x \in s.on, x \notin handler[h].on
      PROVE  x \notin Tables /\ \A g \in Handlers : x \notin handler[g].on
  BY <1>2, DiningAssumption DEF RacesKnown
<1>3. ASSUME NEW g \in Handlers, g # h, handler[g].on \cap s.on # {}
      PROVE  /\ handler[g].on \cap handler[h].on # {}
             /\ handler[g].on \cap s.on \subseteq handler[h].on /\ s.on \cap Tables \subseteq handler[h].on
  BY <1>2, <1>3
<1>4. ASSUME NEW g \in Handlers, g # h, handler[g].on \cap s.on # {}
      PROVE  (handler[g].on \cap Tables) \cup (s.on \cap Tables) \cup (handler[g].on \cap s.on) \subseteq raced
  BY <1>3, <1>4 DEF RacesKnown
<1>5. ASSUME NEW f \in Handlers, NEW g \in Handlers, f # g, handler'[f].on \cap handler'[g].on # {}
      PROVE  (handler'[f].on \cap Tables) \cup (handler'[f].on \cap handler'[g].on) \subseteq raced
  <2>1. CASE f = h
    BY <1>1, <1>4, <1>5, <2>1
  <2>2. CASE g = h
    BY <1>1, <1>4, <1>5, <2>2
  <2>3. CASE f # h /\ g # h
    BY <1>1, <1>5, <2>3 DEF RacesKnown
  <2> QED BY <2>1, <2>2, <2>3
<1>6. ASSUME NEW g \in Handlers PROVE DOMAIN screen \cap handler'[g].on \subseteq raced
  <2>1. CASE g = h
    BY <1>1, <1>2, <2>1 DEF RacesKnown, ScreenOK
  <2>2. CASE g # h
    BY <1>1, <2>2 DEF RacesKnown
  <2> QED BY <2>1, <2>2
<1>7. ASSUME NEW g \in Handlers, NEW o \in handler'[g].on \cap Orders PROVE Known(o)'
  BY <1>1, <1>7 DEF RacesKnown
<1> QED BY <1>5, <1>6, <1>7 DEF RacesKnown

(* It does, and the others are not disturbed. *)
LEMMA OthersGoOn ==
  ASSUME FloorRows, RacesKnown, AllDo, NEW h \in Handlers, NEW s, Become(h, s),
         Changes(handler[h].on), Does(h)'
  PROVE  AllDo'
<1>1. ASSUME NEW g \in Handlers, g # h PROVE Does(g)'
  BY <1>1, Turned, HandlersApart, DoesKept DEF AllDo
<1> QED BY <1>1, Turned DEF AllDo

(* A step of a handler. *)
LEMMA WorkGoesOn ==
  ASSUME FloorInv, NEW h \in Handlers, NEW s, Become(h, s), UNCHANGED <<raced, screen>>,
         Changes(handler[h].on),
         \A x \in s.on : x \in handler[h].on \/ (x \in Orders /\ ~Known(x)),
         \A o \in s.on \cap Orders : Known(o)',
         Does(h)'
  PROVE  RacesKnown' /\ ScreenOK' /\ AllDo'
<1>1. \A o \in Orders : Known(o) => Known(o)'
  BY DEF Changes, OrdersKept
<1>2. RacesKnown'
  BY <1>1, RacesGoOn DEF FloorInv
<1>3. ScreenOK'
  BY ScreenKept DEF FloorInv, RacesKnown
<1> QED BY <1>2, <1>3, OthersGoOn DEF FloorInv

LEMMA WorkEnds ==
  ASSUME FloorInv, NEW h \in Handlers, Done(h), UNCHANGED <<raced, screen>>, Changes(handler[h].on)
  PROVE  RacesKnown' /\ ScreenOK' /\ AllDo'
<1>1. Become(h, Resting) /\ Resting.on = {}
  BY DEF Done, Resting
<1>2. handler'[h] = Resting
  BY <1>1, Turned DEF FloorInv
<1>3. Does(h)'
  BY <1>2 DEF Does, Resting
<1> QED BY <1>1, <1>3, WorkGoesOn

-----------------------------------------------------------------------------
(* Steps that change no row.                                                 *)

LEMMA QuietRows ==
  ASSUME FloorInv, UNCHANGED rowVars, raced \subseteq raced', NEW W
  PROVE  Changes(W) /\ FloorRows' /\ TablesHold' /\ KitchenHold'
<1>1. /\ table' = table /\ order' = order /\ itemOf' = itemOf /\ tickets' = tickets /\ booking' = booking
  BY DEF rowVars
<1>2. Changes(W)
  <2>1. TablesKept(W) /\ OrdersKept(W) /\ ItemsKept /\ BookingsKept
    BY <1>1 DEF TablesKept, OrdersKept, ItemsKept, BookingsKept, Known, EverBooked
  <2>2. TicketsKept(W)
    BY <1>1 DEF TicketsKept, SameTicket
  <2> QED BY <2>1, <2>2 DEF Changes
<1>3. FloorRows'
  BY <1>1 DEF FloorInv, FloorRows, Known
<1>4. TablesHold'
  BY <1>1 DEF FloorInv, TablesHold, PointsBack, NotOffered, BillShown, OpenIsDining, OpenBill, EverBooked
<1>5. KitchenHold'
  BY <1>1 DEF FloorInv, KitchenHold, CookedOnce, NothingLeft, ItemsOf
<1> QED BY <1>2, <1>3, <1>4, <1>5

(* A handler takes up rows, and what it meets is raced. *)
LEMMA RacesMet ==
  ASSUME RacesKnown, AllDo, NEW h \in Handlers, NEW s, Become(h, s), screen' = screen,
         raced \cup Met(h, s.on) \cup (DOMAIN screen \cap s.on) \subseteq raced',
         order' = order, \A o \in s.on \cap Orders : Known(o)
  PROVE  RacesKnown'
<1>1. /\ handler'[h] = s /\ DOMAIN handler' = Handlers
      /\ \A g \in Handlers : g # h => handler'[g] = handler[g]
  BY Turned
<1>2. ASSUME NEW g \in Handlers, g # h, handler[g].on \cap s.on # {}
      PROVE  handler[g].on \cup s.on \subseteq raced'
  <2>1. g \in {o \in Handlers \ {h} : handler[o].on \cap s.on # {}}
    BY <1>2
  <2>2. handler[g].on \cup s.on \subseteq Met(h, s.on)
    BY <2>1 DEF Met
  <2> QED BY <2>2
<1>3. ASSUME NEW f \in Handlers, NEW g \in Handlers, f # g, handler'[f].on \cap handler'[g].on # {}
      PROVE  (handler'[f].on \cap Tables) \cup (handler'[f].on \cap handler'[g].on) \subseteq raced'
  <2>1. CASE f = h
    BY <1>1, <1>2, <1>3, <2>1
  <2>2. CASE g = h
    BY <1>1, <1>2, <1>3, <2>2
  <2>3. CASE f # h /\ g # h
    BY <1>1, <1>3, <2>3 DEF RacesKnown
  <2> QED BY <2>1, <2>2, <2>3
<1>4. ASSUME NEW g \in Handlers PROVE DOMAIN screen \cap handler'[g].on \subseteq raced'
  <2>1. CASE g = h
    BY <1>1, <2>1
  <2>2. CASE g # h
    BY <1>1, <2>2 DEF RacesKnown
  <2> QED BY <2>1, <2>2
<1>5. ASSUME NEW g \in Handlers, NEW o \in handler'[g].on \cap Orders PROVE Known(o)'
  <2>1. CASE g = h
    BY <1>1, <1>5, <2>1 DEF Known
  <2>2. CASE g # h
    BY <1>1, <1>5, <2>2 DEF RacesKnown, Known
  <2> QED BY <2>1, <2>2
<1> QED BY <1>3, <1>4, <1>5 DEF RacesKnown

LEMMA Started ==
  ASSUME FloorInv, NEW h \in Handlers, NEW s, Start(h, s),
         \A o \in s.on \cap Orders : Known(o), Does(h)'
  PROVE  FloorInv'
<1>1. /\ Become(h, s) /\ UNCHANGED rowVars /\ screen' = screen
      /\ raced' = raced \cup Met(h, s.on) \cup (DOMAIN screen \cap s.on)
  BY DEF Start
<1>2. Changes(handler[h].on) /\ FloorRows' /\ TablesHold' /\ KitchenHold'
  BY <1>1, QuietRows
<1>3. RacesKnown'
  BY <1>1, RacesMet DEF FloorInv, rowVars
<1>4. ScreenOK'
  BY <1>1, <1>2, ScreenKept DEF FloorInv, RacesKnown
<1>5. AllDo'
  BY <1>1, <1>2, OthersGoOn DEF FloorInv
<1> QED BY <1>2, <1>3, <1>4, <1>5 DEF FloorInv

(* What a handler has read when it starts. *)
LEMMA Reads ==
  ASSUME FloorInv, NEW h \in Handlers, NEW s, Start(h, s)
  PROVE  /\ handler'[h] = s /\ raced \subseteq raced'
         /\ table' = table /\ order' = order /\ itemOf' = itemOf /\ tickets' = tickets /\ booking' = booking
<1>1. Become(h, s)
  BY DEF Start
<1>2. handler'[h] = s
  BY <1>1, Turned DEF FloorInv
<1> QED BY <1>2 DEF Start, rowVars

LEMMA Assignable ==
  ASSUME NEW t \in Tables, CanAssign(t) PROVE Bare(t)
BY DEF CanAssign, HasBooking, Bare, EverBooked

LEMMA BeginOpenOK ==
  ASSUME FloorInv, NEW h \in Handlers, NEW t \in Tables, BeginOpen(h, t) PROVE FloorInv'
<1>1. PICK s : s = [pc |-> "open", on |-> {t}, at |-> t, from |-> None, items |-> {}]
  OBVIOUS
<1>2. Start(h, s) /\ Bare(t)
  BY <1>1, Assignable DEF BeginOpen
<1>3. handler'[h] = s /\ Bare(t)'
  BY <1>2, Reads DEF Bare, EverBooked
<1>4. Does(h)'
  BY <1>1, <1>3 DEF Does, OpenOK
<1>5. \A o \in s.on \cap Orders : Known(o)
  BY <1>1, DiningAssumption
<1> QED BY <1>2, <1>4, <1>5, Started

LEMMA BeginSplitOK ==
  ASSUME FloorInv, NEW h \in Handlers, NEW o \in Orders, NEW t \in Tables \cup {None}, BeginSplit(h, o, t)
  PROVE  FloorInv'
<1>1. PICK moved \in SUBSET ItemsOf(o) \ {{}, ItemsOf(o)} :
        Start(h, [pc |-> "open", on |-> {o} \cup moved \cup ({t} \ {None}),
                  at |-> t, from |-> o, items |-> moved])
  BY DEF BeginSplit
<1>2. PICK s : s = [pc |-> "open", on |-> {o} \cup moved \cup ({t} \ {None}),
                    at |-> t, from |-> o, items |-> moved]
  OBVIOUS
<1>3. Start(h, s)
  BY <1>1, <1>2
<1>4. handler'[h] = s /\ (t # None => Bare(t)')
  BY <1>3, Reads, Assignable DEF BeginSplit, Bare, EverBooked
<1>5. Does(h)'
  BY <1>2, <1>4 DEF Does, OpenOK
<1>6. \A x \in s.on \cap Orders : Known(x)
  BY <1>2, DiningAssumption DEF ItemsOf, BeginSplit, FloorInv, FloorRows
<1> QED BY <1>3, <1>5, <1>6, Started

LEMMA BeginAddOK ==
  ASSUME FloorInv, NEW h \in Handlers, NEW o \in Orders, BeginAdd(h, o) PROVE FloorInv'
<1>1. PICK s : s = [pc |-> "add", on |-> {o}, from |-> o]
  OBVIOUS
<1>2. Start(h, s) /\ Known(o) /\ (o \in raced \/ order[o].ext)
  BY <1>1 DEF BeginAdd, FloorInv, TablesHold, OpenIsDining, OpenBill, Known
<1>3. handler'[h] = s /\ (o \in raced' \/ order'[o].ext)
  BY <1>2, Reads
<1>4. Does(h)'
  BY <1>1, <1>3 DEF Does, AddOK
<1> QED BY <1>1, <1>2, <1>4, Started

(* sendKot starts: the items it takes have no ticket. *)
LEMMA SendingOK ==
  ASSUME FloorInv, NEW o \in Orders, NEW station \in Stations \cup {None}, NEW h \in Handlers,
         handler'[h] = Sending(o, station), UNCHANGED rowVars, raced \subseteq raced'
  PROVE  Does(h)'
<1>1. PICK s : s = Sending(o, station)
  OBVIOUS
<1>2. /\ s.pc = "count" /\ s.on = {o} \cup Pending(o) /\ s.from = o /\ s.items = Pending(o)
      /\ s.draft = (order[o].status = "draft") /\ s.station = station
      /\ DOMAIN s = {"pc", "on", "from", "items", "draft", "station", "counted"}
  BY <1>1 DEF Sending
<1>3. \A i \in s.items : i \in Items /\ itemOf[i] = o /\ ~Ticketed(i)
  BY <1>2 DEF Pending, ItemsOf
<1>4. \A i \in s.items : itemOf'[i] # None /\ ~Ticketed(i)'
  BY <1>3, DiningAssumption DEF rowVars, Ticketed
<1>5. s.draft => order'[o].status = "draft"
  BY <1>2 DEF rowVars
<1>6. SendOK(h)'
  BY <1>1, <1>2, <1>3, <1>4, <1>5 DEF SendOK
<1> QED BY <1>1, <1>2, <1>6 DEF Does

LEMMA SendingKnown ==
  ASSUME FloorInv, NEW o \in Orders, order[o].ext, NEW station
  PROVE  \A x \in Sending(o, station).on \cap Orders : Known(x)
BY DiningAssumption DEF Sending, Pending, ItemsOf, FloorInv, FloorRows

LEMMA BeginSendOK ==
  ASSUME FloorInv, NEW h \in Handlers, NEW o \in Orders, BeginSend(h, o) PROVE FloorInv'
<1>1. PICK station \in Stations \cup {None} : Start(h, Sending(o, station))
  BY DEF BeginSend
<1>2. order[o].ext
  BY DEF BeginSend
<1>3. Does(h)'
  BY <1>1, Reads, SendingOK DEF Start
<1> QED BY <1>1, <1>2, <1>3, SendingKnown, Started

LEMMA BeginKotOK ==
  ASSUME FloorInv, NEW h \in Handlers, BeginKot(h) PROVE FloorInv'
<1>0. PICK k \in tickets : \E status \in KotTransitions(k.status) :
        Start(h, [pc |-> "kot", on |-> {k.order} \cup k.items, key |-> k.key, status |-> status])
  BY DEF BeginKot
<1>1. PICK status \in KotTransitions(k.status) :
        Start(h, [pc |-> "kot", on |-> {k.order} \cup k.items, key |-> k.key, status |-> status])
  BY <1>0
<1>2. PICK s : s = [pc |-> "kot", on |-> {k.order} \cup k.items, key |-> k.key, status |-> status]
  OBVIOUS
<1>3. Start(h, s)
  BY <1>1, <1>2
<1>4. handler'[h] = s /\ raced \subseteq raced' /\ tickets' = tickets
  BY <1>3, Reads
<1>5. TicketOK(k) /\ Known(k.order)
  BY DEF FloorInv, FloorRows
<1>6. k.status # "cancelled" /\ status \in TicketStatuses
  BY <1>5 DEF KotTransitions, TicketOK, TicketStatuses
<1>7. ASSUME NEW l \in tickets, l.key = k.key PROVE l = k
  BY <1>7 DEF FloorInv, FloorRows
<1>8. ASSUME NEW i \in k.items \ raced', NEW l \in tickets, On(l, i) PROVE l.key = k.key
  <2>1. On(k, i) /\ i \in Items \ raced
    BY <1>4, <1>5, <1>6, <1>8 DEF On, TicketOK
  <2> QED BY <1>8, <2>1 DEF FloorInv, KitchenHold, CookedOnce
<1>9. KotOK(h)'
  <2>1. s.on = {k.order} \cup k.items /\ s.key = k.key /\ s.status = status
    BY <1>2
  <2>2. \A l \in tickets : l.key = s.key =>
          /\ l.items \subseteq s.on
          /\ \A i \in l.items \ raced' : \A m \in tickets : On(m, i) => m.key = s.key
    BY <1>7, <1>8, <2>1
  <2> QED BY <1>4, <1>6, <2>1, <2>2 DEF KotOK
<1>10. Does(h)'
  BY <1>2, <1>4, <1>9 DEF Does
<1>11. \A o \in s.on \cap Orders : Known(o)
  BY <1>2, <1>5, DiningAssumption DEF TicketOK
<1> QED BY <1>3, <1>10, <1>11, Started

(* The order of a table. *)
LEMMA Placed ==
  ASSUME FloorInv, NEW t \in Tables
  PROVE  /\ t \in Place(t) /\ \A x \in Place(t) : x = t \/ (x = table[t].order /\ x # None)
         /\ \A o \in Place(t) \cap Orders : Known(o)
         /\ table[t].order # None =>
              /\ table[t].order \in Orders \cap Place(t) /\ Known(table[t].order)
              /\ Seated(table[t].order, t)
<1>1. table[t].order \in Orders \cup {None}
  BY DEF FloorInv, FloorRows
<1>2. table[t].order # None => Known(table[t].order)
  BY DEF FloorInv, FloorRows
<1>3. table[t].order # None => Seated(table[t].order, t)
  BY <1>1 DEF FloorInv, TablesHold, PointsBack, Seated
<1> QED BY <1>1, <1>2, <1>3, DiningAssumption DEF Place

LEMMA BeginGuestOK ==
  ASSUME FloorInv, NEW h \in Handlers, NEW t \in Tables, BeginGuest(h, t) PROVE FloorInv'
<1>1. PICK o : o = table[t].order
  OBVIOUS
<1>2. PICK s : s = [pc |-> "guest", on |-> Place(t), at |-> t, from |-> o]
  OBVIOUS
<1>3. Start(h, s)
  BY <1>1, <1>2 DEF BeginGuest
<1>4. handler'[h] = s /\ raced \subseteq raced' /\ table' = table /\ order' = order
  BY <1>3, Reads
<1>5. Has(t, o)' /\ (o # None => Seated(o, t)')
  BY <1>1, <1>4, Placed DEF Has, Seated
<1>6. GuestOK(h)'
  BY <1>1, <1>2, <1>4, <1>5, Placed DEF GuestOK
<1>7. Does(h)'
  BY <1>2, <1>4, <1>6 DEF Does
<1> QED BY <1>2, <1>3, <1>7, Placed, Started

LEMMA BeginMoveOK ==
  ASSUME FloorInv, NEW h \in Handlers, NEW t \in Tables, NEW u \in Tables, BeginMove(h, t, u)
  PROVE  FloorInv'
<1>1. PICK o : o = table[t].order
  OBVIOUS
<1>2. PICK s : s = [pc |-> "move", on |-> Place(t) \cup Place(u), at |-> t, to |-> u, from |-> o]
  OBVIOUS
<1>3. Start(h, s) /\ o # None /\ table[u].order \in {None, o}
  BY <1>1, <1>2 DEF BeginMove
<1>4. handler'[h] = s /\ raced \subseteq raced' /\ table' = table /\ order' = order
  BY <1>3, Reads
<1>5. Has(t, o)' /\ Seated(o, t)' /\ (Has(u, None)' \/ Has(u, o)')
  BY <1>1, <1>3, <1>4, Placed DEF Has, Seated
<1>6. MoveOK(h)'
  BY <1>1, <1>2, <1>3, <1>4, <1>5, Placed DEF MoveOK
<1>7. Does(h)'
  BY <1>2, <1>4, <1>6 DEF Does
<1>8. \A x \in s.on \cap Orders : Known(x)
  BY <1>2, Placed
<1> QED BY <1>3, <1>7, <1>8, Started

LEMMA BeginMergeOK ==
  ASSUME FloorInv, NEW h \in Handlers, NEW t \in Tables, NEW u \in Tables, BeginMerge(h, t, u)
  PROVE  FloorInv'
<1>1. PICK o, p : o = table[t].order /\ p = table[u].order
  OBVIOUS
<1>2. PICK s : s = [pc |-> "merge", on |-> Place(t) \cup Place(u), at |-> t, to |-> u, from |-> o, into |-> p]
  OBVIOUS
<1>3. Start(h, s) /\ o # None /\ o # p /\ t # u
  BY <1>1, <1>2 DEF BeginMerge
<1>4. handler'[h] = s /\ raced \subseteq raced' /\ table' = table /\ order' = order
  BY <1>3, Reads
<1>5. Has(t, o)' /\ Seated(o, t)' /\ Has(u, p)' /\ (p # None => Seated(p, u)')
  BY <1>1, <1>3, <1>4, Placed DEF Has, Seated
<1>6. MergeOK(h)'
  BY <1>1, <1>2, <1>3, <1>4, <1>5, Placed DEF MergeOK
<1>7. Does(h)'
  BY <1>2, <1>4, <1>6 DEF Does
<1>8. \A x \in s.on \cap Orders : Known(x)
  BY <1>2, Placed
<1> QED BY <1>3, <1>7, <1>8, Started

LEMMA BeginVoidOK ==
  ASSUME FloorInv, NEW h \in Handlers, NEW o \in Orders, BeginVoid(h, o) PROVE FloorInv'
<1>1. PICK keys : keys = {k.key : k \in {k \in tickets : k.order = o /\ k.status # "cancelled"}}
  OBVIOUS
<1>2. PICK s : s = [pc |-> "void", on |-> {o} \cup TablesWith(o) \cup ItemsOf(o), from |-> o, keys |-> keys]
  OBVIOUS
<1>3. Start(h, s) /\ Known(o)
  BY <1>1, <1>2 DEF BeginVoid, Known
<1>4. handler'[h] = s /\ raced \subseteq raced' /\ table' = table
  BY <1>3, Reads
<1>5. BillOK(h)'
  BY <1>2, <1>4 DEF BillOK, TablesIn, TablesWith
<1>6. Does(h)'
  BY <1>2, <1>4, <1>5 DEF Does
<1>7. \A x \in s.on \cap Orders : Known(x)
  BY <1>2, <1>3, DiningAssumption DEF TablesWith, ItemsOf
<1> QED BY <1>3, <1>6, <1>7, Started

LEMMA BeginDiscardOK ==
  ASSUME FloorInv, NEW h \in Handlers, NEW o \in Orders, BeginDiscard(h, o) PROVE FloorInv'
<1>1. PICK s : s = [pc |-> "discard", on |-> {o}, from |-> o]
  OBVIOUS
<1>2. Start(h, s) /\ Known(o)
  BY <1>1 DEF BeginDiscard, Known
<1>3. Does(h)'
  BY <1>1, <1>2, Reads DEF Does, OfOrderOK
<1> QED BY <1>1, <1>2, <1>3, Started

LEMMA BeginCheckoutOK ==
  ASSUME FloorInv, NEW h \in Handlers, NEW o \in Orders, BeginCheckout(h, o) PROVE FloorInv'
<1>1. PICK s : s = [pc |-> "pay", on |-> {o}, from |-> o, open |-> FALSE]
  OBVIOUS
<1>2. Start(h, s) /\ Known(o)
  BY <1>1 DEF BeginCheckout, Known
<1>3. Does(h)'
  BY <1>1, <1>2, Reads DEF Does, OfOrderOK
<1> QED BY <1>1, <1>2, <1>3, Started

LEMMA BeginSaleOK ==
  ASSUME FloorInv, NEW h \in Handlers, NEW t \in Tables, BeginSale(h, t) PROVE FloorInv'
<1>1. PICK s : s = [pc |-> "sale", on |-> {t}, at |-> t]
  OBVIOUS
<1>2. Start(h, s)
  BY <1>1 DEF BeginSale
<1>3. Does(h)'
  BY <1>1, <1>2, Reads DEF Does, SaleOK
<1>4. \A x \in s.on \cap Orders : Known(x)
  BY <1>1, DiningAssumption
<1> QED BY <1>2, <1>3, <1>4, Started

LEMMA SeatingOK ==
  ASSUME FloorInv, NEW h \in Handlers, NEW b \in Bookings, NEW status \in {"booked", "seated", "over"},
         Start(h, [pc |-> "booking", on |-> {BookingAt[b]}, booking |-> b, status |-> status])
  PROVE  FloorInv'
<1>1. PICK s : s = [pc |-> "booking", on |-> {BookingAt[b]}, booking |-> b, status |-> status]
  OBVIOUS
<1>2. Start(h, s)
  BY <1>1
<1>3. Does(h)'
  BY <1>1, <1>2, Reads DEF Does, SeatOK
<1>4. \A x \in s.on \cap Orders : Known(x)
  BY <1>1, DiningAssumption
<1> QED BY <1>2, <1>3, <1>4, Started

LEMMA BeginStatusOK ==
  ASSUME FloorInv, NEW h \in Handlers, NEW t \in Tables, BeginStatus(h, t) PROVE FloorInv'
<1>1. PICK status \in {"available", "cleaning", "blocked"} :
        /\ status = "available" => table[t].order = None
        /\ Start(h, [pc |-> "holdWrite", on |-> {t}, freed |-> {}, from |-> None, at |-> t, status |-> status])
  BY DEF BeginStatus
<1>2. PICK s : s = [pc |-> "holdWrite", on |-> {t}, freed |-> {}, from |-> None, at |-> t, status |-> status]
  OBVIOUS
<1>3. Start(h, s)
  BY <1>1, <1>2
<1>4. handler'[h] = s /\ table' = table
  BY <1>3, Reads
<1>5. FreeingOK(h)'
  BY <1>2, <1>4 DEF FreeingOK
<1>6. HoldingOK(h)'
  BY <1>1, <1>2, <1>4 DEF HoldingOK, Has, TableStatuses
<1>7. Does(h)'
  BY <1>2, <1>4, <1>5, <1>6 DEF Does
<1>8. \A x \in s.on \cap Orders : Known(x)
  BY <1>2, DiningAssumption
<1> QED BY <1>3, <1>7, <1>8, Started

LEMMA RequestOK ==
  ASSUME FloorInv, NEW h \in Handlers, Request(h) PROVE FloorInv'
<1>1. CASE \E t \in Tables : BeginOpen(h, t) \/ BeginGuest(h, t) \/ BeginSale(h, t) \/ BeginStatus(h, t)
  BY <1>1, BeginOpenOK, BeginGuestOK, BeginSaleOK, BeginStatusOK
<1>2. CASE \E t, u \in Tables : BeginMove(h, t, u) \/ BeginMerge(h, t, u)
  BY <1>2, BeginMoveOK, BeginMergeOK
<1>3. ASSUME NEW o \in Orders,
             \/ BeginAdd(h, o) \/ BeginSend(h, o) \/ BeginVoid(h, o)
             \/ BeginDiscard(h, o) \/ BeginCheckout(h, o)
             \/ \E t \in Tables \cup {None} : BeginSplit(h, o, t)
      PROVE  FloorInv'
  BY <1>3, BeginAddOK, BeginSendOK, BeginVoidOK, BeginDiscardOK, BeginCheckoutOK, BeginSplitOK
<1>4. ASSUME NEW b \in Bookings, BeginBook(h, b) PROVE FloorInv'
  BY <1>4, SeatingOK DEF BeginBook
<1>5. ASSUME NEW b \in Bookings, BeginBooking(h, b) PROVE FloorInv'
  BY <1>5, SeatingOK DEF BeginBooking
<1> QED BY <1>1, <1>2, <1>3, <1>4, <1>5, BeginKotOK DEF Request

-----------------------------------------------------------------------------
(* Steps of a handler that change no row, no bill or no table's order.       *)

LEMMA RunsOn ==
  ASSUME FloorInv, NEW h \in Handlers
  PROVE  Does(h) /\ \A o \in handler[h].on \cap Orders : Known(o)
BY DEF FloorInv, AllDo, RacesKnown

LEMMA StaysOn ==
  ASSUME FloorInv, NEW h \in Handlers, NEW s, Become(h, s), Rest, Changes(handler[h].on),
         s.on \subseteq handler[h].on, Does(h)'
  PROVE  RacesKnown' /\ ScreenOK' /\ AllDo'
<1>1. \A o \in s.on \cap Orders : Known(o)'
  BY RunsOn DEF Changes, OrdersKept
<1> QED BY <1>1, WorkGoesOn DEF Rest

LEMMA QuietStep ==
  ASSUME FloorInv, NEW h \in Handlers, NEW s, Become(h, s), UNCHANGED rowVars, Rest,
         s.on \subseteq handler[h].on, Does(h)'
  PROVE  FloorInv'
<1>1. Changes(handler[h].on) /\ FloorRows' /\ TablesHold' /\ KitchenHold'
  BY QuietRows DEF Rest
<1> QED BY <1>1, StaysOn DEF FloorInv

LEMMA QuietEnd ==
  ASSUME FloorInv, NEW h \in Handlers, Done(h), UNCHANGED rowVars, Rest
  PROVE  FloorInv'
<1>1. Changes(handler[h].on) /\ FloorRows' /\ TablesHold' /\ KitchenHold'
  BY QuietRows DEF Rest
<1> QED BY <1>1, WorkEnds DEF FloorInv, Rest

LEMMA CountTicketsOK ==
  ASSUME FloorInv, NEW h \in Handlers, CountTickets(h) PROVE FloorInv'
<1>1. PICK s : s = [handler[h] EXCEPT !.pc = "send", !.counted = Counted]
  OBVIOUS
<1>2. Become(h, s) /\ UNCHANGED rowVars /\ Rest
  BY <1>1 DEF CountTickets
<1>3. SendOK(h)
  BY RunsOn DEF CountTickets, At, Does
<1>4. /\ s.pc = "send" /\ s.on = handler[h].on /\ s.from = handler[h].from /\ s.items = handler[h].items
      /\ s.draft = handler[h].draft /\ s.station = handler[h].station
      /\ DOMAIN s = DOMAIN handler[h]
  BY <1>1, <1>3 DEF SendOK
<1>5. handler'[h] = s
  BY <1>2, Turned DEF FloorInv
<1>6. SendOK(h)'
  BY <1>2, <1>3, <1>4, <1>5 DEF SendOK, Rest, rowVars, Ticketed
<1>7. Does(h)'
  BY <1>4, <1>5, <1>6 DEF Does
<1> QED BY <1>2, <1>4, <1>7, QuietStep

LEMMA ReadHoldOK ==
  ASSUME FloorInv, NEW h \in Handlers, ReadHold(h) PROVE FloorInv'
<1>1. PICK t \in handler[h].freed :
        LET rest == [handler[h] EXCEPT !.freed = @ \ {t}] IN
        \E s \in Holds(t) :
          IF Holdable(t) /\ table[t].status # s
            THEN Become(h, [rest EXCEPT !.pc = "holdWrite", !.at = t, !.status = s])
            ELSE Become(h, rest)
  BY DEF ReadHold
<1>2. PICK rest : rest = [handler[h] EXCEPT !.freed = @ \ {t}]
  OBVIOUS
<1>3. FreeingOK(h) /\ handler[h].pc = "hold"
  BY RunsOn DEF ReadHold, At, Does
<1>4. /\ rest.pc = "hold" /\ rest.on = handler[h].on /\ rest.freed \subseteq handler[h].freed
      /\ rest.from = handler[h].from /\ DOMAIN rest = {"pc", "on", "freed", "from", "at", "status"}
  BY <1>2, <1>3 DEF FreeingOK
<1>5. UNCHANGED rowVars /\ Rest
  BY DEF ReadHold
<1>6. CASE Become(h, rest)
  <2>1. handler'[h] = rest
    BY <1>6, Turned DEF FloorInv
  <2>2. FreeingOK(h)'
    BY <1>3, <1>4, <1>5, <2>1 DEF FreeingOK, Rest
  <2>3. Does(h)'
    BY <1>4, <2>1, <2>2 DEF Does
  <2> QED BY <1>4, <1>5, <1>6, <2>3, QuietStep
<1>7. ASSUME NEW status \in Holds(t), Holdable(t),
             Become(h, [rest EXCEPT !.pc = "holdWrite", !.at = t, !.status = status])
      PROVE  FloorInv'
  <2>1. PICK s : s = [rest EXCEPT !.pc = "holdWrite", !.at = t, !.status = status]
    OBVIOUS
  <2>2. /\ s.pc = "holdWrite" /\ s.at = t /\ s.status = status /\ s.on = rest.on /\ s.freed = rest.freed
        /\ s.from = rest.from /\ DOMAIN s = DOMAIN rest
    BY <1>4, <2>1
  <2>3. Become(h, s) /\ handler'[h] = s
    BY <1>7, <2>1, Turned DEF FloorInv
  <2>4. FreeingOK(h)'
    BY <1>3, <1>4, <1>5, <2>2, <2>3 DEF FreeingOK, Rest
  <2>5. t \in Tables \cap (s.on \cup raced) /\ status \in TableStatuses /\ table'[t].order = None
    BY <1>3, <1>4, <1>5, <1>7, <2>2 DEF FreeingOK, Holds, Holdable, TableStatuses, rowVars
  <2>6. HoldingOK(h)'
    BY <1>5, <2>2, <2>3, <2>5 DEF HoldingOK, Has, Rest
  <2>7. Does(h)'
    BY <2>2, <2>3, <2>4, <2>6 DEF Does
  <2> QED BY <1>4, <1>5, <2>2, <2>3, <2>7, QuietStep
<1> QED BY <1>1, <1>2, <1>6, <1>7

LEMMA ReleasedOK ==
  ASSUME FloorInv, NEW h \in Handlers, Released(h) PROVE FloorInv'
<1>1. PICK o, s : /\ o = handler[h].from
                  /\ s = IF o # None /\ order[o].ext /\ Pending(o) # {} THEN Sending(o, None) ELSE Resting
  OBVIOUS
<1>2. /\ Become(h, s) /\ raced' = raced \cup Met(h, s.on)
      /\ UNCHANGED <<rowVars, screen>> /\ handler[h].pc = "hold"
  BY <1>1 DEF Released, At
<1>3. FreeingOK(h)
  BY <1>2, RunsOn DEF Does
<1>4. handler'[h] = s
  BY <1>2, Turned DEF FloorInv
<1>5. /\ Does(h)' /\ \A x \in s.on \cap Orders : Known(x)
      /\ DOMAIN screen \cap s.on \subseteq raced'
  <2>1. CASE s = Resting
    BY <1>4, <2>1 DEF Does, Resting
  <2>2. CASE s = Sending(o, None) /\ o # None /\ order[o].ext
    <3>1. o \in Orders /\ o \in handler[h].on
      BY <1>1, <1>3, <2>2 DEF FreeingOK
    <3>2. Does(h)' /\ \A x \in s.on \cap Orders : Known(x)
      BY <1>2, <1>4, <2>2, <3>1, SendingOK, SendingKnown
    <3>3. DOMAIN screen \cap s.on \subseteq raced
      <4>1. s.on = {o} \cup Pending(o) /\ Pending(o) \subseteq Items
        BY <2>2 DEF Sending, Pending, ItemsOf
      <4> QED BY <3>1, <4>1, DiningAssumption DEF FloorInv, ScreenOK
    <3> QED BY <1>2, <3>2, <3>3
  <2> QED BY <1>1, <2>1, <2>2
<1>6. Changes(handler[h].on) /\ FloorRows' /\ TablesHold' /\ KitchenHold'
  BY <1>2, QuietRows
<1>7. RacesKnown'
  BY <1>2, <1>5, RacesMet DEF FloorInv, rowVars
<1>8. ScreenOK'
  BY <1>2, <1>6, ScreenKept DEF FloorInv, RacesKnown
<1>9. AllDo'
  BY <1>2, <1>5, <1>6, OthersGoOn DEF FloorInv
<1> QED BY <1>6, <1>7, <1>8, <1>9 DEF FloorInv

LEMMA CrashOK ==
  ASSUME FloorInv, NEW h \in Handlers, Crash(h) PROVE FloorInv'
BY QuietEnd DEF Crash

(* Reservations: one that is there stays. *)
LEMMA BookingRows ==
  ASSUME FloorInv, UNCHANGED <<table, order, itemOf, tickets, raced>>, NEW W,
         booking' \in [Bookings -> BookingStatuses],
         \A b \in Bookings : booking[b] # "none" => booking'[b] # "none"
  PROVE  Changes(W) /\ FloorRows' /\ TablesHold' /\ KitchenHold'
<1>1. Changes(W)
  <2>1. TablesKept(W) /\ OrdersKept(W) /\ ItemsKept /\ BookingsKept
    BY DEF TablesKept, OrdersKept, ItemsKept, BookingsKept, Known, EverBooked
  <2>2. TicketsKept(W)
    BY DEF TicketsKept, SameTicket
  <2> QED BY <2>1, <2>2 DEF Changes
<1>2. FloorRows'
  BY DEF FloorInv, FloorRows, Known
<1>3. TablesHold'
  <2>1. \A t \in Tables : EverBooked(t) => EverBooked(t)'
    BY DEF EverBooked
  <2>2. BillShown'
    <3>1. SUFFICES ASSUME NEW o \in Orders \ raced, OpenBill(o), order[o].at # None, order[o].at \notin raced
                   PROVE  table[order[o].at].order = o \/ EverBooked(order[o].at)'
      BY DEF BillShown, OpenBill
    <3>2. order[o].at \in Tables
      BY <3>1 DEF FloorInv, FloorRows
    <3> QED BY <2>1, <3>1, <3>2 DEF FloorInv, TablesHold, BillShown
  <2> QED BY <2>2 DEF FloorInv, TablesHold, PointsBack, NotOffered, OpenIsDining, OpenBill
<1>4. KitchenHold'
  BY DEF FloorInv, KitchenHold, CookedOnce, NothingLeft, ItemsOf
<1> QED BY <1>1, <1>2, <1>3, <1>4

LEMMA ReleaseOK ==
  ASSUME FloorInv, NEW h \in Handlers, Release(h) PROVE FloorInv'
<1>1. PICK s : s = [handler[h] EXCEPT !.pc = "hold"]
  OBVIOUS
<1>2. Become(h, s) /\ UNCHANGED <<table, order, itemOf, tickets>> /\ Rest /\ handler[h].pc = "release"
  BY <1>1 DEF Release, At
<1>3. FreeingOK(h)
  BY <1>2, RunsOn DEF Does
<1>4. /\ s.pc = "hold" /\ s.on = handler[h].on /\ s.freed = handler[h].freed
      /\ s.from = handler[h].from /\ DOMAIN s = {"pc", "on", "freed", "from", "at", "status"}
  BY <1>1, <1>3 DEF FreeingOK
<1>5. /\ booking' \in [Bookings -> BookingStatuses]
      /\ \A b \in Bookings : booking[b] # "none" => booking'[b] # "none"
  BY DEF Release, FloorInv, FloorRows, BookingStatuses
<1>6. Changes(handler[h].on) /\ FloorRows' /\ TablesHold' /\ KitchenHold'
  BY <1>2, <1>5, BookingRows DEF Rest
<1>7. handler'[h] = s
  BY <1>2, Turned DEF FloorInv
<1>8. FreeingOK(h)'
  BY <1>2, <1>3, <1>4, <1>7 DEF FreeingOK, Rest
<1>9. Does(h)'
  BY <1>4, <1>7, <1>8 DEF Does
<1> QED BY <1>2, <1>4, <1>6, <1>9, StaysOn DEF FloorInv

LEMMA SetBookingOK ==
  ASSUME FloorInv, NEW h \in Handlers, SetBooking(h) PROVE FloorInv'
<1>1. PICK b, freed :
        /\ b = handler[h].booking
        /\ freed = IF handler[h].status = "booked" /\ booking[b] # "none" THEN {} ELSE {BookingAt[b]}
  OBVIOUS
<1>2. PICK s : s = IF handler[h].status = "seated"
                     THEN [After(h, "holdWrite", {}, None) EXCEPT !.at = BookingAt[b], !.status = "occupied"]
                     ELSE After(h, "hold", freed, None)
  OBVIOUS
<1>3. /\ Become(h, s) /\ UNCHANGED <<table, order, itemOf, tickets>> /\ Rest /\ handler[h].pc = "booking"
      /\ booking' = [booking EXCEPT ![b] = handler[h].status]
  BY <1>1, <1>2 DEF SetBooking, At
<1>4. SeatOK(h)
  BY <1>3, RunsOn DEF Does
<1>5. b \in Bookings /\ BookingAt[b] \in Tables \cap handler[h].on
  BY <1>1, <1>4, DiningAssumption DEF SeatOK
<1>6. /\ booking' \in [Bookings -> BookingStatuses]
      /\ \A c \in Bookings : booking[c] # "none" => booking'[c] # "none"
  BY <1>3, <1>4, <1>5 DEF SeatOK, FloorInv, FloorRows, BookingStatuses
<1>7. Changes(handler[h].on) /\ FloorRows' /\ TablesHold' /\ KitchenHold'
  BY <1>3, <1>6, BookingRows DEF Rest
<1>8. /\ s.on = handler[h].on /\ s.from = None /\ DOMAIN s = {"pc", "on", "freed", "from", "at", "status"}
      /\ s.freed \subseteq {BookingAt[b]} /\ s.pc \in {"holdWrite", "hold"}
      /\ s.pc = "holdWrite" => s.at = BookingAt[b] /\ s.status = "occupied"
  BY <1>1, <1>2 DEF After
<1>9. handler'[h] = s
  BY <1>3, Turned DEF FloorInv
<1>10. FreeingOK(h)'
  BY <1>5, <1>8, <1>9 DEF FreeingOK
<1>11. s.pc = "holdWrite" => HoldingOK(h)'
  BY <1>5, <1>8, <1>9 DEF HoldingOK, TableStatuses
<1>12. Does(h)'
  BY <1>8, <1>9, <1>10, <1>11 DEF Does
<1> QED BY <1>3, <1>7, <1>8, <1>12, StaysOn DEF FloorInv

(* The status of a table: not offered unless it has no order. *)
LEMMA StatusRows ==
  ASSUME FloorInv, NEW t \in Tables, NEW W, t \in W \cup raced, NEW status \in TableStatuses,
         table' = [table EXCEPT ![t].status = status], status = "available" => Has(t, None),
         UNCHANGED <<order, itemOf, tickets, booking, raced>>
  PROVE  Changes(W) /\ FloorRows' /\ TablesHold' /\ KitchenHold'
<1>1. /\ table' \in [Tables -> [status: TableStatuses, order: Orders \cup {None}]]
      /\ \A u \in Tables : table'[u].order = table[u].order /\ (u = t \/ table'[u] = table[u])
      /\ table'[t].status = status
  BY DEF FloorInv, FloorRows
<1>2. Changes(W)
  <2>1. TablesKept(W) /\ OrdersKept(W) /\ ItemsKept /\ BookingsKept
    BY <1>1 DEF TablesKept, OrdersKept, ItemsKept, BookingsKept, Known, EverBooked
  <2>2. TicketsKept(W)
    BY DEF TicketsKept, SameTicket
  <2> QED BY <2>1, <2>2 DEF Changes
<1>3. FloorRows'
  BY <1>1 DEF FloorInv, FloorRows, Known
<1>4. TablesHold'
  <2>1. PointsBack' /\ OpenIsDining'
    BY <1>1 DEF FloorInv, TablesHold, PointsBack, OpenIsDining, OpenBill
  <2>2. NotOffered'
    BY <1>1 DEF FloorInv, TablesHold, NotOffered, Has
  <2>3. BillShown'
    BY <1>1 DEF FloorInv, FloorRows, TablesHold, BillShown, OpenBill, EverBooked
  <2> QED BY <2>1, <2>2, <2>3 DEF TablesHold
<1>5. KitchenHold'
  BY DEF FloorInv, KitchenHold, CookedOnce, NothingLeft, ItemsOf
<1> QED BY <1>2, <1>3, <1>4, <1>5

LEMMA WriteHoldOK ==
  ASSUME FloorInv, NEW h \in Handlers, WriteHold(h) PROVE FloorInv'
<1>1. PICK s : s = [handler[h] EXCEPT !.pc = "hold"]
  OBVIOUS
<1>2. /\ Become(h, s) /\ UNCHANGED <<order, itemOf, tickets, booking>> /\ Rest /\ handler[h].pc = "holdWrite"
      /\ table' = [table EXCEPT ![handler[h].at].status = handler[h].status]
  BY <1>1 DEF WriteHold, At
<1>3. FreeingOK(h) /\ HoldingOK(h)
  BY <1>2, RunsOn DEF Does
<1>4. /\ s.pc = "hold" /\ s.on = handler[h].on /\ s.freed = handler[h].freed
      /\ s.from = handler[h].from /\ DOMAIN s = {"pc", "on", "freed", "from", "at", "status"}
  BY <1>1, <1>3 DEF FreeingOK
<1>5. Changes(handler[h].on) /\ FloorRows' /\ TablesHold' /\ KitchenHold'
  BY <1>2, <1>3, StatusRows DEF HoldingOK, Rest
<1>6. handler'[h] = s
  BY <1>2, Turned DEF FloorInv
<1>7. FreeingOK(h)'
  BY <1>2, <1>3, <1>4, <1>6 DEF FreeingOK, Rest
<1>8. Does(h)'
  BY <1>4, <1>6, <1>7 DEF Does
<1> QED BY <1>2, <1>4, <1>5, <1>8, StaysOn DEF FloorInv

-----------------------------------------------------------------------------
(* Steps that change one bill and no table.                                  *)

BillRows ==
  [status: OrderStatuses, ext: BOOLEAN, at: Tables \cup {None}, parked: BOOLEAN, paid: BOOLEAN]

(* A bill is not opened again, and stays where it is. *)
StillBill(o) ==
  /\ order' \in [Orders -> BillRows] /\ \A p \in Orders : p # o => order'[p] = order[p]
  /\ order'[o].ext = order[o].ext /\ order'[o].at = order[o].at
  /\ Known(o)' /\ (OpenBill(o)' => o \in raced \/ OpenBill(o))

LEMMA BillTables ==
  ASSUME FloorInv, NEW o \in Orders, StillBill(o), UNCHANGED <<table, booking, raced>>
  PROVE  TablesHold'
<1>1. PointsBack' /\ NotOffered' /\ OpenIsDining'
  BY DEF StillBill, FloorInv, TablesHold, PointsBack, NotOffered, OpenIsDining, OpenBill
<1>2. BillShown'
  BY DEF StillBill, FloorInv, TablesHold, BillShown, OpenBill, EverBooked
<1> QED BY <1>1, <1>2 DEF TablesHold

LEMMA BillSteps ==
  ASSUME FloorInv, NEW o \in Orders, NEW W, o \in W \cup raced, Known(o), StillBill(o),
         UNCHANGED <<table, itemOf, tickets, booking, raced>>
  PROVE  Changes(W) /\ FloorRows' /\ TablesHold' /\ KitchenHold'
<1>1. Changes(W)
  <2>1. TablesKept(W) /\ OrdersKept(W) /\ ItemsKept /\ BookingsKept
    BY DEF TablesKept, OrdersKept, ItemsKept, BookingsKept, Known, EverBooked, StillBill
  <2>2. TicketsKept(W)
    BY DEF TicketsKept, SameTicket
  <2> QED BY <2>1, <2>2 DEF Changes
<1>2. FloorRows'
  <2>1. \A p \in Orders : Known(p) => Known(p)'
    BY DEF StillBill, Known
  <2>2. \A p \in Orders : order'[p].ext => Known(p)'
    BY <2>1 DEF StillBill, FloorInv, FloorRows
  <2>3. \A k \in tickets : TicketOK(k) /\ Known(k.order)'
    BY <2>1 DEF FloorInv, FloorRows, TicketOK
  <2>4. \A t \in Tables : table[t].order # None => Known(table[t].order)'
    BY <2>1 DEF FloorInv, FloorRows
  <2> QED BY <2>2, <2>3, <2>4 DEF StillBill, BillRows, FloorInv, FloorRows
<1>3. TablesHold'
  BY BillTables
<1>4. KitchenHold'
  BY DEF StillBill, FloorInv, KitchenHold, CookedOnce, NothingLeft, ItemsOf
<1> QED BY <1>1, <1>2, <1>3, <1>4

LEMMA DiscardOK ==
  ASSUME FloorInv, NEW h \in Handlers, Discard(h) PROVE FloorInv'
<1>1. PICK o : o = handler[h].from
  OBVIOUS
<1>2. /\ Done(h) /\ UNCHANGED <<table, itemOf, tickets, booking>> /\ Rest /\ handler[h].pc = "discard"
      /\ order' = [order EXCEPT ![o].status = "cancelled", ![o].parked = FALSE]
  BY <1>1 DEF Discard, At
<1>3. o \in Orders /\ o \in handler[h].on /\ Known(o)
  BY <1>1, <1>2, RunsOn DEF Does, OfOrderOK
<1>4. StillBill(o)
  <2>1. PICK bill : bill = [order[o] EXCEPT !.status = "cancelled", !.parked = FALSE]
    OBVIOUS
  <2>2. order \in [Orders -> BillRows]
    BY DEF FloorInv, FloorRows, BillRows
  <2>3. order' = [order EXCEPT ![o] = bill]
    BY <1>2, <1>3, <2>1, <2>2
  <2>4. bill \in BillRows /\ bill.status = "cancelled" /\ bill.ext = order[o].ext /\ bill.at = order[o].at
    BY <1>3, <2>1, <2>2 DEF BillRows, OrderStatuses
  <2> QED BY <1>3, <2>2, <2>3, <2>4 DEF StillBill, Known, OpenBill
<1>5. Changes(handler[h].on) /\ FloorRows' /\ TablesHold' /\ KitchenHold'
  BY <1>2, <1>3, <1>4, BillSteps DEF Rest
<1> QED BY <1>2, <1>5, WorkEnds DEF FloorInv, Rest

LEMMA PayOK ==
  ASSUME FloorInv, NEW h \in Handlers, Pay(h) PROVE FloorInv'
<1>1. PICK o : o = handler[h].from
  OBVIOUS
<1>2. PICK s : s = [handler[h] EXCEPT !.pc = "close", !.open = order[o].status \notin {"closed", "cancelled"}]
  OBVIOUS
<1>3. /\ Become(h, s) /\ UNCHANGED <<table, itemOf, tickets, booking>> /\ Rest /\ handler[h].pc = "pay"
      /\ order' = [order EXCEPT ![o].paid = TRUE]
  BY <1>1, <1>2 DEF Pay, At
<1>4. o \in Orders /\ o \in handler[h].on /\ Known(o)
  BY <1>1, <1>3, RunsOn DEF Does, OfOrderOK
<1>5. StillBill(o)
  BY <1>3, <1>4 DEF StillBill, BillRows, FloorInv, FloorRows, Known, OpenBill
<1>6. Changes(handler[h].on) /\ FloorRows' /\ TablesHold' /\ KitchenHold'
  BY <1>3, <1>4, <1>5, BillSteps DEF Rest
<1>7. DOMAIN handler[h] = {"pc", "on", "from", "open"}
  BY <1>3, RunsOn DEF Does
<1>8. s.pc = "close" /\ s.on = handler[h].on /\ s.from = o /\ DOMAIN s = {"pc", "on", "from", "open"}
  BY <1>1, <1>2, <1>7
<1>9. handler'[h] = s
  BY <1>3, Turned DEF FloorInv
<1>10. Does(h)'
  BY <1>4, <1>8, <1>9 DEF Does, OfOrderOK
<1> QED BY <1>3, <1>6, <1>8, <1>10, StaysOn DEF FloorInv

LEMMA CloseOK ==
  ASSUME FloorInv, NEW h \in Handlers, Close(h) PROVE FloorInv'
<1>1. PICK o : o = handler[h].from
  OBVIOUS
<1>2. /\ Done(h) /\ UNCHANGED <<table, itemOf, tickets, booking>> /\ Rest /\ handler[h].pc = "close"
      /\ order' = IF handler[h].open THEN [order EXCEPT ![o].status = "closed"] ELSE order
  BY <1>1 DEF Close, At
<1>3. o \in Orders /\ o \in handler[h].on /\ Known(o)
  BY <1>1, <1>2, RunsOn DEF Does, OfOrderOK
<1>4. StillBill(o)
  <2>1. CASE handler[h].open
    BY <1>2, <1>3, <2>1 DEF StillBill, BillRows, FloorInv, FloorRows, OrderStatuses, Known, OpenBill
  <2>2. CASE ~handler[h].open
    BY <1>2, <1>3, <2>2 DEF StillBill, BillRows, FloorInv, FloorRows, Known, OpenBill
  <2> QED BY <2>1, <2>2
<1>5. Changes(handler[h].on) /\ FloorRows' /\ TablesHold' /\ KitchenHold'
  BY <1>2, <1>3, <1>4, BillSteps DEF Rest
<1> QED BY <1>2, <1>5, WorkEnds DEF FloorInv, Rest

(* Steps that change the bill of items. *)
LEMMA ItemSteps ==
  ASSUME FloorInv, NEW W, UNCHANGED <<table, order, tickets, booking, raced>>,
         itemOf' \in [Items -> Orders \cup {None}], ItemsKept,
         \A i \in Items : itemOf'[i] = itemOf[i] \/ itemOf'[i] \in raced \/ order[itemOf'[i]].ext
  PROVE  Changes(W) /\ FloorRows' /\ TablesHold' /\ KitchenHold'
<1>1. Changes(W)
  <2>1. TablesKept(W) /\ OrdersKept(W) /\ BookingsKept
    BY DEF TablesKept, OrdersKept, BookingsKept, Known, EverBooked
  <2>2. TicketsKept(W)
    BY DEF TicketsKept, SameTicket
  <2> QED BY <2>1, <2>2 DEF Changes
<1>2. FloorRows'
  BY DEF FloorInv, FloorRows, Known
<1>3. TablesHold'
  BY DEF FloorInv, TablesHold, PointsBack, NotOffered, BillShown, OpenIsDining, OpenBill, EverBooked
<1>4. KitchenHold'
  BY DEF FloorInv, KitchenHold, CookedOnce, NothingLeft, ItemsOf
<1> QED BY <1>1, <1>2, <1>3, <1>4

LEMMA SplitItemsOK ==
  ASSUME FloorInv, NEW h \in Handlers, SplitItems(h) PROVE FloorInv'
<1>1. PICK at, moved : at = handler[h].at /\ moved = handler[h].items \cap ItemsOf(handler[h].from)
  OBVIOUS
<1>2. /\ Done(h) /\ UNCHANGED <<table, order, tickets, booking>> /\ Rest /\ handler[h].pc = "split"
      /\ itemOf' = [i \in Items |-> IF i \in moved THEN at ELSE itemOf[i]]
  BY <1>1 DEF SplitItems, At
<1>3. at \in Orders /\ (at \in raced \/ order[at].ext)
  BY <1>1, <1>2, RunsOn DEF Does, SplitOK
<1>4. itemOf' \in [Items -> Orders \cup {None}] /\ ItemsKept
  BY <1>2, <1>3, DiningAssumption DEF ItemsKept, FloorInv, FloorRows
<1>5. Changes(handler[h].on) /\ FloorRows' /\ TablesHold' /\ KitchenHold'
  BY <1>2, <1>3, <1>4, ItemSteps DEF Rest
<1> QED BY <1>2, <1>5, WorkEnds DEF FloorInv, Rest

LEMMA FreeItem ==
  ASSUME FreeItems # {}
  PROVE  (CHOOSE i \in FreeItems : TRUE) \in Items /\ Unseen(CHOOSE i \in FreeItems : TRUE)
BY DEF FreeItems, Unseen

LEMMA NewBill ==
  ASSUME HasFresh PROVE FreshOrder \in Orders /\ ~Known(FreshOrder)
BY DEF HasFresh, FreshOrder, Known

LEMMA AddItemOK ==
  ASSUME FloorInv, NEW h \in Handlers, AddItem(h) PROVE FloorInv'
<1>1. PICK i, o : i = (CHOOSE j \in FreeItems : TRUE) /\ o = handler[h].from
  OBVIOUS
<1>2. /\ Done(h) /\ UNCHANGED <<table, order, tickets, booking>> /\ Rest /\ handler[h].pc = "add"
      /\ itemOf' = [itemOf EXCEPT ![i] = o] /\ FreeItems # {}
  BY <1>1 DEF AddItem, At
<1>3. o \in Orders /\ (o \in raced \/ order[o].ext)
  BY <1>1, <1>2, RunsOn DEF Does, AddOK
<1>4. i \in Items
  BY <1>1, <1>2, FreeItem
<1>5. itemOf' \in [Items -> Orders \cup {None}] /\ ItemsKept
  BY <1>2, <1>3, <1>4, DiningAssumption DEF ItemsKept, FloorInv, FloorRows
<1>6. \A j \in Items : itemOf'[j] = itemOf[j] \/ itemOf'[j] = o
  BY <1>2, <1>4 DEF FloorInv, FloorRows
<1>7. Changes(handler[h].on) /\ FloorRows' /\ TablesHold' /\ KitchenHold'
  BY <1>2, <1>3, <1>5, <1>6, ItemSteps DEF Rest
<1> QED BY <1>2, <1>7, WorkEnds DEF FloorInv, Rest

-----------------------------------------------------------------------------
(* Steps of the kitchen.                                                     *)

(* The status of a ticket that the handler knows, and of no other. *)
LEMMA UpdateKotOK ==
  ASSUME FloorInv, NEW h \in Handlers, UpdateKot(h) PROVE FloorInv'
<1>1. PICK s : s = handler[h]
  OBVIOUS
<1>2. /\ Done(h) /\ UNCHANGED <<table, order, itemOf, booking>> /\ Rest /\ s.pc = "kot"
      /\ tickets' = {IF k.key = s.key THEN [k EXCEPT !.status = s.status] ELSE k : k \in tickets}
  BY <1>1 DEF UpdateKot, At
<1>3. /\ s.status \in TicketStatuses
      /\ \A k \in tickets : k.key = s.key =>
           /\ k.items \subseteq s.on
           /\ \A i \in k.items \ raced : \A l \in tickets : On(l, i) => l.key = s.key
  BY <1>1, <1>2, RunsOn DEF Does, KotOK
<1>4. DEFINE New(k) == IF k.key = s.key THEN [k EXCEPT !.status = s.status] ELSE k
<1>5. \A l : l \in tickets' <=> \E k \in tickets : l = New(k)
  BY <1>2
<1>6. ASSUME NEW k \in tickets
      PROVE  /\ TicketOK(New(k)) /\ New(k).key = k.key /\ New(k).items = k.items /\ New(k).order = k.order
             /\ k.key # s.key => New(k) = k
  BY <1>3 DEF TicketOK, FloorInv, FloorRows, TicketStatuses
<1> HIDE DEF New
<1>7. ASSUME NEW l \in tickets'
      PROVE  \E k \in tickets :
               l = New(k) /\ TicketOK(l) /\ l.key = k.key /\ l.items = k.items /\ l.order = k.order
               /\ (k.key # s.key => l = k)
  BY <1>5, <1>6
<1>8. TicketsKept(s.on)
  <2>1. \A k \in tickets : \E l \in tickets' : l.key = k.key
    BY <1>5, <1>6
  <2>2. ASSUME NEW l \in tickets' PROVE \E k \in tickets : SameTicket(k, l, s.on)
    BY <1>3, <1>7 DEF SameTicket
  <2> QED BY <2>1, <2>2 DEF TicketsKept
<1>9. Changes(s.on)
  <2>1. TablesKept(s.on) /\ OrdersKept(s.on) /\ ItemsKept /\ BookingsKept
    BY <1>2 DEF TablesKept, OrdersKept, ItemsKept, BookingsKept, Known, EverBooked
  <2> QED BY <1>2, <1>8, <2>1 DEF Changes, Rest
<1>10. FloorRows'
  <2>1. \A k \in tickets' : TicketOK(k) /\ Known(k.order)'
    BY <1>2, <1>7 DEF FloorInv, FloorRows, Known
  <2>2. ASSUME NEW k \in tickets', NEW l \in tickets', k.key = l.key PROVE k = l
    <3>1. PICK a \in tickets, b \in tickets : k = New(a) /\ l = New(b) /\ a.key = b.key
      BY <1>7, <2>2
    <3> QED BY <3>1 DEF FloorInv, FloorRows
  <2> QED BY <1>2, <2>1, <2>2 DEF FloorInv, FloorRows, Known
<1>11. TablesHold'
  BY <1>2 DEF FloorInv, TablesHold, PointsBack, NotOffered, BillShown, OpenIsDining, OpenBill, EverBooked, Rest
<1>12. KitchenHold'
  <2>1. ASSUME NEW i \in Items \ raced, NEW k \in tickets', NEW l \in tickets', On(k, i), On(l, i) PROVE k = l
    <3>1. PICK a \in tickets : k = New(a) /\ k.key = a.key /\ k.items = a.items /\ (a.key # s.key => k = a)
      BY <1>7
    <3>2. PICK b \in tickets : l = New(b) /\ l.key = b.key /\ l.items = b.items /\ (b.key # s.key => l = b)
      BY <1>7
    <3>3. i \in a.items /\ i \in b.items
      BY <2>1, <3>1, <3>2 DEF On
    <3>4. a.key = b.key
      <4>1. CASE a.key # s.key /\ b.key # s.key
        BY <2>1, <3>1, <3>2, <4>1 DEF FloorInv, KitchenHold, CookedOnce
      <4>2. CASE a.key = s.key
        BY <1>3, <2>1, <3>2, <3>3, <4>2
      <4>3. CASE b.key = s.key
        BY <1>3, <2>1, <3>1, <3>3, <4>3
      <4> QED BY <4>1, <4>2, <4>3
    <3> QED BY <3>1, <3>2, <3>4 DEF FloorInv, FloorRows
  <2>2. NothingLeft'
    BY <1>2, <1>7 DEF FloorInv, KitchenHold, NothingLeft, ItemsOf, Rest
  <2> QED BY <1>2, <2>1, <2>2 DEF KitchenHold, CookedOnce, Rest
<1> QED BY <1>1, <1>2, <1>9, <1>10, <1>11, <1>12, WorkEnds DEF FloorInv, Rest

(* New tickets, for items that have none. *)
LEMMA StationsKnown ==
  ASSUME NEW h \in Handlers, SendOK(h), NEW i \in handler[h].items
  PROVE  StationFor(h, i) \in Stations
BY DiningAssumption DEF SendOK, StationFor

LEMMA SentTickets ==
  ASSUME NEW h \in Handlers, SendOK(h), NEW new \in NewTickets(h)
  PROVE  /\ \A k \in new :
              /\ TicketOK(k) /\ k.order = handler[h].from /\ k.items \subseteq handler[h].items
              /\ \A l \in tickets : l.key # k.key
         /\ \A k, l \in new : (k.key = l.key \/ k.items \cap l.items # {}) => k = l
<1> DEFINE s == handler[h]
           used == {StationFor(h, i) : i \in s.items}
           Ticket(n, st) ==
             [key |-> <<s.from, s.items, st>>, number |-> s.counted + n[st], order |-> s.from,
              items |-> {i \in s.items : StationFor(h, i) = st}, status |-> "open"]
<1>1. PICK n : new = {Ticket(n, st) : st \in {st \in used : \A k \in tickets : k.key # <<s.from, s.items, st>>}}
  BY Zenon DEF NewTickets
<1>5. /\ s.from \in Orders /\ s.items \subseteq Items
      /\ \A st \in used : st \in Stations /\ st # None
  BY StationsKnown, DiningAssumption DEF SendOK
<1>6. ASSUME NEW st \in used
      PROVE  /\ TicketOK(Ticket(n, st)) /\ Ticket(n, st).order = s.from
             /\ Ticket(n, st).key = <<s.from, s.items, st>>
             /\ Ticket(n, st).items = {i \in s.items : StationFor(h, i) = st}
  <2>1. PICK items : items = {i \in s.items : StationFor(h, i) = st}
    OBVIOUS
  <2>2. PICK k : k = [key |-> <<s.from, s.items, st>>, number |-> s.counted + n[st], order |-> s.from,
                      items |-> items, status |-> "open"]
    OBVIOUS
  <2>3. k = Ticket(n, st)
    BY <2>1, <2>2
  <2>4. k.items \in SUBSET Items /\ k.key[3] = st
    BY <1>5, <2>1, <2>2
  <2>5. k = [key |-> k.key, number |-> k.number, order |-> k.order, items |-> k.items, status |-> k.status]
    BY <2>2
  <2>6. k.order \in Orders /\ k.status \in TicketStatuses
    BY <1>5, <2>2 DEF TicketStatuses
  <2>7. TicketOK(k)
    BY <1>5, <2>4, <2>5, <2>6 DEF TicketOK
  <2> QED BY <2>1, <2>2, <2>3, <2>7
<1>7. ASSUME NEW st \in used, NEW su \in used,
             Ticket(n, st).key = Ticket(n, su).key \/ Ticket(n, st).items \cap Ticket(n, su).items # {}
      PROVE  st = su
  BY <1>6, <1>7
<1> HIDE DEF Ticket, used
<1>8. \A k \in new : \E st \in used : k = Ticket(n, st) /\ \A l \in tickets : l.key # <<s.from, s.items, st>>
  BY <1>1
<1>9. \A k \in new :
        /\ TicketOK(k) /\ k.order = s.from /\ k.items \subseteq s.items
        /\ \A l \in tickets : l.key # k.key
  BY <1>6, <1>8
<1>10. \A k, l \in new : (k.key = l.key \/ k.items \cap l.items # {}) => k = l
  BY <1>7, <1>8
<1> QED BY <1>9, <1>10

LEMMA SendStepOK ==
  ASSUME FloorInv, NEW h \in Handlers, Send(h) PROVE FloorInv'
<1>1. PICK s : s = handler[h]
  OBVIOUS
<1>2. Done(h) /\ Rest /\ s.pc = "send"
  BY <1>1 DEF Send, At
<1>3. SendOK(h)
  BY <1>1, <1>2, RunsOn DEF Does
<1>4. CASE UNCHANGED rowVars
  BY <1>2, <1>4, QuietEnd
<1>5. CASE ~UNCHANGED rowVars
  <2>1. PICK new \in NewTickets(h) :
          /\ order[s.from].ext
          /\ tickets' = tickets \cup new
          /\ order' = IF s.draft THEN [order EXCEPT ![s.from].status = "confirmed"] ELSE order
          /\ UNCHANGED <<table, itemOf, booking>>
    BY <1>1, <1>5 DEF Send
  <2>2. PICK o : o = s.from
    OBVIOUS
  <2>3. /\ o \in Orders /\ o \in s.on /\ Known(o) /\ s.items \subseteq Items \cap s.on
        /\ s.draft => (o \in raced \/ order[o].status = "draft")
        /\ \A i \in s.items : itemOf[i] # None /\ (i \in raced \/ ~Ticketed(i))
    BY <1>1, <1>3, <2>2, RunsOn DEF SendOK
  <2>4. /\ \A k \in new : /\ TicketOK(k) /\ k.order = o /\ k.items \subseteq s.items
                          /\ \A l \in tickets : l.key # k.key
        /\ \A k, l \in new : (k.key = l.key \/ k.items \cap l.items # {}) => k = l
    BY <1>1, <1>3, <2>2, SentTickets
  <2>5. StillBill(o)
    <3>1. CASE s.draft
      BY <2>1, <2>2, <2>3, <3>1 DEF StillBill, BillRows, FloorInv, FloorRows, OrderStatuses, Known, OpenBill
    <3>2. CASE ~s.draft
      BY <2>1, <2>2, <2>3, <3>2 DEF StillBill, BillRows, FloorInv, FloorRows, Known, OpenBill
    <3> QED BY <3>1, <3>2
  <2>6. Changes(s.on)
    <3>1. TablesKept(s.on) /\ OrdersKept(s.on) /\ ItemsKept /\ BookingsKept
      BY <2>1, <2>3, <2>5 DEF TablesKept, OrdersKept, ItemsKept, BookingsKept, Known, EverBooked, StillBill
    <3>2. TicketsKept(s.on)
      BY <2>1, <2>3, <2>4 DEF TicketsKept, SameTicket, NewTicket
    <3> QED BY <1>2, <3>1, <3>2 DEF Changes, Rest
  <2>7. FloorRows'
    <3>1. \A p \in Orders : Known(p) => Known(p)'
      BY <2>5 DEF StillBill, Known
    <3>2. \A p \in Orders : order'[p].ext => Known(p)'
      BY <2>5, <3>1 DEF StillBill, FloorInv, FloorRows
    <3>3. \A k \in tickets' : TicketOK(k) /\ Known(k.order)'
      BY <2>1, <2>3, <2>4, <3>1 DEF FloorInv, FloorRows, TicketOK
    <3>4. ASSUME NEW k \in tickets', NEW l \in tickets', k.key = l.key PROVE k = l
      <4>1. CASE k \in tickets /\ l \in tickets
        BY <3>4, <4>1 DEF FloorInv, FloorRows
      <4>2. CASE k \in new \/ l \in new
        BY <2>1, <2>4, <3>4, <4>2
      <4> QED BY <2>1, <4>1, <4>2
    <3>5. \A t \in Tables : table[t].order # None => Known(table[t].order)'
      BY <2>1, <3>1 DEF FloorInv, FloorRows
    <3> QED BY <2>1, <2>5, <3>2, <3>3, <3>4, <3>5 DEF StillBill, BillRows, FloorInv, FloorRows
  <2>8. TablesHold'
    BY <1>2, <2>1, <2>3, <2>5, BillTables DEF Rest
  <2>9. KitchenHold'
    <3>1. ASSUME NEW i \in Items \ raced, NEW k \in tickets', NEW l \in tickets', On(k, i), On(l, i) PROVE k = l
      <4>1. CASE k \in tickets /\ l \in tickets
        BY <3>1, <4>1 DEF FloorInv, KitchenHold, CookedOnce
      <4>2. CASE k \in new /\ l \in new
        BY <2>4, <3>1, <4>2 DEF On
      <4>3. CASE (k \in new /\ l \in tickets) \/ (k \in tickets /\ l \in new)
        BY <2>3, <2>4, <3>1, <4>3 DEF On, Ticketed
      <4> QED BY <2>1, <4>1, <4>2, <4>3
    <3>2. NothingLeft'
      BY <1>2, <2>1, <2>2, <2>4, <2>5 DEF StillBill, FloorInv, KitchenHold, NothingLeft, ItemsOf, Rest
    <3> QED BY <1>2, <3>1, <3>2 DEF KitchenHold, CookedOnce, Rest
  <2> QED BY <1>1, <1>2, <2>6, <2>7, <2>8, <2>9, WorkEnds DEF FloorInv, Rest
<1> QED BY <1>4, <1>5

-----------------------------------------------------------------------------
(* Steps that give a table an order.                                         *)

(* The rows once table t has order o, which is a new one or was at t, and    *)
(* an item and a ticket may be new.                                          *)

-----------------------------------------------------------------------------
(* Steps that give tables to orders, or take them away.                      *)

Seats ==
  /\ table \in [Tables -> [status: TableStatuses, order: Orders \cup {None}]]
  /\ order \in [Orders -> BillRows]
  /\ \A t \in Tables : table[t].order # None => Known(table[t].order)
  /\ \A o \in Orders : order[o].ext => Known(o)

(* Table t gets order o, a new one or the one it had. *)
LEMMA GivenRows ==
  ASSUME FloorInv, NEW W, NEW t \in Tables, t \in W, NEW o \in Orders, NEW bill \in BillRows,
         ~Known(o) \/ (o \in W /\ Seated(o, t)),
         t \in raced \/ table[t].order \in {None, o} \/ EverBooked(t),
         SetTable(t, "occupied", o), order' = [order EXCEPT ![o] = bill],
         bill.status # "none", o \in raced \/ (bill.ext /\ bill.at = t),
         UNCHANGED <<booking, raced>>
  PROVE  TablesKept(W) /\ OrdersKept(W) /\ Seats' /\ TablesHold'
<1>1. Seats /\ FloorRows /\ TablesHold
  BY DEF FloorInv, FloorRows, Seats, BillRows
<1>2. /\ table' \in [Tables -> [status: TableStatuses, order: Orders \cup {None}]]
      /\ table'[t].status = "occupied" /\ table'[t].order = o
      /\ \A u \in Tables : u # t => table'[u] = table[u]
  BY <1>1 DEF SetTable, Seats, TableStatuses
<1>3. order' \in [Orders -> BillRows] /\ order'[o] = bill /\ \A p \in Orders : p # o => order'[p] = order[p]
  BY <1>1 DEF Seats
<1>4. \A p \in Orders : p = o \/ Known(p) => Known(p)'
  BY <1>3 DEF Known
<1>5. TablesKept(W)
  BY <1>2 DEF TablesKept
<1>6. OrdersKept(W)
  BY <1>3, <1>4 DEF OrdersKept
<1>7. Seats'
  <2>1. (\A u \in Tables : table[u].order # None => Known(table[u].order))'
    BY <1>1, <1>2, <1>4 DEF Seats
  <2>2. \A p \in Orders : order'[p].ext => Known(p)'
    BY <1>1, <1>3, <1>4 DEF Seats
  <2> QED BY <1>2, <1>3, <2>1, <2>2 DEF Seats
<1>8. PointsBack'
  <2> SUFFICES ASSUME NEW p \in Orders \ raced, NEW u \in Tables, table'[u].order = p
               PROVE  order'[p].ext /\ order'[p].at = u
    BY DEF PointsBack
  <2>1. CASE u = t
    BY <1>2, <1>3, <2>1
  <2>2. CASE u # t
    <3>1. table[u].order = p /\ Known(p) /\ order[p].at = u /\ order[p].ext
      BY <1>1, <1>2, <2>2, DiningAssumption DEF Seats, TablesHold, PointsBack
    <3>2. p # o
      BY <2>2, <3>1 DEF Seated
    <3> QED BY <1>3, <3>1, <3>2
  <2> QED BY <2>1, <2>2
<1>9. NotOffered'
  BY <1>1, <1>2 DEF TablesHold, NotOffered
<1>10. BillShown'
  <2> SUFFICES ASSUME NEW p \in Orders \ raced, OpenBill(p)', order'[p].at # None, order'[p].at \notin raced
               PROVE  table'[order'[p].at].order = p \/ EverBooked(order'[p].at)
    BY DEF BillShown, EverBooked
  <2>1. CASE p = o
    BY <1>2, <1>3, <2>1
  <2>2. CASE p # o
    <3>1. OpenBill(p) /\ order'[p] = order[p] /\ order[p].at \in Tables
      BY <1>1, <1>3, <2>2 DEF OpenBill, Seats, BillRows
    <3>2. table[order[p].at].order = p \/ EverBooked(order[p].at)
      BY <1>1, <3>1 DEF TablesHold, BillShown
    <3>3. CASE order[p].at = t
      BY <2>2, <3>1, <3>2, <3>3, DiningAssumption
    <3>4. CASE order[p].at # t
      BY <1>2, <3>1, <3>2, <3>4
    <3> QED BY <3>3, <3>4
  <2> QED BY <2>1, <2>2
<1>11. OpenIsDining'
  BY <1>1, <1>3 DEF TablesHold, OpenIsDining, OpenBill
<1> QED BY <1>5, <1>6, <1>7, <1>8, <1>9, <1>10, <1>11 DEF TablesHold

(* A new order that gets no table. *)
LEMMA NewRows ==
  ASSUME FloorInv, NEW W, NEW o \in Orders, NEW bill \in BillRows, ~Known(o),
         order' = [order EXCEPT ![o] = bill],
         bill.status # "none", bill.ext, bill.status \in {"draft", "confirmed"} => bill.at = None,
         UNCHANGED <<table, booking, raced>>
  PROVE  TablesKept(W) /\ OrdersKept(W) /\ Seats' /\ TablesHold'
<1>1. Seats /\ FloorRows /\ TablesHold
  BY DEF FloorInv, FloorRows, Seats, BillRows
<1>2. order' \in [Orders -> BillRows] /\ order'[o] = bill /\ \A p \in Orders : p # o => order'[p] = order[p]
  BY <1>1 DEF Seats
<1>3. \A p \in Orders : p = o \/ Known(p) => Known(p)'
  BY <1>2 DEF Known
<1>4. TablesKept(W) /\ OrdersKept(W)
  BY <1>2, <1>3 DEF TablesKept, OrdersKept
<1>5. Seats'
  <2>1. (\A u \in Tables : table[u].order # None => Known(table[u].order))'
    BY <1>1, <1>3 DEF Seats
  <2>2. \A p \in Orders : order'[p].ext => Known(p)'
    BY <1>1, <1>2, <1>3 DEF Seats
  <2> QED BY <1>1, <1>2, <2>1, <2>2 DEF Seats
<1>6. PointsBack'
  BY <1>1, <1>2, DiningAssumption DEF TablesHold, PointsBack, Seats
<1>7. NotOffered' /\ OpenIsDining'
  BY <1>1, <1>2 DEF TablesHold, NotOffered, OpenIsDining, OpenBill
<1>8. BillShown'
  BY <1>1, <1>2 DEF TablesHold, BillShown, OpenBill, EverBooked
<1> QED BY <1>4, <1>5, <1>6, <1>7, <1>8 DEF TablesHold

(* Items and tickets that come to it leave no other bill behind. *)
LEMMA NothingElseLeft ==
  ASSUME FloorInv, NEW o \in Orders, NEW bill, o \in raced \/ bill.ext,
         order' = [order EXCEPT ![o] = bill], raced' = raced,
         \A i \in Items : itemOf'[i] \in {itemOf[i], o}, \A k \in tickets' : k \in tickets \/ k.order = o
  PROVE  NothingLeft'
<1>1. \A p \in Orders : order'[p] = IF p = o THEN bill ELSE order[p]
  BY DEF FloorInv, FloorRows
<1> QED BY <1>1 DEF FloorInv, KitchenHold, NothingLeft, ItemsOf

LEMMA NewOrders ==
  ASSUME NEW t \in Tables \cup {None}
  PROVE  /\ NewOrder(t) \in BillRows /\ NewOrder(t).status = "draft" /\ NewOrder(t).ext /\ NewOrder(t).at = t
BY DEF NewOrder, BillRows, OrderStatuses

LEMMA OpenStepOK ==
  ASSUME FloorInv, NEW h \in Handlers, Open(h) PROVE FloorInv'
<1>1. PICK t, o, bill : t = handler[h].at /\ o = FreshOrder /\ bill = NewOrder(t)
  OBVIOUS
<1>2. PICK s : s = [handler[h] EXCEPT !.pc = "split", !.on = @ \cup {o}, !.at = o]
  OBVIOUS
<1>3. /\ handler[h].pc = "open" /\ HasFresh /\ Rest /\ UNCHANGED <<itemOf, tickets, booking>>
      /\ order' = [order EXCEPT ![o] = bill]
      /\ IF t = None THEN UNCHANGED table ELSE SetTable(t, "occupied", o)
      /\ IF handler[h].from = None THEN Done(h) ELSE Become(h, s)
  BY <1>1, <1>2 DEF Open, At
<1>4. OpenOK(h)
  BY <1>3, RunsOn DEF Does
<1>5. o \in Orders /\ ~Known(o)
  BY <1>1, <1>3, NewBill
<1>6. /\ bill \in BillRows /\ bill.status = "draft" /\ bill.ext /\ bill.at = t
      /\ t # None => t \in Tables \cap handler[h].on /\ Bare(t)
  BY <1>1, <1>4, NewOrders DEF OpenOK
<1>7. TablesKept(handler[h].on) /\ OrdersKept(handler[h].on) /\ Seats' /\ TablesHold'
  <2>1. CASE t = None
    BY <1>3, <1>5, <1>6, <2>1, NewRows DEF Rest
  <2>2. CASE t # None
    BY <1>3, <1>5, <1>6, <2>2, GivenRows DEF Rest, Bare
  <2> QED BY <2>1, <2>2
<1>8. Changes(handler[h].on)
  <2>1. TicketsKept(handler[h].on)
    BY <1>3 DEF TicketsKept, SameTicket
  <2> QED BY <1>3, <1>7, <2>1 DEF Changes, Rest, ItemsKept, BookingsKept, EverBooked
<1>9. FloorRows'
  <2>1. \A k \in tickets : TicketOK(k) /\ Known(k.order)'
    BY <1>7 DEF FloorInv, FloorRows, TicketOK, OrdersKept
  <2> QED BY <1>3, <1>7, <2>1 DEF FloorInv, FloorRows, Seats, BillRows
<1>10. KitchenHold'
  <2>1. NothingLeft'
    BY <1>3, <1>5, <1>6, NothingElseLeft DEF Rest
  <2> QED BY <1>3, <2>1 DEF FloorInv, KitchenHold, CookedOnce, Rest
<1>11. CASE handler[h].from = None
  BY <1>3, <1>8, <1>9, <1>7, <1>10, <1>11, WorkEnds DEF FloorInv, Rest
<1>12. CASE handler[h].from # None
  <2>1. /\ s.pc = "split" /\ s.on = handler[h].on \cup {o} /\ s.at = o /\ s.from = handler[h].from
        /\ s.from \in Orders \cap handler[h].on
    BY <1>2, <1>4, <1>12 DEF OpenOK
  <2>2. Become(h, s) /\ handler'[h] = s
    BY <1>3, <1>12, Turned DEF FloorInv
  <2>3. order'[o] = bill /\ Known(o)'
    BY <1>3, <1>5, <1>6 DEF FloorInv, FloorRows, Known
  <2>4. SplitOK(h)'
    BY <1>5, <1>6, <2>1, <2>2, <2>3 DEF SplitOK
  <2>5. Does(h)'
    BY <2>1, <2>2, <2>4 DEF Does
  <2>6. \A p \in s.on \cap Orders : Known(p)'
    BY <1>7, <2>1, <2>3, RunsOn DEF OrdersKept
  <2>7. \A x \in s.on : x \in handler[h].on \/ (x \in Orders /\ ~Known(x))
    BY <1>5, <2>1
  <2>8. RacesKnown' /\ ScreenOK' /\ AllDo'
    BY <1>3, <1>8, <2>2, <2>5, <2>6, <2>7, WorkGoesOn DEF Rest
  <2> QED BY <1>7, <1>9, <1>10, <2>8 DEF FloorInv
<1> QED BY <1>11, <1>12

LEMMA SaleStepOK ==
  ASSUME FloorInv, NEW h \in Handlers, Sale(h) PROVE FloorInv'
<1>1. PICK t, o, i : t = handler[h].at /\ o = FreshOrder /\ i = (CHOOSE j \in FreeItems : TRUE)
  OBVIOUS
<1>2. PICK bill, s : /\ bill = [NewOrder(t) EXCEPT !.status = "closed", !.parked = FALSE, !.paid = TRUE]
                     /\ s = [pc |-> "bill", on |-> {t, o}, from |-> o]
  OBVIOUS
<1>3. /\ handler[h].pc = "sale" /\ HasFresh /\ FreeItems # {} /\ Rest /\ UNCHANGED <<tickets, booking>>
      /\ order' = [order EXCEPT ![o] = bill] /\ itemOf' = [itemOf EXCEPT ![i] = o]
      /\ IF table[t].order = None THEN SetTable(t, "occupied", o) ELSE UNCHANGED table
      /\ Become(h, s)
  BY <1>1, <1>2 DEF Sale, At
<1>4. t \in Tables \cap handler[h].on
  BY <1>1, <1>3, RunsOn DEF Does, SaleOK
<1>5. o \in Orders /\ ~Known(o) /\ i \in Items /\ Unseen(i)
  BY <1>1, <1>3, NewBill, FreeItem
<1>6. bill \in BillRows /\ bill.status = "closed" /\ bill.ext /\ bill.at = t
  BY <1>2, <1>4 DEF NewOrder, BillRows, OrderStatuses
<1>7. TablesKept(handler[h].on) /\ OrdersKept(handler[h].on) /\ Seats' /\ TablesHold'
  <2>1. CASE table[t].order # None
    BY <1>3, <1>5, <1>6, <2>1, NewRows DEF Rest
  <2>2. CASE table[t].order = None
    BY <1>3, <1>4, <1>5, <1>6, <2>2, GivenRows DEF Rest
  <2> QED BY <2>1, <2>2
<1>8. /\ itemOf' \in [Items -> Orders \cup {None}] /\ ItemsKept
      /\ \A j \in Items : itemOf'[j] \in {itemOf[j], o}
  BY <1>3, <1>5, DiningAssumption DEF ItemsKept, FloorInv, FloorRows
<1>9. Changes(handler[h].on)
  <2>1. TicketsKept(handler[h].on)
    BY <1>3 DEF TicketsKept, SameTicket
  <2> QED BY <1>3, <1>7, <1>8, <2>1 DEF Changes, Rest, BookingsKept, EverBooked
<1>10. FloorRows'
  <2>1. \A k \in tickets : TicketOK(k) /\ Known(k.order)'
    BY <1>7 DEF FloorInv, FloorRows, TicketOK, OrdersKept
  <2> QED BY <1>3, <1>7, <1>8, <2>1 DEF FloorInv, FloorRows, Seats, BillRows
<1>11. KitchenHold'
  <2>1. NothingLeft'
    BY <1>3, <1>5, <1>6, <1>8, NothingElseLeft DEF Rest
  <2> QED BY <1>3, <2>1 DEF FloorInv, KitchenHold, CookedOnce, Rest
<1>12. handler'[h] = s /\ s.pc = "bill" /\ s.on = {t, o} /\ s.from = o
  BY <1>2, <1>3, Turned DEF FloorInv
<1>13. order'[o] = bill
  BY <1>3, <1>5 DEF FloorInv, FloorRows
<1>14. \A u \in Tables : table'[u].order = o => u = t
  BY <1>3, <1>5, DiningAssumption DEF SetTable, FloorInv, FloorRows
<1>15. BillOK(h)' /\ ClosedOK(h)'
  BY <1>5, <1>6, <1>12, <1>13, <1>14 DEF BillOK, ClosedOK, TablesIn, TablesWith, OpenBill
<1>16. Does(h)'
  BY <1>12, <1>15 DEF Does
<1>17. \A p \in s.on \cap Orders : Known(p)'
  BY <1>4, <1>6, <1>12, <1>13, DiningAssumption DEF Known
<1>18. \A x \in s.on : x \in handler[h].on \/ (x \in Orders /\ ~Known(x))
  BY <1>4, <1>5, <1>12
<1>19. RacesKnown' /\ ScreenOK' /\ AllDo'
  BY <1>3, <1>9, <1>16, <1>17, <1>18, WorkGoesOn DEF Rest
<1> QED BY <1>7, <1>10, <1>11, <1>19 DEF FloorInv

LEMMA GuestOrderOK ==
  ASSUME FloorInv, NEW h \in Handlers, GuestOrder(h) PROVE FloorInv'
<1>1. PICK s, i : s = handler[h] /\ i = (CHOOSE j \in FreeItems : TRUE)
  OBVIOUS
<1>2. PICK t, o : t = s.at /\ o = IF s.from = None THEN FreshOrder ELSE s.from
  OBVIOUS
<1>3. PICK bill : bill = [(IF s.from = None THEN NewOrder(t) ELSE order[o]) EXCEPT !.status = "confirmed"]
  OBVIOUS
<1>4. PICK k : k = [key |-> <<o, {i}, None>>, number |-> Counted + 1, order |-> o,
                    items |-> {i}, status |-> "open"]
  OBVIOUS
<1>5. Done(h) /\ Rest /\ s.pc = "guest" /\ HasFresh /\ FreeItems # {}
  BY <1>1 DEF GuestOrder, At
<1>6. CASE UNCHANGED rowVars
  BY <1>5, <1>6, QuietEnd
<1>7. CASE ~UNCHANGED rowVars
  <2>1. /\ itemOf' = [itemOf EXCEPT ![i] = o] /\ order' = [order EXCEPT ![o] = bill]
        /\ SetTable(t, "occupied", o) /\ tickets' = tickets \cup {k} /\ UNCHANGED booking
    BY <1>1, <1>2, <1>3, <1>4, <1>7 DEF GuestOrder
  <2>2. GuestOK(h)
    BY <1>1, <1>5, RunsOn DEF Does
  <2>3. t \in Tables \cap s.on /\ Has(t, s.from)
    BY <1>1, <1>2, <2>2 DEF GuestOK
  <2>4. i \in Items /\ Unseen(i)
    BY <1>1, <1>5, FreeItem
  <2>5. /\ o \in Orders /\ bill \in BillRows /\ bill.status = "confirmed"
        /\ ~Known(o) \/ (o \in s.on /\ Seated(o, t))
        /\ o \in raced \/ (bill.ext /\ bill.at = t)
        /\ s.from \in {None, o}
    <3>1. CASE s.from = None
      BY <1>2, <1>3, <1>5, <2>3, <3>1, NewBill DEF NewOrder, BillRows, OrderStatuses
    <3>2. CASE s.from # None
      <4>1. o = s.from /\ o \in Orders \cap s.on /\ Seated(o, t)
        BY <1>1, <1>2, <2>2, <3>2 DEF GuestOK
      <4>2. order[o] \in BillRows /\ bill = [order[o] EXCEPT !.status = "confirmed"]
        BY <1>3, <3>2, <4>1 DEF FloorInv, FloorRows, BillRows
      <4>3. bill \in BillRows /\ bill.status = "confirmed" /\ bill.ext = order[o].ext /\ bill.at = order[o].at
        BY <4>2 DEF BillRows, OrderStatuses
      <4> QED BY <4>1, <4>3 DEF Seated
    <3> QED BY <3>1, <3>2
  <2>6. TablesKept(s.on) /\ OrdersKept(s.on) /\ Seats' /\ TablesHold'
    <3>1. t \in raced \/ table[t].order \in {None, o} \/ EverBooked(t)
      BY <2>3, <2>5 DEF Has
    <3> QED BY <1>5, <2>1, <2>3, <2>5, <3>1, GivenRows DEF Rest
  <2>7. /\ itemOf' \in [Items -> Orders \cup {None}] /\ ItemsKept
        /\ \A j \in Items : itemOf'[j] \in {itemOf[j], o}
    BY <2>1, <2>4, <2>5, DiningAssumption DEF ItemsKept, FloorInv, FloorRows
  <2>8. /\ TicketOK(k) /\ k.order = o /\ k.items = {i}
        /\ \A l \in tickets : l.key # k.key
    <3>1. k.key[3] = None /\ k.key[2] = {i} /\ k.items = {i} /\ k.order = o /\ k.status = "open"
      BY <1>4
    <3>2. k = [key |-> k.key, number |-> k.number, order |-> k.order, items |-> k.items, status |-> k.status]
      BY <1>4
    <3>3. TicketOK(k)
      BY <2>4, <2>5, <3>1, <3>2 DEF TicketOK, TicketStatuses
    <3>4. ASSUME NEW l \in tickets PROVE l.key # k.key
      BY <2>4, <3>1 DEF Unseen, FloorInv, FloorRows, TicketOK
    <3> QED BY <3>1, <3>3, <3>4
  <2>9. Changes(s.on)
    <3>1. TicketsKept(s.on)
      BY <2>1, <2>4, <2>8 DEF TicketsKept, SameTicket, NewTicket
    <3> QED BY <1>5, <2>1, <2>6, <2>7, <3>1 DEF Changes, Rest, BookingsKept, EverBooked
  <2>10. FloorRows'
    <3>1. \A l \in tickets' : TicketOK(l) /\ Known(l.order)'
      <4>1. Known(o)'
        BY <2>1, <2>5 DEF Known, FloorInv, FloorRows
      <4>2. \A l \in tickets : TicketOK(l) /\ Known(l.order)'
        BY <2>6 DEF FloorInv, FloorRows, TicketOK, OrdersKept
      <4> QED BY <2>1, <2>8, <4>1, <4>2
    <3>2. \A l, m \in tickets' : l.key = m.key => l = m
      BY <2>1, <2>8 DEF FloorInv, FloorRows
    <3> QED BY <2>1, <2>6, <2>7, <3>1, <3>2 DEF FloorInv, FloorRows, Seats, BillRows
  <2>11. KitchenHold'
    <3>1. NothingLeft'
      BY <1>5, <2>1, <2>5, <2>7, <2>8, NothingElseLeft DEF Rest
    <3>2. CookedOnce'
      <4>1. ASSUME NEW j \in Items \ raced, NEW l \in tickets', NEW m \in tickets', On(l, j), On(m, j)
            PROVE  l = m
        <5>1. CASE j = i
          BY <2>1, <2>4, <4>1, <5>1 DEF Unseen, On
        <5>2. CASE j # i
          BY <2>1, <2>8, <4>1, <5>2 DEF On, FloorInv, KitchenHold, CookedOnce
        <5> QED BY <5>1, <5>2
      <4> QED BY <1>5, <4>1 DEF CookedOnce, Rest
    <3> QED BY <3>1, <3>2 DEF KitchenHold
  <2> QED BY <1>1, <1>5, <2>6, <2>9, <2>10, <2>11, WorkEnds DEF FloorInv, Rest
<1> QED BY <1>6, <1>7

(* Tables let order o go, which is not open any more. *)
LEMMA LetGoRows ==
  ASSUME FloorInv, NEW W, NEW o \in Orders, Known(o), o \in W \cup raced, StillBill(o), o \in raced \/ ~OpenBill(o)',
         TablesWith(o) \subseteq W \cup raced,
         table' \in [Tables -> [status: TableStatuses, order: Orders \cup {None}]],
         \A t \in Tables : table'[t] = table[t] \/ (table[t].order = o /\ table'[t].order = None),
         UNCHANGED <<booking, raced>>
  PROVE  TablesKept(W) /\ OrdersKept(W) /\ Seats' /\ TablesHold'
<1>1. FloorRows /\ TablesHold
  BY DEF FloorInv
<1>2. TablesKept(W)
  BY DEF TablesKept, TablesWith
<1>3. OrdersKept(W)
  BY DEF OrdersKept, StillBill, Known
<1>4. Seats'
  <2>1. (\A u \in Tables : table[u].order # None => Known(table[u].order))'
    BY <1>1, <1>3 DEF FloorRows, OrdersKept
  <2>2. \A p \in Orders : order'[p].ext => Known(p)'
    BY <1>1, <1>3 DEF FloorRows, OrdersKept, StillBill
  <2> QED BY <2>1, <2>2 DEF Seats, StillBill
<1>5. PointsBack' /\ NotOffered' /\ OpenIsDining'
  <2>1. PointsBack'
    <3> SUFFICES ASSUME NEW p \in Orders \ raced, NEW t \in Tables, table'[t].order = p
                 PROVE  order'[p].ext /\ order'[p].at = t
      BY DEF PointsBack
    <3>1. table[t].order = p
      BY DiningAssumption
    <3>2. order[p].ext /\ order[p].at = t
      BY <1>1, <3>1 DEF TablesHold, PointsBack
    <3> QED BY <3>2 DEF StillBill
  <2>2. NotOffered'
    BY <1>1 DEF TablesHold, NotOffered
  <2>3. OpenIsDining'
    BY <1>1 DEF StillBill, TablesHold, OpenIsDining, OpenBill
  <2> QED BY <2>1, <2>2, <2>3
<1>6. BillShown'
  <2> SUFFICES ASSUME NEW p \in Orders \ raced, OpenBill(p)', order'[p].at # None, order'[p].at \notin raced
               PROVE  table'[order'[p].at].order = p \/ EverBooked(order'[p].at)
    BY DEF BillShown, EverBooked
  <2>1. p # o /\ order'[p] = order[p] /\ OpenBill(p)
    BY DEF StillBill, OpenBill
  <2>2. order[p].at \in Tables
    BY <1>1, <2>1 DEF FloorRows
  <2> QED BY <1>1, <2>1, <2>2 DEF TablesHold, BillShown
<1> QED BY <1>2, <1>3, <1>4, <1>5, <1>6 DEF TablesHold

LEMMA BillStepOK ==
  ASSUME FloorInv, NEW h \in Handlers, Bill(h) PROVE FloorInv'
<1>1. PICK o : o = handler[h].from
  OBVIOUS
<1>2. PICK s : s = After(h, "release", TablesWith(o), o)
  OBVIOUS
<1>3. /\ handler[h].pc = "bill" /\ Rest /\ UNCHANGED <<order, itemOf, tickets, booking>> /\ Become(h, s)
      /\ table' = [t \in Tables |-> IF table[t].order = o THEN [table[t] EXCEPT !.order = None] ELSE table[t]]
  BY <1>1, <1>2 DEF Bill, At
<1>4. /\ o \in Orders \cap handler[h].on /\ Known(o) /\ TablesWith(o) \subseteq handler[h].on \cup raced
      /\ o \in raced \/ ~OpenBill(o)
  BY <1>1, <1>3, RunsOn DEF Does, BillOK, ClosedOK, TablesIn
<1>5. /\ table' \in [Tables -> [status: TableStatuses, order: Orders \cup {None}]]
      /\ \A t \in Tables : table'[t] = table[t] \/ (table[t].order = o /\ table'[t].order = None)
  BY <1>3 DEF FloorInv, FloorRows
<1>6. StillBill(o) /\ (o \in raced \/ ~OpenBill(o)')
  BY <1>3, <1>4 DEF StillBill, BillRows, FloorInv, FloorRows, Known, OpenBill
<1>7. TablesKept(handler[h].on) /\ OrdersKept(handler[h].on) /\ Seats' /\ TablesHold'
  BY <1>3, <1>4, <1>5, <1>6, LetGoRows DEF Rest
<1>8. Changes(handler[h].on)
  <2>1. TicketsKept(handler[h].on)
    BY <1>3 DEF TicketsKept, SameTicket
  <2> QED BY <1>3, <1>7, <2>1 DEF Changes, Rest, ItemsKept, BookingsKept, EverBooked
<1>9. FloorRows' /\ KitchenHold'
  BY <1>3, <1>7 DEF FloorInv, FloorRows, Seats, BillRows, Known, KitchenHold, CookedOnce, NothingLeft, ItemsOf, Rest
<1>10. /\ s.pc = "release" /\ s.on = handler[h].on /\ s.freed = TablesWith(o) /\ s.from = o
       /\ DOMAIN s = {"pc", "on", "freed", "from", "at", "status"}
  BY <1>2 DEF After
<1>11. handler'[h] = s
  BY <1>3, Turned DEF FloorInv
<1>12. FreeingOK(h)'
  BY <1>3, <1>4, <1>10, <1>11 DEF FreeingOK, TablesWith, Rest
<1>13. Does(h)'
  BY <1>10, <1>11, <1>12 DEF Does
<1> QED BY <1>3, <1>7, <1>8, <1>9, <1>10, <1>13, StaysOn DEF FloorInv

LEMMA VoidStepOK ==
  ASSUME FloorInv, NEW h \in Handlers, Void(h) PROVE FloorInv'
<1>1. PICK o, keys : o = handler[h].from /\ keys = handler[h].keys
  OBVIOUS
<1>2. PICK s : s = After(h, "release", TablesWith(o), None)
  OBVIOUS
<1>3. /\ handler[h].pc = "void" /\ Rest /\ UNCHANGED <<itemOf, booking>> /\ Become(h, s)
      /\ table' = [t \in Tables |-> IF table[t].order = o THEN [status |-> "available", order |-> None] ELSE table[t]]
      /\ order' = [order EXCEPT ![o].status = "cancelled"]
      /\ tickets' = {IF k.key \in keys THEN [k EXCEPT !.status = "cancelled"] ELSE k : k \in tickets}
  BY <1>1, <1>2 DEF Void, At
<1>4. o \in Orders \cap handler[h].on /\ Known(o) /\ TablesWith(o) \subseteq handler[h].on \cup raced
  BY <1>1, <1>3, RunsOn DEF Does, BillOK, TablesIn
<1>5. /\ table' \in [Tables -> [status: TableStatuses, order: Orders \cup {None}]]
      /\ \A t \in Tables : table'[t] = table[t] \/ (table[t].order = o /\ table'[t].order = None)
  BY <1>3 DEF FloorInv, FloorRows, TableStatuses
<1>6. StillBill(o) /\ ~OpenBill(o)'
  BY <1>3, <1>4 DEF StillBill, BillRows, FloorInv, FloorRows, Known, OpenBill, OrderStatuses
<1>7. TablesKept(handler[h].on) /\ OrdersKept(handler[h].on) /\ Seats' /\ TablesHold'
  BY <1>3, <1>4, <1>5, <1>6, LetGoRows DEF Rest
<1>8. DEFINE New(k) == IF k.key \in keys THEN [k EXCEPT !.status = "cancelled"] ELSE k
<1>9. \A l : l \in tickets' <=> \E k \in tickets : l = New(k)
  BY <1>3
<1>10. ASSUME NEW k \in tickets
       PROVE  /\ TicketOK(New(k)) /\ New(k).key = k.key /\ New(k).items = k.items /\ New(k).order = k.order
              /\ New(k) = k \/ New(k).status = "cancelled"
  BY DEF TicketOK, FloorInv, FloorRows, TicketStatuses
<1> HIDE DEF New
<1>11. Changes(handler[h].on)
  <2>1. TicketsKept(handler[h].on)
    BY <1>9, <1>10 DEF TicketsKept, SameTicket
  <2> QED BY <1>3, <1>7, <2>1 DEF Changes, Rest, ItemsKept, BookingsKept, EverBooked
<1>12. FloorRows'
  <2>1. \A k \in tickets' : TicketOK(k) /\ Known(k.order)'
    BY <1>7, <1>9, <1>10 DEF FloorInv, FloorRows, TicketOK, OrdersKept
  <2>2. ASSUME NEW k \in tickets', NEW l \in tickets', k.key = l.key PROVE k = l
    <3>1. PICK a \in tickets, b \in tickets : k = New(a) /\ l = New(b)
      BY <1>9
    <3> QED BY <1>10, <2>2, <3>1 DEF FloorInv, FloorRows
  <2> QED BY <1>3, <1>7, <2>1, <2>2 DEF FloorInv, FloorRows, Seats, BillRows
<1>13. KitchenHold'
  <2>1. CookedOnce'
    <3>1. ASSUME NEW i \in Items \ raced, NEW k \in tickets', NEW l \in tickets', On(k, i), On(l, i) PROVE k = l
      <4>1. PICK a \in tickets, b \in tickets : k = New(a) /\ l = New(b)
        BY <1>9
      <4>2. k = a /\ l = b
        BY <1>10, <3>1, <4>1 DEF On
      <4> QED BY <3>1, <4>2 DEF FloorInv, KitchenHold, CookedOnce
    <3> QED BY <1>3, <3>1 DEF CookedOnce, Rest
  <2>2. NothingLeft'
    <3>1. \A p \in Orders : order'[p].ext = order[p].ext
      BY <1>6 DEF StillBill
    <3> QED BY <1>3, <1>9, <1>10, <3>1 DEF FloorInv, KitchenHold, NothingLeft, ItemsOf, Rest
  <2> QED BY <2>1, <2>2 DEF KitchenHold
<1>14. /\ s.pc = "release" /\ s.on = handler[h].on /\ s.freed = TablesWith(o) /\ s.from = None
       /\ DOMAIN s = {"pc", "on", "freed", "from", "at", "status"}
  BY <1>2 DEF After
<1>15. handler'[h] = s
  BY <1>3, Turned DEF FloorInv
<1>16. FreeingOK(h)'
  BY <1>3, <1>4, <1>14, <1>15 DEF FreeingOK, TablesWith, Rest
<1>17. Does(h)'
  BY <1>14, <1>15, <1>16 DEF Does
<1> QED BY <1>3, <1>7, <1>11, <1>12, <1>13, <1>14, <1>17, StaysOn DEF FloorInv

(* Table to gets order o; table at, which had order from, none. *)
LEMMA MovedRows ==
  ASSUME FloorInv, NEW W, NEW at \in Tables \cap W, NEW to \in Tables \cap W,
         NEW from \in Orders \cap W, NEW o \in Orders \cap W, Known(from), Known(o),
         Has(at, from), Seated(from, at), Has(to, None) \/ Has(to, o),
         table' = [table EXCEPT ![at] = [status |-> "cleaning", order |-> None],
                                ![to] = [status |-> "occupied", order |-> o]],
         order' \in [Orders -> BillRows], \A p \in Orders : p # from => order'[p] = order[p],
         Known(from)', o \in raced \/ (order'[o].ext /\ order'[o].at = to),
         o = from \/ (Seated(o, to) /\ (from \in raced \/ ~OpenBill(from)')),
         UNCHANGED <<booking, raced>>
  PROVE  TablesKept(W) /\ OrdersKept(W) /\ Seats' /\ TablesHold'
<1>1. FloorRows /\ TablesHold
  BY DEF FloorInv
<1>2. /\ table' \in [Tables -> [status: TableStatuses, order: Orders \cup {None}]]
      /\ table'[to] = [status |-> "occupied", order |-> o]
      /\ at # to => table'[at] = [status |-> "cleaning", order |-> None]
      /\ \A u \in Tables : u \notin {at, to} => table'[u] = table[u]
  BY <1>1 DEF FloorRows, TableStatuses
<1>3. TablesKept(W)
  <2> SUFFICES ASSUME NEW u \in Tables
               PROVE  /\ u \in W \cup raced \/ table'[u] = table[u]
                      /\ table'[u].order \in {table[u].order, None} \/ (u \in W /\ table'[u].order \in W)
    BY DEF TablesKept
  <2>1. CASE u = to
    BY <1>2, <2>1
  <2>2. CASE u = at /\ at # to
    BY <1>2, <2>2
  <2>3. CASE u \notin {at, to}
    BY <1>2, <2>3
  <2> QED BY <2>1, <2>2, <2>3
<1>4. OrdersKept(W)
  BY DEF OrdersKept, Known
<1>5. Seats'
  <2>1. (\A u \in Tables : table[u].order # None => Known(table[u].order))'
    <3>1. \A u \in Tables : table'[u].order \in {table[u].order, None, o}
      BY <1>2
    <3> QED BY <1>1, <1>4, <3>1 DEF FloorRows, OrdersKept
  <2>2. \A p \in Orders : order'[p].ext => Known(p)'
    BY <1>1, <1>4 DEF FloorRows, OrdersKept
  <2> QED BY <1>2, <2>1, <2>2 DEF Seats
<1>6. PointsBack'
  <2> SUFFICES ASSUME NEW p \in Orders \ raced, NEW u \in Tables, table'[u].order = p
               PROVE  order'[p].ext /\ order'[p].at = u
    BY DEF PointsBack
  <2>1. CASE u = to
    BY <1>2, <2>1
  <2>2. CASE u # to
    <3>1. table[u].order = p /\ u # at
      BY <1>2, <2>2, DiningAssumption
    <3>2. order[p].ext /\ order[p].at = u
      BY <1>1, <3>1 DEF TablesHold, PointsBack
    <3>3. p # from
      BY <3>1, <3>2 DEF Seated
    <3> QED BY <3>2, <3>3
  <2> QED BY <2>1, <2>2
<1>7. NotOffered'
  <2> SUFFICES ASSUME NEW u \in Tables \ raced, table'[u].order # None PROVE table'[u].status # "available"
    BY DEF NotOffered
  <2>1. CASE u \in {at, to}
    BY <1>2, <2>1
  <2>2. CASE u \notin {at, to}
    BY <1>1, <1>2, <2>2 DEF TablesHold, NotOffered
  <2> QED BY <2>1, <2>2
<1>8. BillShown'
  <2> SUFFICES ASSUME NEW p \in Orders \ raced, OpenBill(p)', order'[p].at # None, order'[p].at \notin raced
               PROVE  table'[order'[p].at].order = p \/ EverBooked(order'[p].at)
    BY DEF BillShown, EverBooked
  <2>1. CASE p = o
    BY <1>2, <2>1
  <2>2. CASE p # o
    <3>1. p # from /\ order'[p] = order[p] /\ OpenBill(p)
      BY <2>2 DEF OpenBill
    <3>2. order[p].at \in Tables /\ (table[order[p].at].order = p \/ EverBooked(order[p].at))
      BY <1>1, <3>1 DEF FloorRows, TablesHold, BillShown
    <3>3. CASE order[p].at \in {at, to}
      BY <2>2, <3>1, <3>2, <3>3, DiningAssumption DEF Has
    <3>4. CASE order[p].at \notin {at, to}
      BY <1>2, <3>1, <3>2, <3>4
    <3> QED BY <3>3, <3>4
  <2> QED BY <2>1, <2>2
<1>9. OpenIsDining'
  BY <1>1 DEF TablesHold, OpenIsDining, OpenBill
<1> QED BY <1>3, <1>4, <1>5, <1>6, <1>7, <1>8, <1>9 DEF TablesHold

LEMMA MoveStepOK ==
  ASSUME FloorInv, NEW h \in Handlers, MoveTable(h) PROVE FloorInv'
<1>1. PICK at, to, o : at = handler[h].at /\ to = handler[h].to /\ o = handler[h].from
  OBVIOUS
<1>2. /\ handler[h].pc = "move" /\ Rest /\ UNCHANGED <<itemOf, tickets, booking>> /\ Done(h)
      /\ table' = [table EXCEPT ![at] = [status |-> "cleaning", order |-> None],
                                ![to] = [status |-> "occupied", order |-> o]]
      /\ order' = [order EXCEPT ![o].at = IF order[o].ext THEN to ELSE None]
  BY <1>1 DEF MoveTable, At
<1>3. /\ at \in Tables \cap handler[h].on /\ to \in Tables \cap handler[h].on /\ o \in Orders \cap handler[h].on
      /\ Has(at, o) /\ Seated(o, at) /\ (Has(to, None) \/ Has(to, o)) /\ Known(o)
  BY <1>1, <1>2, RunsOn DEF Does, MoveOK
<1>4. /\ order' \in [Orders -> BillRows] /\ \A p \in Orders : p # o => order'[p] = order[p]
      /\ order'[o].status = order[o].status /\ order'[o].ext = order[o].ext
      /\ order'[o].at = IF order[o].ext THEN to ELSE None
  BY <1>2, <1>3 DEF FloorInv, FloorRows, BillRows
<1>5. Known(o)' /\ (o \in raced \/ (order'[o].ext /\ order'[o].at = to))
  BY <1>3, <1>4 DEF Seated, Known
<1>6. TablesKept(handler[h].on) /\ OrdersKept(handler[h].on) /\ Seats' /\ TablesHold'
  BY <1>2, <1>3, <1>4, <1>5, MovedRows DEF Rest
<1>7. Changes(handler[h].on)
  <2>1. TicketsKept(handler[h].on)
    BY <1>2 DEF TicketsKept, SameTicket
  <2> QED BY <1>2, <1>6, <2>1 DEF Changes, Rest, ItemsKept, BookingsKept, EverBooked
<1>8. FloorRows'
  <2>1. \A k \in tickets : TicketOK(k) /\ Known(k.order)'
    BY <1>6 DEF FloorInv, FloorRows, TicketOK, OrdersKept
  <2> QED BY <1>2, <1>6, <2>1 DEF FloorInv, FloorRows, Seats, BillRows
<1>9. KitchenHold'
  BY <1>2, <1>4 DEF FloorInv, KitchenHold, CookedOnce, NothingLeft, ItemsOf, Rest
<1> QED BY <1>2, <1>6, <1>7, <1>8, <1>9, WorkEnds DEF FloorInv, Rest

LEMMA MergeStepOK ==
  ASSUME FloorInv, NEW h \in Handlers, MergeTables(h) PROVE FloorInv'
<1>1. PICK at, to, from, into :
        at = handler[h].at /\ to = handler[h].to /\ from = handler[h].from /\ into = handler[h].into
  OBVIOUS
<1>2. PICK o : o = IF into = None THEN from ELSE into
  OBVIOUS
<1>3. /\ handler[h].pc = "merge" /\ Rest /\ UNCHANGED booking /\ Done(h)
      /\ table' = [table EXCEPT ![at] = [status |-> "cleaning", order |-> None],
                                ![to] = [status |-> "occupied", order |-> o]]
  BY <1>1, <1>2 DEF MergeTables, At
<1>4. /\ at \in Tables \cap handler[h].on /\ to \in Tables \cap handler[h].on /\ from \in Orders \cap handler[h].on
      /\ Has(at, from) /\ Seated(from, at) /\ Has(to, into) /\ Known(from) /\ into # from
      /\ into # None => into \in Orders \cap handler[h].on /\ Seated(into, to) /\ Known(into)
  BY <1>1, <1>3, RunsOn DEF Does, MergeOK
<1>5. CASE into = None
  <2>1. /\ order' = [order EXCEPT ![from].at = IF order[from].ext THEN to ELSE None]
        /\ UNCHANGED <<itemOf, tickets>> /\ o = from
    BY <1>1, <1>2, <1>5 DEF MergeTables
  <2>2. /\ order' \in [Orders -> BillRows] /\ \A p \in Orders : p # o => order'[p] = order[p]
        /\ order'[o].status = order[o].status /\ order'[o].ext = order[o].ext
        /\ order'[o].at = IF order[o].ext THEN to ELSE None
    BY <1>4, <2>1 DEF FloorInv, FloorRows, BillRows
  <2>3. Known(o)' /\ (o \in raced \/ (order'[o].ext /\ order'[o].at = to))
    BY <1>4, <2>1, <2>2 DEF Seated, Known
  <2>4. TablesKept(handler[h].on) /\ OrdersKept(handler[h].on) /\ Seats' /\ TablesHold'
    BY <1>3, <1>4, <1>5, <2>1, <2>2, <2>3, MovedRows DEF Rest
  <2>5. Changes(handler[h].on)
    <3>1. TicketsKept(handler[h].on)
      BY <2>1 DEF TicketsKept, SameTicket
    <3> QED BY <1>3, <2>1, <2>4, <3>1 DEF Changes, Rest, ItemsKept, BookingsKept, EverBooked
  <2>6. FloorRows'
    <3>1. \A k \in tickets : TicketOK(k) /\ Known(k.order)'
      BY <2>4 DEF FloorInv, FloorRows, TicketOK, OrdersKept
    <3> QED BY <1>3, <2>1, <2>4, <3>1 DEF FloorInv, FloorRows, Seats, BillRows
  <2>7. KitchenHold'
    BY <1>3, <2>1, <2>2 DEF FloorInv, KitchenHold, CookedOnce, NothingLeft, ItemsOf, Rest
  <2> QED BY <1>3, <2>4, <2>5, <2>6, <2>7, WorkEnds DEF FloorInv, Rest
<1>6. CASE into # None
  <2>1. /\ itemOf' = [i \in Items |-> IF itemOf[i] = from THEN into ELSE itemOf[i]]
        /\ tickets' = {IF k.order = from THEN [k EXCEPT !.order = into] ELSE k : k \in tickets}
        /\ order' = [order EXCEPT ![from] =
             [@ EXCEPT !.status = "cancelled", !.ext = FALSE, !.at = None, !.parked = FALSE]]
    BY <1>1, <1>6 DEF MergeTables, MovedItems, MovedTickets
  <2>2. o = into /\ into \in Orders \cap handler[h].on /\ Seated(into, to) /\ Known(into)
    BY <1>2, <1>4, <1>6
  <2>3. PICK bill : bill = [order[from] EXCEPT !.status = "cancelled", !.ext = FALSE, !.at = None, !.parked = FALSE]
    OBVIOUS
  <2>4. order[from] \in BillRows /\ order' = [order EXCEPT ![from] = bill]
    BY <1>4, <2>1, <2>3 DEF FloorInv, FloorRows, BillRows
  <2>5. bill \in BillRows /\ bill.status = "cancelled" /\ ~bill.ext
    BY <2>3, <2>4 DEF BillRows, OrderStatuses
  <2>6. /\ order' \in [Orders -> BillRows] /\ \A p \in Orders : p # from => order'[p] = order[p]
        /\ order'[from] = bill
    BY <1>4, <2>4, <2>5 DEF FloorInv, FloorRows, BillRows
  <2>7. Known(from)' /\ ~OpenBill(from)' /\ (into \in raced \/ (order'[into].ext /\ order'[into].at = to))
    BY <1>4, <2>2, <2>5, <2>6 DEF Known, OpenBill, Seated
  <2>8. TablesKept(handler[h].on) /\ OrdersKept(handler[h].on) /\ Seats' /\ TablesHold'
    BY <1>3, <1>4, <2>2, <2>6, <2>7, MovedRows DEF Rest
  <2>9. DEFINE New(k) == IF k.order = from THEN [k EXCEPT !.order = into] ELSE k
  <2>10. \A l : l \in tickets' <=> \E k \in tickets : l = New(k)
    BY <2>1
  <2>11. ASSUME NEW k \in tickets
         PROVE  /\ TicketOK(New(k)) /\ New(k).key = k.key /\ New(k).items = k.items /\ New(k).status = k.status
                /\ New(k).order = IF k.order = from THEN into ELSE k.order
    BY <2>2 DEF TicketOK, FloorInv, FloorRows
  <2> HIDE DEF New
  <2>12. itemOf' \in [Items -> Orders \cup {None}] /\ ItemsKept
    BY <2>1, <2>2, DiningAssumption DEF ItemsKept, FloorInv, FloorRows
  <2>13. Changes(handler[h].on)
    <3>1. TicketsKept(handler[h].on)
      BY <2>10, <2>11 DEF TicketsKept, SameTicket
    <3> QED BY <1>3, <2>8, <2>12, <3>1 DEF Changes, Rest, BookingsKept, EverBooked
  <2>14. FloorRows'
    <3>1. \A k \in tickets' : TicketOK(k) /\ Known(k.order)'
      BY <2>2, <2>8, <2>10, <2>11 DEF FloorInv, FloorRows, TicketOK, OrdersKept
    <3>2. ASSUME NEW k \in tickets', NEW l \in tickets', k.key = l.key PROVE k = l
      <4>1. PICK a \in tickets, b \in tickets : k = New(a) /\ l = New(b)
        BY <2>10
      <4> QED BY <2>11, <3>2, <4>1 DEF FloorInv, FloorRows
    <3> QED BY <1>3, <2>8, <2>12, <3>1, <3>2 DEF FloorInv, FloorRows, Seats, BillRows
  <2>15. KitchenHold'
    <3>1. CookedOnce'
      <4>1. ASSUME NEW i \in Items \ raced, NEW k \in tickets', NEW l \in tickets', On(k, i), On(l, i) PROVE k = l
        <5>1. PICK a \in tickets, b \in tickets : k = New(a) /\ l = New(b)
          BY <2>10
        <5>2. On(a, i) /\ On(b, i)
          BY <2>11, <4>1, <5>1 DEF On
        <5> QED BY <5>1, <5>2 DEF FloorInv, KitchenHold, CookedOnce
      <4> QED BY <1>3, <4>1 DEF CookedOnce, Rest
    <3>2. NothingLeft'
      <4> SUFFICES ASSUME NEW p \in Orders \ raced, ~order'[p].ext
                   PROVE  ItemsOf(p)' = {} /\ \A k \in tickets' : k.order # p
        BY <1>3 DEF NothingLeft, Rest
      <4>1. p # into
        BY <2>7
      <4>2. p = from \/ (ItemsOf(p) = {} /\ \A k \in tickets : k.order # p)
        BY <2>6 DEF FloorInv, KitchenHold, NothingLeft
      <4>3. ItemsOf(p)' = {}
        BY <1>4, <2>1, <4>1, <4>2 DEF ItemsOf
      <4>4. \A k \in tickets' : k.order # p
        BY <1>4, <2>10, <2>11, <4>1, <4>2
      <4> QED BY <4>3, <4>4
    <3> QED BY <3>1, <3>2 DEF KitchenHold
  <2> QED BY <1>3, <2>8, <2>13, <2>14, <2>15, WorkEnds DEF FloorInv, Rest
<1> QED BY <1>5, <1>6

-----------------------------------------------------------------------------
(* The floor screen, and the steps together.                                 *)

LEMMA ShowFloorOK ==
  ASSUME FloorInv, ShowFloor PROVE FloorInv'
<1>1. PICK seen : seen = {t \in Tables : Untidy(t)}
  OBVIOUS
<1>2. /\ UNCHANGED rowVars /\ handler' = handler
      /\ raced' = raced \cup (seen \cap UNION {handler[h].on : h \in Handlers})
      /\ screen' \in [seen -> {"available", "reserved"}]
  BY <1>1 DEF ShowFloor
<1>3. Changes({}) /\ FloorRows' /\ TablesHold' /\ KitchenHold'
  BY <1>2, QuietRows
<1>4. RacesKnown'
  BY <1>2 DEF FloorInv, RacesKnown, rowVars, Known
<1>5. ScreenOK'
  BY <1>1, <1>2 DEF ScreenOK, Untidy, Holdable, TableStatuses, rowVars
<1>6. AllDo'
  <2>1. ASSUME NEW g \in Handlers PROVE Does(g)'
    <3>1. Apart({}, handler[g].on)
      BY DEF Apart
    <3> QED BY <1>2, <1>3, <3>1, DoesKept DEF FloorInv, AllDo
  <2> QED BY <1>2, <2>1 DEF FloorInv, AllDo
<1> QED BY <1>3, <1>4, <1>5, <1>6 DEF FloorInv

LEMMA TidyTableOK ==
  ASSUME FloorInv, TidyTable PROVE FloorInv'
<1>1. PICK t \in DOMAIN screen :
        /\ table' = [table EXCEPT ![t].status = screen[t]]
        /\ screen' = [u \in DOMAIN screen \ {t} |-> screen[u]]
        /\ UNCHANGED <<order, itemOf, tickets, booking, handler, raced, calls, together>>
  BY DEF TidyTable
<1>2. t \in Tables /\ screen[t] \in TableStatuses /\ Has(t, None)
  BY DEF FloorInv, ScreenOK, Has
<1>3. Changes({t}) /\ FloorRows' /\ TablesHold' /\ KitchenHold'
  BY <1>1, <1>2, StatusRows
<1>4. RacesKnown'
  BY <1>1 DEF FloorInv, RacesKnown, Known
<1>5. ScreenOK'
  BY <1>1 DEF FloorInv, FloorRows, ScreenOK
<1>6. AllDo'
  <2>1. ASSUME NEW g \in Handlers PROVE Does(g)'
    <3>1. Apart({t}, handler[g].on)
      BY DEF Apart, FloorInv, RacesKnown
    <3> QED BY <1>1, <1>3, <3>1, DoesKept DEF FloorInv, AllDo
  <2> QED BY <1>1, <2>1 DEF FloorInv, AllDo
<1> QED BY <1>3, <1>4, <1>5, <1>6 DEF FloorInv

LEMMA WorkOK ==
  ASSUME FloorInv, NEW h \in Handlers, Work(h) PROVE FloorInv'
BY OpenStepOK, SplitItemsOK, AddItemOK, CountTicketsOK, SendStepOK, UpdateKotOK, GuestOrderOK,
   MoveStepOK, MergeStepOK, VoidStepOK, DiscardOK, PayOK, CloseOK, SaleStepOK, BillStepOK,
   ReleaseOK, ReadHoldOK, ReleasedOK, WriteHoldOK, SetBookingOK
   DEF Work

LEMMA FloorStart ==
  DiningInit => FloorInv
<1> SUFFICES ASSUME DiningInit PROVE FloorInv
  OBVIOUS
<1>1. /\ table = [t \in Tables |->
           [status |-> IF OpenAt[t] = None THEN "available" ELSE "occupied", order |-> OpenAt[t]]]
      /\ itemOf = Bill0 /\ tickets = {} /\ booking = [b \in Bookings |-> "none"]
      /\ handler = [h \in Handlers |-> Resting] /\ screen = <<>> /\ raced = {}
  BY DEF DiningInit
<1>2. ASSUME NEW t \in Tables, OpenAt[t] # None
      PROVE  OpenAt[t] \in Orders /\ order[OpenAt[t]] = NewOrder(t)
  <2>1. PICK o \in Orders : o = OpenAt[t]
    BY <1>2, DiningAssumption
  <2>2. (CHOOSE u \in Tables : OpenAt[u] = o) = t
    BY <1>2, <2>1, DiningAssumption
  <2> QED BY <2>1, <2>2 DEF DiningInit
<1>3. ASSUME NEW o \in Orders, ~\E t \in Tables : OpenAt[t] = o PROVE order[o] = NoOrder
  BY <1>3 DEF DiningInit
<1>4. \A t \in Tables : table[t].order = OpenAt[t] /\ (OpenAt[t] # None => table[t].status = "occupied")
  BY <1>1
<1>5. order \in [Orders -> BillRows]
  <2>1. DOMAIN order = Orders /\ order = [o \in Orders |-> order[o]]
    BY DEF DiningInit
  <2>2. \A t \in Tables : NewOrder(t) \in BillRows
    BY NewOrders
  <2>3. NoOrder \in BillRows
    BY DEF NoOrder, BillRows, OrderStatuses
  <2>4. ASSUME NEW o \in Orders PROVE order[o] \in BillRows
    <3>1. CASE \E t \in Tables : OpenAt[t] = o
      <4>1. PICK t \in Tables : OpenAt[t] = o
        BY <3>1
      <4> QED BY <1>2, <2>2, <4>1, DiningAssumption
    <3>2. CASE ~\E t \in Tables : OpenAt[t] = o
      BY <1>3, <2>3, <3>2
    <3> QED BY <3>1, <3>2
  <2> QED BY <2>1, <2>4
<1>6. ASSUME NEW o \in Orders
      PROVE  \/ \E t \in Tables : OpenAt[t] = o /\ order[o].status = "draft" /\ order[o].ext /\ order[o].at = t
             \/ order[o].status = "none" /\ ~order[o].ext /\ \A t \in Tables : OpenAt[t] # o
  <2>1. CASE \E t \in Tables : OpenAt[t] = o
    BY <1>2, <2>1, NewOrders, DiningAssumption
  <2>2. CASE ~\E t \in Tables : OpenAt[t] = o
    BY <1>3, <2>2 DEF NoOrder
  <2> QED BY <2>1, <2>2
<1>7. FloorRows
  <2>1. table \in [Tables -> [status: TableStatuses, order: Orders \cup {None}]]
    BY <1>1, DiningAssumption DEF TableStatuses
  <2>2. \A t \in Tables : table[t].order # None => Known(table[t].order)
    BY <1>2, <1>4, NewOrders DEF Known
  <2>3. \A o \in Orders : order[o].ext => Known(o)
    BY <1>6 DEF Known
  <2> QED BY <1>1, <1>5, <2>1, <2>2, <2>3, DiningAssumption DEF FloorRows, BillRows, BookingStatuses
<1>8. TablesHold
  <2>1. PointsBack
    BY <1>2, <1>4, NewOrders, DiningAssumption DEF PointsBack
  <2>2. NotOffered
    BY <1>4 DEF NotOffered
  <2>3. BillShown /\ OpenIsDining
    BY <1>4, <1>6 DEF BillShown, OpenIsDining, OpenBill
  <2> QED BY <2>1, <2>2, <2>3 DEF TablesHold
<1>9. KitchenHold
  <2>1. ASSUME NEW o \in Orders, ~order[o].ext PROVE ItemsOf(o) = {}
    BY <1>1, <1>6, <2>1, DiningAssumption DEF ItemsOf
  <2> QED BY <1>1, <2>1 DEF KitchenHold, CookedOnce, NothingLeft
<1>10. RacesKnown /\ ScreenOK /\ AllDo
  <2>1. DOMAIN screen = {}
    BY <1>1
  <2>2. \A h \in Handlers : handler[h].on = {} /\ handler[h].pc = "idle"
    BY <1>1 DEF Resting
  <2> QED BY <1>1, <2>1, <2>2 DEF RacesKnown, ScreenOK, AllDo, Does
<1> QED BY <1>7, <1>8, <1>9, <1>10 DEF FloorInv

LEMMA FloorStutters ==
  ASSUME FloorInv, UNCHANGED diningVars PROVE FloorInv'
<1>1. UNCHANGED rowVars /\ UNCHANGED <<handler, screen, raced>>
  BY DEF diningVars
<1>2. Changes({}) /\ FloorRows' /\ TablesHold' /\ KitchenHold'
  BY <1>1, QuietRows
<1>3. RacesKnown' /\ ScreenOK'
  BY <1>1 DEF FloorInv, RacesKnown, ScreenOK, rowVars, Known
<1>4. AllDo'
  <2>1. ASSUME NEW g \in Handlers PROVE Does(g)'
    <3>1. Apart({}, handler[g].on)
      BY DEF Apart
    <3> QED BY <1>1, <1>2, <3>1, DoesKept DEF FloorInv, AllDo
  <2> QED BY <1>1, <2>1 DEF FloorInv, AllDo
<1> QED BY <1>2, <1>3, <1>4 DEF FloorInv

LEMMA FloorStep ==
  FloorInv /\ [DiningNext]_diningVars => FloorInv'
<1> SUFFICES ASSUME FloorInv, [DiningNext]_diningVars PROVE FloorInv'
  OBVIOUS
<1>1. ASSUME NEW h \in Handlers, Request(h) \/ Work(h) \/ Crash(h) PROVE FloorInv'
  BY <1>1, RequestOK, WorkOK, CrashOK
<1>2. CASE ShowFloor \/ TidyTable
  BY <1>2, ShowFloorOK, TidyTableOK
<1>3. CASE UNCHANGED diningVars
  BY <1>3, FloorStutters
<1> QED BY <1>1, <1>2, <1>3 DEF DiningNext

LEMMA FloorAlways ==
  DiningSpec => []FloorInv
BY FloorStart, FloorStep, PTL DEF DiningSpec

(* What handlers work on are tables, orders and items, and so is what they   *)
(* raced for.                                                                *)
Things == Tables \cup Orders \cup Items
WorkedOn == raced \subseteq Things /\ \A h \in Handlers : handler[h].on \subseteq Things

LEMMA StartedOn ==
  ASSUME FloorInv, WorkedOn, NEW h \in Handlers, NEW s, s.on \subseteq Things, Start(h, s)
  PROVE  WorkedOn'
<1>1. /\ Become(h, s)
      /\ raced' = raced \cup Met(h, s.on) \cup (DOMAIN screen \cap s.on)
  BY DEF Start
<1>2. handler'[h] = s /\ \A g \in Handlers : g # h => handler'[g] = handler[g]
  BY <1>1, Turned DEF FloorInv
<1>3. Met(h, s.on) \subseteq Things
  BY DEF Met, WorkedOn
<1> QED BY <1>1, <1>2, <1>3 DEF WorkedOn, Things

LEMMA TurnedOn ==
  ASSUME FloorInv, WorkedOn, NEW h \in Handlers, NEW s, s.on \subseteq Things, Become(h, s), raced' = raced
  PROVE  WorkedOn'
<1>1. handler'[h] = s /\ \A g \in Handlers : g # h => handler'[g] = handler[g]
  BY Turned DEF FloorInv
<1> QED BY <1>1 DEF WorkedOn, Things

LEMMA RequestOn ==
  ASSUME FloorInv, WorkedOn, NEW h \in Handlers, Request(h)
  PROVE  WorkedOn'
<1>1. ASSUME NEW t \in Tables PROVE Place(t) \subseteq Things
  BY Placed DEF Things
<1>2. ASSUME NEW t \in Tables, BeginOpen(h, t) \/ BeginSale(h, t) PROVE WorkedOn'
  <2>1. \A s : s.on = {t} => s.on \subseteq Things
    BY DEF Things
  <2> QED BY <1>2, <2>1, StartedOn DEF BeginOpen, BeginSale
<1>3. ASSUME NEW t \in Tables, BeginStatus(h, t) PROVE WorkedOn'
  <2>1. PICK status : Start(h, [pc |-> "holdWrite", on |-> {t}, freed |-> {}, from |-> None,
                                at |-> t, status |-> status])
    BY <1>3 DEF BeginStatus
  <2> QED BY <2>1, StartedOn DEF Things
<1>4. ASSUME NEW t \in Tables, BeginGuest(h, t) PROVE WorkedOn'
  BY <1>1, <1>4, StartedOn DEF BeginGuest
<1>5. ASSUME NEW t \in Tables, NEW u \in Tables, BeginMove(h, t, u) PROVE WorkedOn'
  <2>1. Place(t) \cup Place(u) \subseteq Things
    BY <1>1
  <2> QED BY <1>5, <2>1, StartedOn DEF BeginMove
<1>6. ASSUME NEW t \in Tables, NEW u \in Tables, BeginMerge(h, t, u) PROVE WorkedOn'
  <2>1. Place(t) \cup Place(u) \subseteq Things
    BY <1>1
  <2> QED BY <1>6, <2>1, StartedOn DEF BeginMerge
<1>7. ASSUME NEW o \in Orders, BeginAdd(h, o) \/ BeginDiscard(h, o) \/ BeginCheckout(h, o) PROVE WorkedOn'
  <2>1. {o} \subseteq Things
    BY DEF Things
  <2> QED BY <1>7, <2>1, StartedOn DEF BeginAdd, BeginDiscard, BeginCheckout
<1>8. ASSUME NEW o \in Orders, BeginSend(h, o) PROVE WorkedOn'
  <2>1. PICK station : Start(h, Sending(o, station))
    BY <1>8 DEF BeginSend
  <2>2. Sending(o, station).on \subseteq Things
    BY DEF Sending, Pending, ItemsOf, Things
  <2> QED BY <2>1, <2>2, StartedOn
<1>9. ASSUME NEW o \in Orders, BeginVoid(h, o) PROVE WorkedOn'
  <2>1. {o} \cup TablesWith(o) \cup ItemsOf(o) \subseteq Things
    BY DEF TablesWith, ItemsOf, Things
  <2> QED BY <1>9, <2>1, StartedOn DEF BeginVoid
<1>10. ASSUME NEW o \in Orders, NEW t \in Tables \cup {None}, BeginSplit(h, o, t) PROVE WorkedOn'
  <2>1. PICK moved \in SUBSET ItemsOf(o) :
          Start(h, [pc |-> "open", on |-> {o} \cup moved \cup ({t} \ {None}),
                    at |-> t, from |-> o, items |-> moved])
    BY <1>10 DEF BeginSplit
  <2>2. {o} \cup moved \cup ({t} \ {None}) \subseteq Things
    BY DEF ItemsOf, Things
  <2> QED BY <2>1, <2>2, StartedOn
<1>11. ASSUME BeginKot(h) PROVE WorkedOn'
  <2>1. PICK k \in tickets : \E status : Start(h, [pc |-> "kot", on |-> {k.order} \cup k.items,
                                                   key |-> k.key, status |-> status])
    BY <1>11 DEF BeginKot
  <2>2. {k.order} \cup k.items \subseteq Things
    BY DEF FloorInv, FloorRows, TicketOK, Things
  <2> QED BY <2>1, <2>2, StartedOn
<1>12. ASSUME NEW b \in Bookings, BeginBook(h, b) \/ BeginBooking(h, b) PROVE WorkedOn'
  <2>1. PICK status : Start(h, [pc |-> "booking", on |-> {BookingAt[b]}, booking |-> b, status |-> status])
    BY <1>12 DEF BeginBook, BeginBooking
  <2>2. {BookingAt[b]} \subseteq Things
    BY DiningAssumption DEF Things
  <2> QED BY <2>1, <2>2, StartedOn
<1> QED
  BY <1>2, <1>3, <1>4, <1>5, <1>6, <1>7, <1>8, <1>9, <1>10, <1>11, <1>12 DEF Request

(* A step goes on with what it has, or an order or pending items besides.    *)
LEMMA WorkOn ==
  ASSUME FloorInv, WorkedOn, NEW h \in Handlers, Work(h) \/ Crash(h)
  PROVE  WorkedOn'
<1>1. handler[h].on \subseteq Things /\ Does(h)
  BY RunsOn DEF WorkedOn
<1>2. CASE Done(h) /\ raced' = raced
  BY <1>2, TurnedOn DEF Done, Resting
<1>3. CASE Open(h) /\ handler[h].from # None
  <2>1. FreshOrder \in Things
    BY <1>3, NewBill DEF Open, Things
  <2>2. OpenOK(h)
    BY <1>1, <1>3 DEF Open, At, Does
  <2>3. [handler[h] EXCEPT !.pc = "split", !.on = @ \cup {FreshOrder}, !.at = FreshOrder].on
          = handler[h].on \cup {FreshOrder}
    BY <2>2 DEF OpenOK
  <2> QED BY <1>1, <1>3, <2>1, <2>3, TurnedOn DEF Open, Rest
<1>4. CASE CountTickets(h)
  <2>1. SendOK(h)
    BY <1>1, <1>4 DEF CountTickets, At, Does
  <2>2. [handler[h] EXCEPT !.pc = "send", !.counted = Counted].on = handler[h].on
    BY <2>1 DEF SendOK
  <2> QED BY <1>1, <1>4, <2>2, TurnedOn DEF CountTickets, Rest
<1>5. CASE Void(h) \/ Bill(h)
  <2>1. \A pc, freed, o : After(h, pc, freed, o).on = handler[h].on
    BY DEF After
  <2> QED BY <1>1, <1>5, <2>1, TurnedOn DEF Void, Bill, Rest
<1>6. CASE Pay(h)
  <2>1. DOMAIN handler[h] = {"pc", "on", "from", "open"}
    BY <1>1, <1>6 DEF Pay, At, Does
  <2>2. PICK s : /\ s = [handler[h] EXCEPT !.pc = "close",
                          !.open = order[handler[h].from].status \notin {"closed", "cancelled"}]
                 /\ Become(h, s) /\ raced' = raced
    BY <1>6 DEF Pay, Rest
  <2>3. s.on = handler[h].on
    BY <2>1, <2>2
  <2> QED BY <1>1, <2>2, <2>3, TurnedOn
<1>7. CASE Sale(h)
  <2>1. {handler[h].at, FreshOrder} \subseteq Things
    BY <1>1, <1>7, NewBill DEF Sale, At, Does, SaleOK, Things
  <2> QED BY <1>7, <2>1, TurnedOn DEF Sale, Rest
<1>8. CASE Release(h) \/ ReadHold(h) \/ WriteHold(h)
  <2>1. FreeingOK(h)
    BY <1>1, <1>8 DEF Release, ReadHold, WriteHold, At, Does
  <2>2. \E s : Become(h, s) /\ s.on = handler[h].on
    <3>1. [handler[h] EXCEPT !.pc = "hold"].on = handler[h].on
      BY <2>1 DEF FreeingOK
    <3>2. CASE Release(h) \/ WriteHold(h)
      BY <3>1, <3>2 DEF Release, WriteHold
    <3>3. CASE ReadHold(h)
      <4>1. \A t : LET rest == [handler[h] EXCEPT !.freed = @ \ {t}] IN
              /\ rest.on = handler[h].on
              /\ \A s : [rest EXCEPT !.pc = "holdWrite", !.at = t, !.status = s].on = handler[h].on
        BY <2>1 DEF FreeingOK
      <4> QED BY <3>3, <4>1 DEF ReadHold
    <3> QED BY <1>8, <3>2, <3>3
  <2> QED BY <1>1, <1>8, <2>2, TurnedOn DEF Release, ReadHold, WriteHold, Rest
<1>9. CASE Released(h)
  <2>1. FreeingOK(h)
    BY <1>1, <1>9 DEF Released, At, Does
  <2>2. PICK s : /\ s = Resting \/ (s = Sending(handler[h].from, None) /\ handler[h].from # None)
                 /\ Become(h, s) /\ raced' = raced \cup Met(h, s.on)
    BY <1>9 DEF Released
  <2>3. s.on \subseteq Things
    BY <2>1, <2>2 DEF Resting, Sending, Pending, ItemsOf, FreeingOK, Things
  <2>4. handler'[h] = s /\ \A g \in Handlers : g # h => handler'[g] = handler[g]
    BY <2>2, Turned DEF FloorInv
  <2>5. Met(h, s.on) \subseteq Things
    BY <2>3 DEF Met, WorkedOn
  <2> QED BY <2>2, <2>3, <2>4, <2>5 DEF WorkedOn
<1>10. CASE SetBooking(h)
  <2>1. \A freed : After(h, "hold", freed, None).on = handler[h].on
    BY DEF After
  <2>2. \A t : [After(h, "holdWrite", {}, None) EXCEPT !.at = t, !.status = "occupied"].on = handler[h].on
    BY DEF After
  <2>3. PICK s : s.on = handler[h].on /\ Become(h, s) /\ raced' = raced
    <3>1. CASE handler[h].status = "seated"
      BY <1>10, <2>2, <3>1 DEF SetBooking, Rest
    <3>2. CASE handler[h].status # "seated"
      BY <1>10, <2>1, <3>2 DEF SetBooking, Rest
    <3> QED BY <3>1, <3>2
  <2> QED BY <1>1, <2>3, TurnedOn
<1> QED
  BY <1>2, <1>3, <1>4, <1>5, <1>6, <1>7, <1>8, <1>9, <1>10
     DEF Work, Crash, Open, SplitItems, AddItem, Send, UpdateKot, GuestOrder, MoveTable, MergeTables,
         Discard, Close, Rest

LEMMA WorkedOnStep ==
  FloorInv /\ WorkedOn /\ [DiningNext]_diningVars => WorkedOn'
<1> SUFFICES ASSUME FloorInv, WorkedOn, [DiningNext]_diningVars PROVE WorkedOn'
  OBVIOUS
<1>1. CASE ShowFloor
  BY <1>1 DEF ShowFloor, WorkedOn, Things
<1>2. CASE TidyTable
  BY <1>2 DEF TidyTable, WorkedOn
<1>3. CASE UNCHANGED diningVars
  BY <1>3 DEF diningVars, WorkedOn
<1> QED BY <1>1, <1>2, <1>3, RequestOn, WorkOn DEF DiningNext

(* The rows of tables, orders, items and reservations have their types, and  *)
(* requests race for tables, orders and items only (the columns of           *)
(* restaurant_tables, restaurant_orders, order_items, dining_reservations).  *)
THEOREM DiningTypeCorrect == DiningSpec => []DiningTypes
<1>1. DiningInit => WorkedOn
  BY DEF DiningInit, WorkedOn, Resting
<1>2. FloorInv /\ WorkedOn => DiningTypes
  BY DEF FloorInv, FloorRows, WorkedOn, Things, DiningTypes, OrderStatuses, BookingStatuses
<1> QED BY <1>1, <1>2, WorkedOnStep, FloorStart, FloorStep, PTL DEF DiningSpec

(* Tables and orders point at each other, for any number of tables, orders,  *)
(* reservations and handlers: what no two requests worked on at once agrees, *)
(* after every step of every request, of the floor screen and of a crash.    *)
THEOREM TablesPointBack == DiningSpec => []TablesAgree
<1>1. FloorInv => TablesAgree
  <2> SUFFICES ASSUME FloorInv PROVE TablesAgree
    OBVIOUS
  <2>1. ASSUME NEW t \in Tables, table[t].order # None, Clean({t, table[t].order})
        PROVE  /\ order[table[t].order].ext /\ order[table[t].order].at = t
               /\ table[t].status # "available"
    <3>1. table[t].order \in Orders \ raced /\ t \notin raced
      BY <2>1 DEF Clean, FloorInv, FloorRows
    <3> QED BY <2>1, <3>1 DEF FloorInv, TablesHold, PointsBack, NotOffered
  <2>2. ASSUME NEW o \in Orders, OpenBill(o), order[o].at # None, Clean({order[o].at, o})
        PROVE  table[order[o].at].order = o \/ EverBooked(order[o].at)
    BY <2>2 DEF Clean, FloorInv, TablesHold, BillShown
  <2> QED BY <2>1, <2>2 DEF TablesAgree, OpenBill, EverBooked
<1> QED BY <1>1, FloorAlways, PTL

(* An item is cooked once and a merged bill leaves nothing behind, for any   *)
(* number of items, bills and handlers, unless two requests raced on them.   *)
THEOREM CookedOnceOnly == DiningSpec => []KitchenAgrees
<1>1. FloorInv => KitchenAgrees
  <2> SUFFICES ASSUME FloorInv PROVE KitchenAgrees
    OBVIOUS
  <2>1. ASSUME NEW i \in Items \ raced
        PROVE  Cardinality({k \in tickets : k.status # "cancelled" /\ i \in k.items}) <= 1
    <3>1. PICK active : active = {k \in tickets : k.status # "cancelled" /\ i \in k.items}
      OBVIOUS
    <3>2. \A k, l \in active : k = l
      BY <3>1 DEF FloorInv, KitchenHold, CookedOnce, On
    <3>3. CASE active = {}
      <4>1. Cardinality(active) = 0
        BY <3>3, FS_EmptySet
      <4> QED BY <3>1, <4>1
    <3>4. CASE active # {}
      <4>1. PICK k : active = {k}
        BY <3>2, <3>4
      <4>2. Cardinality(active) = 1
        BY <4>1, FS_Singleton
      <4> QED BY <3>1, <4>2
    <3> QED BY <3>3, <3>4
  <2> QED BY <2>1 DEF KitchenAgrees, FloorInv, KitchenHold, NothingLeft
<1> QED BY <1>1, FloorAlways, PTL
=============================================================================
