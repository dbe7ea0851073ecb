---------------------------- MODULE StockEngine ----------------------------
(***************************************************************************)
(* The stock mutation engine (inventory/stock-mutation.engine.ts) as run   *)
(* by concurrent Postgres transactions at READ COMMITTED.                  *)
(*                                                                         *)
(* A transaction is the list of engine calls its caller makes: mutateInTx  *)
(* on several lines of a sale or a receipt, adjustReserved for a           *)
(* reservation.  Each SQL statement that another transaction can           *)
(* interleave with is an action.  A row has two versions: the committed    *)
(* one (db...) and the one its writer sees; the row lock taken by          *)
(* SELECT ... FOR UPDATE, by UPDATE, or by the insert under a unique index *)
(* is held until the transaction ends.                                     *)
(***************************************************************************)
EXTENDS StockOps

CONSTANTS
  Workers,    \* database sessions, each running one transaction at a time
  NoWorker,   \* no session holds the row
  MaxBegun    \* bound: how many transactions are started

ASSUME SessionsAssumption ==
  /\ NoWorker \notin Workers
  /\ MaxBegun \in Nat

VARIABLES
  level,     \* stock_levels as their writer sees them, with their ledger
  dbLevel,   \* stock_levels as committed
  lock,      \* the session that holds each level's row lock
  row,       \* inventory_idempotency rows as their writer sees them
  dbRow,     \* inventory_idempotency rows as committed
  rowOwner,  \* the session with an uncommitted insert of each key
  tx,        \* what each session is executing
  begun      \* transactions started so far

vars == <<level, dbLevel, lock, row, dbRow, rowOwner, tx, begun>>

Idle == [pc |-> "idle", todo |-> <<>>]
Pc == {"idle", "find", "insert", "lock", "apply", "reserve", "result", "commit"}

-----------------------------------------------------------------------------

(* Where the next call of a transaction starts. *)
EntryPoint(todo) ==
  IF todo = <<>> THEN "commit"
  ELSE IF Head(todo).kind # "mutate" THEN Head(todo).kind
  ELSE IF Head(todo).key # NoKey THEN "find"
  ELSE "lock"

Run(todo) == [pc |-> EntryPoint(todo), todo |-> todo]

Call(w) == Head(tx[w].todo)

(* The call returns and its caller goes on with the next one. *)
Return(w) == tx' = [tx EXCEPT ![w] = Run(Tail(tx[w].todo))]

(* A statement waits while another session holds the row it writes. *)
CanLock(w, l) == lock[l] \in {NoWorker, w}
CanInsert(w, k) == rowOwner[k] \in {NoWorker, w}

(* findUnique at READ COMMITTED: committed rows and one's own writes. *)
VisibleRow(w, k) == IF rowOwner[k] = w THEN row[k] ELSE dbRow[k]

-----------------------------------------------------------------------------

Init ==
  /\ level = [l \in Levels |-> OpeningRow(l)]
  /\ dbLevel = level
  /\ lock = [l \in Levels |-> NoWorker]
  /\ row = [k \in Keys |-> NoRow]
  /\ dbRow = row
  /\ rowOwner = [k \in Keys |-> NoWorker]
  /\ tx = [w \in Workers |-> Idle]
  /\ begun = 0

(* A caller opens a transaction; the same body may be submitted again, as a *)
(* client does that never saw the answer.                                    *)
Begin(w) ==
  /\ tx[w].pc = "idle"
  /\ begun < MaxBegun
  /\ \E r \in Requests : tx' = [tx EXCEPT ![w] = Run(r)]
  /\ begun' = begun + 1
  /\ UNCHANGED <<level, dbLevel, lock, row, dbRow, rowOwner>>

(* The transaction rolls back and gives its locks up. *)
Rollback(w) ==
  /\ level' = [l \in Levels |-> IF lock[l] = w THEN dbLevel[l] ELSE level[l]]
  /\ lock' = [l \in Levels |-> IF lock[l] = w THEN NoWorker ELSE lock[l]]
  /\ row' = [k \in Keys |-> IF rowOwner[k] = w THEN dbRow[k] ELSE row[k]]
  /\ rowOwner' = [k \in Keys |-> IF rowOwner[k] = w THEN NoWorker ELSE rowOwner[k]]
  /\ tx' = [tx EXCEPT ![w] = Idle]
  /\ UNCHANGED <<dbLevel, dbRow, begun>>

(* An existing idempotency row: the recorded result is returned, unless the *)
(* request that owns it is in flight, which is an error.                    *)
Replay(w, r) ==
  IF r.st = "done"
  THEN Return(w) /\ UNCHANGED <<level, dbLevel, lock, row, dbRow, rowOwner, begun>>
  ELSE Rollback(w)

FindKey(w) ==
  /\ tx[w].pc = "find"
  /\ LET r == VisibleRow(w, Call(w).key) IN
       \/ /\ r.st = "none"
          /\ tx' = [tx EXCEPT ![w].pc = "insert"]
          /\ UNCHANGED <<level, dbLevel, lock, row, dbRow, rowOwner, begun>>
       \/ r.st # "none" /\ Replay(w, r)

(* Fault: an upsert in the place of the insert. *)
UpsertKey(w) ==
  /\ tx[w].pc = "insert"
  /\ CanInsert(w, Call(w).key)
  /\ row' = [row EXCEPT ![Call(w).key] = PendingRow]
  /\ rowOwner' = [rowOwner EXCEPT ![Call(w).key] = w]
  /\ tx' = [tx EXCEPT ![w].pc = "lock"]
  /\ UNCHANGED <<level, dbLevel, lock, dbRow, begun>>

(* The insert waits for another session's insert of the key.  When that one *)
(* has committed, the unique index raises P2002, the savepoint is rolled    *)
(* back and the winner's row is read.                                       *)
InsertKey(w) ==
  /\ tx[w].pc = "insert"
  /\ LET k == Call(w).key IN
       /\ CanInsert(w, k)
       /\ \/ /\ row[k].st = "none"
             /\ row' = [row EXCEPT ![k] = PendingRow]
             /\ rowOwner' = [rowOwner EXCEPT ![k] = w]
             /\ tx' = [tx EXCEPT ![w].pc = "lock"]
             /\ UNCHANGED <<level, dbLevel, lock, dbRow, begun>>
          \/ row[k].st # "none" /\ Replay(w, row[k])

(* SELECT ... FOR UPDATE: the row read is the latest committed one. *)
LockLevel(w) ==
  /\ tx[w].pc = "lock"
  /\ CanLock(w, Call(w).lv)
  /\ lock' = [lock EXCEPT ![Call(w).lv] = w]
  /\ tx' = [tx EXCEPT ![w].pc = "apply"]
  /\ UNCHANGED <<level, dbLevel, row, dbRow, rowOwner, begun>>

(* Fault: only recipes consume their components, bundles do not. *)
PartsOfRecipes(w) ==
  IF IsRecipeParent(Call(w)) THEN ConsumeComponents(Call(w).lv, -Call(w).qty) ELSE <<>>

(* What a mutation leaves to do: a bundle or recipe that is sold consumes   *)
(* its components, then the idempotency row is updated with the result.     *)
Parts(w) ==
  IF ~Call(w).comp /\ Call(w).qty < 0
  THEN ConsumeComponents(Call(w).lv, -Call(w).qty) ELSE <<>>

Res(w, delta) == ResultOp(Call(w), level[Call(w).lv].onHand, delta)

GoOn(w, delta) ==
  tx' = [tx EXCEPT ![w] = Run(Parts(w) \o Res(w, delta) \o Tail(tx[w].todo))]

(* The stock of a recipe itself does not move. *)
ApplyRecipe(w) ==
  /\ tx[w].pc = "apply"
  /\ IsRecipeParent(Call(w))
  /\ GoOn(w, 0)
  /\ UNCHANGED <<level, dbLevel, lock, row, dbRow, rowOwner, begun>>

(* The guarded UPDATE and the ledger row. *)
ApplyLevel(w) ==
  /\ tx[w].pc = "apply"
  /\ ~IsRecipeParent(Call(w))
  /\ Allowed(Call(w), level[Call(w).lv])
  /\ level' = [level EXCEPT ![Call(w).lv] = Mutated(Call(w), @)]
  /\ GoOn(w, Call(w).qty)
  /\ UNCHANGED <<dbLevel, lock, row, dbRow, rowOwner, begun>>

(* The rejections of mutateInTx: the caller's transaction rolls back. *)
RejectMutation(w) ==
  /\ tx[w].pc = "apply"
  /\ ~IsRecipeParent(Call(w))
  /\ ~Allowed(Call(w), level[Call(w).lv])
  /\ Rollback(w)

(* Fault: the recorded qtyBefore is read after the update. *)
SaveLateResult(w) ==
  /\ tx[w].pc = "result"
  /\ row' = [row EXCEPT ![Call(w).key] =
               DoneRow([lv |-> Call(w).lv, before |-> level[Call(w).lv].onHand,
                        delta |-> Call(w).qty])]
  /\ Return(w)
  /\ UNCHANGED <<level, dbLevel, lock, dbRow, rowOwner, begun>>

SaveResult(w) ==
  /\ tx[w].pc = "result"
  /\ row' = [row EXCEPT ![Call(w).key] =
               DoneRow([lv |-> Call(w).lv, before |-> Call(w).before,
                        delta |-> Call(w).qty])]
  /\ Return(w)
  /\ UNCHANGED <<level, dbLevel, lock, dbRow, rowOwner, begun>>

(* One UPDATE that locks the row and tests its guard on the latest version. *)
AdjustReserved(w) ==
  /\ tx[w].pc = "reserve"
  /\ CanLock(w, Call(w).lv)
  /\ \/ /\ ReserveAllowed(Call(w), level[Call(w).lv])
        /\ level' = [level EXCEPT ![Call(w).lv] = Reserved(Call(w), @)]
        /\ lock' = [lock EXCEPT ![Call(w).lv] = w]
        /\ Return(w)
        /\ UNCHANGED <<dbLevel, row, dbRow, rowOwner, begun>>
     \/ /\ ~ReserveAllowed(Call(w), level[Call(w).lv])
        /\ Rollback(w)

Commit(w) ==
  /\ tx[w].pc = "commit"
  /\ dbLevel' = [l \in Levels |-> IF lock[l] = w THEN level[l] ELSE dbLevel[l]]
  /\ lock' = [l \in Levels |-> IF lock[l] = w THEN NoWorker ELSE lock[l]]
  /\ dbRow' = [k \in Keys |-> IF rowOwner[k] = w THEN row[k] ELSE dbRow[k]]
  /\ rowOwner' = [k \in Keys |-> IF rowOwner[k] = w THEN NoWorker ELSE rowOwner[k]]
  /\ tx' = [tx EXCEPT ![w] = Idle]
  /\ UNCHANGED <<level, row, begun>>

(* The session w waits for, if its next statement is blocked. *)
WaitsFor(w, v) ==
  /\ v # w
  /\ \/ tx[w].pc \in {"lock", "reserve"} /\ lock[Call(w).lv] = v
     \/ tx[w].pc = "insert" /\ rowOwner[Call(w).key] = v

(* Sessions that wait for one another: Postgres aborts one of them. *)
Deadlocked(S) == S # {} /\ \A w \in S : \E v \in S : WaitsFor(w, v)

(* Fault: no deadlock detection. *)
NoVictim(w) == FALSE

DeadlockVictim(w) ==
  /\ \E S \in SUBSET Workers :
       /\ w \in S
       /\ Deadlocked(S)
       /\ \A T \in SUBSET S : Deadlocked(T) => T = S
  /\ Rollback(w)

(* The process dies, the connection drops or the caller throws. *)
Fail(w) ==
  /\ tx[w].pc # "idle"
  /\ Rollback(w)

Step(w) ==
  \/ FindKey(w)
  \/ InsertKey(w)
  \/ LockLevel(w)
  \/ ApplyRecipe(w)
  \/ ApplyLevel(w)
  \/ RejectMutation(w)
  \/ SaveResult(w)
  \/ AdjustReserved(w)
  \/ Commit(w)
  \/ DeadlockVictim(w)

Next == \E w \in Workers : Begin(w) \/ Step(w) \/ Fail(w)

Spec == Init /\ [][Next]_vars

(* Nobody is obliged to start a transaction and none has to fail, but a     *)
(* session executes its next statement once it is not blocked, and the      *)
(* database's deadlock detector always runs.                                *)
FairSpec == Spec /\ \A w \in Workers : WF_vars(Step(w))

-----------------------------------------------------------------------------

TypeOK ==
  /\ level \in [Levels -> LevelRow]
  /\ dbLevel \in [Levels -> LevelRow]
  /\ lock \in [Levels -> Workers \cup {NoWorker}]
  /\ row \in [Keys -> KeyRow]
  /\ dbRow \in [Keys -> KeyRow]
  /\ rowOwner \in [Keys -> Workers \cup {NoWorker}]
  /\ tx \in [Workers -> [pc: Pc, todo: Seq(Op)]]
  /\ begun \in 0..MaxBegun

(* Two sessions selling one product never lose an update: the committed    *)
(* ledger is an unbroken chain that ends in the committed quantity.        *)
LedgerChain == \A l \in Levels : Chained(l, dbLevel[l])

(* Whatever interleaving of sales, components and reservations, stock that *)
(* no caller forces is neither oversold nor sold from under a reservation. *)
NoOversell ==
  \A l \in Levels \ NegativeLevels :
    0 <= dbLevel[l].reserved /\ dbLevel[l].reserved <= dbLevel[l].onHand

(* A retried or concurrent call with the same key moves stock once: two    *)
(* committed ledger entries never carry the same key.                      *)
ExactlyOnce ==
  \A l, m \in Levels :
    \A i \in 1..Len(dbLevel[l].ledger), j \in 1..Len(dbLevel[m].ledger) :
      /\ dbLevel[l].ledger[i].key # NoKey
      /\ dbLevel[l].ledger[i].key = dbLevel[m].ledger[j].key
      => l = m /\ i = j

(* The answer a replay returns is the mutation that was done, and an answer *)
(* that claims a movement has its ledger entry.                             *)
RecordedResult ==
  \A k \in Keys :
    LET entries == UNION {{l} \X (1..Len(dbLevel[l].ledger)) : l \in Levels}
        found == {p \in entries : dbLevel[p[1]].ledger[p[2]].key = k} IN
    /\ dbRow[k].st = "none" => found = {}
    /\ \A p \in found : dbRow[k] = DoneRow([lv |-> p[1],
                                  before |-> dbLevel[p[1]].ledger[p[2]].before,
                                  delta |-> dbLevel[p[1]].ledger[p[2]].delta])
    /\ dbRow[k].st = "done" /\ dbRow[k].res.delta # 0 => found # {}

(* No key is ever committed in the pending state, so that a request is     *)
(* never refused as "in flight" for good.                                  *)
NoPendingCommitted == \A k \in Keys : dbRow[k].st # "pending"

(* Committed history is not rewritten: ledgers only grow at their end and  *)
(* the answer recorded for a key never changes.                            *)
HistoryStep ==
  /\ \A l \in Levels :
       /\ Len(dbLevel[l].ledger) <= Len(dbLevel'[l].ledger)
       /\ \A i \in 1..Len(dbLevel[l].ledger) :
            dbLevel'[l].ledger[i] = dbLevel[l].ledger[i]
  /\ \A k \in Keys : dbRow[k].st # "none" => dbRow'[k] = dbRow[k]
HistoryKept == [][HistoryStep]_vars

(* Every transaction comes to an end, although two of them may lock two    *)
(* levels, or a level and a key, in opposite orders.                       *)
TransactionsEnd == \A w \in Workers : tx[w].pc # "idle" ~> tx[w].pc = "idle"

-----------------------------------------------------------------------------
(* The inductive strengthening of the safety invariants above. *)

Ops(s) == {s[i] : i \in 1..Len(s)}

(* What a call may be: the requests' calls, and those the engine adds. *)
OpFine(op) ==
  /\ op.kind = "result" => op.key # NoKey
  /\ op.kind = "mutate" /\ op.neg => op.lv \in NegativeLevels

(* Each point of control is in a call of the right kind. *)
CallsOK ==
  \A w \in Workers :
    /\ tx[w].pc \in {"idle", "commit"} <=> tx[w].todo = <<>>
    /\ tx[w].pc \in {"find", "insert", "lock", "apply"} => Call(w).kind = "mutate"
    /\ tx[w].pc \in {"find", "insert"} => Call(w).key # NoKey
    /\ tx[w].pc \in {"reserve", "result"} => Call(w).kind = tx[w].pc
    /\ \A op \in Ops(tx[w].todo) : OpFine(op)

(* Rows differ from their committed version only under their writer's lock. *)
UnlockedSame == \A l \in Levels : lock[l] = NoWorker => level[l] = dbLevel[l]
ApplyLocked == \A w \in Workers : tx[w].pc = "apply" => lock[Call(w).lv] = w
RowsOwned ==
  \A k \in Keys :
    IF rowOwner[k] = NoWorker THEN row[k] = dbRow[k]
    ELSE row[k] # NoRow /\ dbRow[k] = NoRow

LocksOK == UnlockedSame /\ ApplyLocked /\ RowsOwned

(* The writer of a key is still going to record its result. *)
Owes(w, k) ==
  \/ tx[w].pc \in {"lock", "apply"} /\ Call(w).key = k
  \/ \E op \in Ops(tx[w].todo) : op.kind = "result" /\ op.key = k

PendingOwed ==
  \A k \in Keys : row[k] = PendingRow =>
    rowOwner[k] \in Workers /\ Owes(rowOwner[k], k)
OwersOwn == \A w \in Workers, k \in Keys : Owes(w, k) => rowOwner[k] = w

KeysOK ==
  /\ \A k \in Keys : dbRow[k] # PendingRow
  /\ PendingOwed
  /\ OwersOwn

(* One version of a level: its ledger explains it and it is not oversold. *)
Sound(l, lv) ==
  /\ Chained(l, lv)
  /\ l \notin NegativeLevels => 0 <= lv.reserved /\ lv.reserved <= lv.onHand

StockOK == \A l \in Levels : Sound(l, level[l]) /\ Sound(l, dbLevel[l])

Positions(l) == 1..Len(level[l].ledger)
KeyAt(l, i) == level[l].ledger[i].key

(* Uncommitted entries extend the committed ledger ... *)
PrefixOK ==
  \A l \in Levels :
    /\ Len(dbLevel[l].ledger) <= Len(level[l].ledger)
    /\ \A i \in 1..Len(dbLevel[l].ledger) : dbLevel[l].ledger[i] = level[l].ledger[i]

(* ... under a key that the holder of the level's lock owns, whereas        *)
(* committed entries are under a recorded key.                              *)
KeyedOK ==
  \A l \in Levels : \A i \in Positions(l) : KeyAt(l, i) # NoKey =>
    IF i <= Len(dbLevel[l].ledger) THEN dbRow[KeyAt(l, i)] # NoRow
    ELSE lock[l] = rowOwner[KeyAt(l, i)]

DistinctOK ==
  \A l, m \in Levels : \A i \in Positions(l), j \in Positions(m) :
    KeyAt(l, i) # NoKey /\ KeyAt(l, i) = KeyAt(m, j) => l = m /\ i = j

(* A key whose call has not moved stock yet is in no ledger. *)
FreshOK ==
  \A w \in Workers :
    tx[w].pc \in {"lock", "apply"} /\ Call(w).key # NoKey =>
      \A l \in Levels : \A i \in Positions(l) : KeyAt(l, i) # Call(w).key

EntriesOK == PrefixOK /\ KeyedOK /\ DistinctOK /\ FreshOK

IInv == TypeOK /\ CallsOK /\ LocksOK /\ KeysOK /\ StockOK /\ EntriesOK
=============================================================================
