---------------------------- MODULE MCSmrReplicas ----------------------------
(* Workloads for SmrReplicas.  "bad" is an account id or a key that is        *)
(* refused, "huge" a value that is too large, "garbled" what is left of bytes  *)
(* that are no text.  The integers are -4..3.                                 *)
EXTENDS SmrReplicas, TLC

CONSTANTS a1, a2, k1, k2, bad, v1, v2, huge, garbled

Create(a, n)      == [op |-> "CreateAccount", id |-> a, amount |-> n]
Deposit(a, n)     == [op |-> "Deposit", id |-> a, amount |-> n]
Withdraw(a, n)    == [op |-> "Withdraw", id |-> a, amount |-> n]
Transfer(a, b, n) == [op |-> "Transfer", id |-> a, to |-> b, amount |-> n]
Balance(a)        == [op |-> "GetBalance", id |-> a]
Look(a)           == [op |-> "GetAccount", id |-> a]
History(a, n)     == [op |-> "GetTransactionHistory", id |-> a, limit |-> n]

BankBatches == { <<Create(a1, 2), Create(a2, 2)>>, <<Create(bad, 1)>>, <<Create(a1, -1)>>,
                 <<Deposit(a1, 2), Withdraw(a2, 2)>>, <<Deposit(a2, 1)>>,
                 <<Transfer(a1, a2, 2), Balance(a2)>>, <<Transfer(a1, bad, 1)>>,
                 <<Withdraw(a1, 1)>>, <<Transfer(a2, a1, 1), [op |-> "ListAccounts"]>> }

HistoryBatches == { <<Create(a1, 0)>>, <<Deposit(a1, 1)>>, <<Deposit(a1, 2), Look(a1)>>,
                    <<Deposit(a1, 1), History(a1, 1)>>, <<History(None, None)>> }

Count(op, n) == [op |-> op, value |-> n]

CounterBatches == { <<Count("Increment", 2), Count("Get", 0)>>, <<Count("Decrement", 3)>>,
                    <<Count("Set", 3), Count("Increment", 1)>>, <<Count("Reset", 0)>>,
                    <<Count("Increment", 3)>> }

Do(op, k, v) == [op |-> op, key |-> k, value |-> v]

StoreBatches == { <<Do("Set", k1, v1)>>, <<Do("Set", k2, v2), Do("Get", k1, None)>>,
                  <<Do("Delete", k1, None), Do("Exists", k2, None)>>,
                  <<Do("Set", k2, huge)>>, <<Do("Get", bad, None), Do("Set", k1, v2)>> }

UpdateBatches == { <<Do("Set", k1, v1)>>, <<Do("Set", k1, v2), Do("Get", k1, None)>>,
                   <<Do("Delete", k1, None)>> }

Say(op, k, v) == [op |-> op, key |-> k, value |-> v, utf8 |-> TRUE]
Garbled(k)    == [op |-> "SET", key |-> k, value |-> garbled, utf8 |-> FALSE]

TextBatches == { <<Say("SET", k1, v1), Say("GET", k2, None)>>, <<Say("SET", k2, v2)>>,
                 <<Say("DEL", k1, None)>>, <<Say("SET", k1, v2), Say("malformed", None, None)>>,
                 <<Garbled(k2)>> }

AllWorkloads == { [machine |-> "counter", batches |-> CounterBatches, ticks |-> 0],
                  [machine |-> "bank", batches |-> BankBatches, ticks |-> 0],
                  [machine |-> "bank", batches |-> HistoryBatches, ticks |-> 1],
                  [machine |-> "checked_bank", batches |-> BankBatches, ticks |-> 0],
                  [machine |-> "store", batches |-> StoreBatches, ticks |-> 0],
                  [machine |-> "store", batches |-> UpdateBatches, ticks |-> 1],
                  [machine |-> "in_memory", batches |-> TextBatches, ticks |-> 0],
                  [machine |-> "simple", ticks |-> 0,
                   batches |-> TextBatches \cup {<<Say("COUNT", None, None), Say("LIST", None, None)>>}] }

\* The machines that put something of their own process into states or answers
OwnProcess == {w \in AllWorkloads : w.ticks > 0 \/ w.machine = "simple"}

Lowest      == -4
AccountIds  == {a1, a2}
StoreKeys   == {k1, k2}
StoreValues == {v1, v2}
Symmetry    == Permutations(Replicas)
=============================================================================
