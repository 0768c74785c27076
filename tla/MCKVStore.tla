----------------------------- MODULE MCKVStore -----------------------------
EXTENDS KVStore, TLC

Set(k, v) == [op |-> "set", key |-> k, value |-> v]
Delete(k) == [op |-> "delete", key |-> k]
Other(name) == [op |-> name]

Sets    == {<<Set(k, v)>> : k \in Keys, v \in Values}
Deletes == {<<Delete(k)>> : k \in Keys}
Walks   == {<<Other(name)>> : name \in {"get", "clear", "snapshot", "restore", "invalid"}}

\* Batches that write two keys, or fail after writing one.
Batches == {<<Set(p[1], v), Set(p[2], v)>> : p \in {q \in Keys \X Keys : q[1] # q[2]}, v \in Values}
           \cup {s \o <<Other("invalid")>> : s \in Sets}

AllCalls == Sets \cup Deletes \cup Walks \cup Batches

Symm == Permutations(Clients) \cup Permutations(Keys) \cup Permutations(Values)
=============================================================================
