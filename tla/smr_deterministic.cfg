SPECIFICATION Spec
CONSTANTS
  Replicas = {r1, r2}
  None = None a1 = a1 a2 = a2 k1 = k1 k2 = k2 bad = bad v1 = v1 v2 = v2 huge = huge garbled = garbled
  Workloads <- OwnProcess
  Accounts <- AccountIds
  Keys <- StoreKeys
  Values <- StoreValues
  MinInt <- Lowest MaxInt = 3 MaxAmount = 3 max_keys = 1
  MaxLog = 3 MaxSnapshots = 0 MaxRestarts = 0 MaxLocal = 0
INVARIANT Deterministic
CHECK_DEADLOCK FALSE
