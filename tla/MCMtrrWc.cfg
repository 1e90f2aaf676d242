CONSTANTS num_aps = 2
          core0 = core0
          core1 = core1
          Core = {core0, core1}
          core <- MCcore
SPECIFICATION WcFairSpec
INVARIANTS CachedOnlySettled OkMeansInstalled
PROPERTY CallReturns
CHECK_DEADLOCK FALSE
