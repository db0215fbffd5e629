CONSTANTS
  Name = {thread_pool, lora}
  Stored <- MCStored
  Restartable = {thread_pool}
  Thread = {t1, t2}
  Dogs = {d1}
  NoOne = NoOne
  MAX_COMPONENTS = 2
  check_interval = 1
  max_restart_count = 1
  auto_restart = TRUE
  WideTime = TRUE
  MaxLag = 1
SPECIFICATION FairSpec
 
PROPERTIES  DeadIsReported PassEnds
