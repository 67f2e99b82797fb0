CONSTANTS
  SysPrio <- OneSystemProcess
  MlfqUsers = {2, 3}
  LEVELS = 3
  TIME_ALLOTMENT = 1
  PRIORITY_BOOST_PERIOD = 4
  MLFQ_QUANTUM = 1
  SleepTimes = {2}
  LotteryUsers = {2, 3, 4}
  Tickets = {0, 1, 3}
  LOTTERY_QUANTUM = 1
  NPROC = 6
  QUANTUM = 1
  INITPRIO = 1
  CreatePrios = {1, 2}
  Receivers = {2}
  Shells = {1}
  SystemForks = FALSE
  KillCases = {}
SPECIFICATION VariantsSpec
INVARIANTS LevelsMatchQueues HighestLevelRuns NoOverstay
  LotteryIsFair ListsMatchStates
  FamilyIntact CascadeCounts
PROPERTIES NoLevelStarves OnlyWinnersRun CascadeKillsAll
VIEW WhatIsRead
