SPECIFICATION WebSpec
CHECK_DEADLOCK FALSE
CONSTANTS
  Plans = {buy, grow}
  Yield = {grow}
  Caps = {1, 2}
  MaxJobs = 2
  Budgets <- MCBudgets
  safe = safe  grow1 = grow1  grow2 = grow2
  SkillPlans = {safe, grow1, grow2}
  YieldPlans = {grow1, grow2}
  PerBuy = 2
  PerDay = 3
  Put = 4
  MaxOpen = 2
  Requests = {1, 2}
  Leeways <- MCLeeways
INVARIANTS  SkillTrue
PROPERTIES AnsweredOnce
