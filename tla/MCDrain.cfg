SPECIFICATION DrainFairSpec
CONSTANTS
    goal = goal
    plain = plain
    Wakes = {goal, plain}
    Goals = {goal}
    Subjects = {"s"}
    Subject <- MCSubject
    Nothing = Nothing
    MaxAttempts = 2
    GoalAttempts = 2
    MaxFaults = 2
INVARIANTS AttemptsCounted
PROPERTIES SettledForGood WakesSettle
CHECK_DEADLOCK FALSE
