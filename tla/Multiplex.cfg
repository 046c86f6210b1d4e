CONSTANTS
    t1 = t1
    t2 = t2
    t3 = t3
    Cap <- MCCap
    MaxId <- MCMaxIdTwo
    Tasks <- MCTasks
SPECIFICATION Spec
INVARIANT SubscribeAssertsHold
