SPECIFICATION FairSpec
CONSTANTS
    Procs = {p1, p2}
    Requests <- MCRequests
    Limit <- MCLimit
    MMin = 6
    MMax = 7
    MaxBalls = 200
    Needs <- MCNeeds
    Junk <- MCJunk
INVARIANTS TypeOK SearchIsCheapest OnlyTornFilesMislead
PROPERTIES AnswersStable CallsReturn
