CONSTANTS
 t1 = t1
 t2 = t2
 v1 = v1
 v2 = v2
 c1 = c1
 Validations = {v1, v2}
 ContractOf <- OneContract
 MaxConcurrent = 2
 Runners = {t1, t2}
 Keys = {here, everywhere}
 here = here
 everywhere = everywhere
 Nobody = Nobody
 Threshold = 2
 Cooldown = 2
 Margin = 1
 SlotAge = 1
 MaxNow = 3
 MaxOps = 3
 None = None
 NoDate = NoDate
 RawResults <- GivenResults
 Gaps = {1, 6}
 ScoringWindow = 3
 LastTime = 5
 MaxReadings = 4
 RuleInputs <- GivenAnswers
 TrackerInputs <- GivenTrackers
 ScoreInputs <- GivenScores
 SeriesInputs <- GivenSeries
SPECIFICATION Spec
INVARIANTS ReviewsWhenDue OneFreshRun ValidationsSound
 ExplanationsHold ScoresFair HistoryTold
CHECK_DEADLOCK FALSE
SYMMETRY Symmetric
