\* One of the machines at a time; their instances are in MCPortfolio.
\* A plan is blocked or done, a session and a replay end.
SPECIFICATION Spec
INVARIANTS PlanIsSound BooksAreTrue
PROPERTIES PositionsGoOneWay FillsAreReal
CHECK_DEADLOCK FALSE
