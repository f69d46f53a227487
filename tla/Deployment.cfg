\* one revision to deploy: it can be deployed again and again
CONSTANT MaxRelease = 1
SPECIFICATION Spec
INVARIANTS ReleaseIsSafe
PROPERTIES UpdatesDisturbNobody ScriptEnds
