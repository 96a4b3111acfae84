SPECIFICATION Spec
CONSTANT MaxRecords = 2
INVARIANT ReopenResumes
