\* One user publishes and edits a playbook; one call is placed.
SPECIFICATION BooksSpec
CONSTANTS
    Editors = {"u1"}
    Books = {"b1"}
    Keys = {"k1"}
    Calls = {"c1"}
    MaxEdits = 2
INVARIANT VersionTellsTheScript
CHECK_DEADLOCK FALSE
