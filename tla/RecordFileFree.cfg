\* The comment on first_free_page_no against rollbacks.
SPECIFICATION Spec
CONSTANTS
    MaxPages = 2
    PerPage = 2
    MaxWrites = 2
INVARIANT FirstFreeHasRoom
CHECK_DEADLOCK FALSE
