\* post_it counts -column cells against the list's first argument.
CONSTANTS
  Docs <- ColumnDocs
  Secs <- MCSecs
  ManDocs <- MCManDocs
SPECIFICATION TreeSpec
CHECK_DEADLOCK FALSE
INVARIANT ColumnItems
