\* Ex with a child and no argument: post_ex accepts that shape, but
\* pre_ex's check_stdarg reads argv[0] first.
CONSTANTS
  Docs <- NoArgDocs
  Secs <- MCSecs
  ManDocs <- MCManDocs
SPECIFICATION TreeSpec
CHECK_DEADLOCK FALSE
INVARIANT
  NoAbort
