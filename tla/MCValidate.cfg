\* The validator and the tree dumps over every document family: section
\* order, no abort, the mdoc and man dumps, and the walk implementing the
\* rule list with every document decided.
CONSTANTS
  Docs <- MCDocs
  Secs <- MCSecs
  ManDocs <- MCManDocs
SPECIFICATION TreeSpec
\* The walk ends after the post call of ROOT or at the first failure.
CHECK_DEADLOCK FALSE
INVARIANTS
  TypeOK
  SectionOrder
  NoAbort
  TreeListing
  ManTreeListing
PROPERTIES
  AcceptedSpec
