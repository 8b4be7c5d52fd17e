\* A CUSTOM section right after NAME, with an ordinary body: the rule list
\* allows only acceptance, post_sh_body warns as for NAME's body.
CONSTANTS
  Docs <- CustomDocs
  Secs <- MCSecs
  ManDocs <- MCManDocs
SPECIFICATION TreeSpec
CHECK_DEADLOCK FALSE
PROPERTY
  AcceptedSpec
