\* One shipped pipeline and two custom templates, at most four changes, and the
\* revisions between which the schema is checked.
CONSTANTS
  Pipelines = {p}
  Shipped = {p}
  Templates = {t, u}
  Revisions <- Stops
  MaxChanges = 4
SPECIFICATION Spec
INVARIANTS SchemaOfRevision EditsSurvive RendersCurrent
PROPERTIES DigestToolKept
CHECK_DEADLOCK FALSE
