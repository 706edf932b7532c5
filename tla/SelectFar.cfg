SPECIFICATION Spec
CONSTANTS
  None = None
  Blank = 2
  Main = Main
  Subqueries <- InnerQueries
  Databases <- Related
  Queries <- FarQueries
  Methods = {"select"}
INVARIANT
  RowsSelected
CHECK_DEADLOCK FALSE
