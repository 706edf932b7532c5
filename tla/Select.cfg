SPECIFICATION PairedSpec
CONSTANTS
  None = None
  Blank = 2
  Main = Main
  Subqueries <- InnerQueries
  Databases <- AllDatabases
  Queries <- AllQueries
  Methods = {"select", "exists", "count", "aggregate"}
INVARIANTS TypeOK RowsSelected NothingLost OrderedAsAsked DistinctOnce DatesListed AnswersAgree SumsAgree
CHECK_DEADLOCK FALSE
