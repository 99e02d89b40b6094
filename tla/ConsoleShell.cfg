SPECIFICATION ConsoleSpec
CONSTANTS
    Episodes = {a, b}
    None = None
    Ops = {"blacklist", "delete", "purge"}
    Requests = {1, 2}
    JobLimit = 2
    PageLimit = 3
    RowsPerPage = 1
INVARIANTS OneRequestPerKey DialogOwnsItsState
PROPERTIES ButtonsComeBack DrawerSettles JobsSettle
