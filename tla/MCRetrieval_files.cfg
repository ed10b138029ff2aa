\* Files of up to four lines, in every order, and the retrievers they lead to.
SPECIFICATION RSpec
CONSTANTS
  Name = {1, 2}
  Lines <- AllLines
  MaxLines = 4
  SystemTool = "apt-get"
  OtherTools = {"brew", "vcpkg"}
  MainMode = "shared"
  Found <- FoundTools
  ApiKey = TRUE
  AlternateRepo = "http"
INVARIANTS
  OrderIrrelevant
  HandlerFits
  FoldersOwned
