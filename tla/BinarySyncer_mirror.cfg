SPECIFICATION BinarySpec
CONSTANTS
  p1 = p1  p2 = p2
  Process = {p1, p2}
  Adapter = {"node", "nwjs", "api", "edgedriver", "bucket", "prisma", "imagemin", "sqlcipher", "nodepregyp", "cypress", "playwright", "puppeteer", "chrome"}
  MaxVersion = 2
  MaxClock = 3
  MaxEvents = 4

SYMMETRY ProcessSymmetry
INVARIANTS DirsWhole NewestWhole FinishedOnce
CHECK_DEADLOCK FALSE
