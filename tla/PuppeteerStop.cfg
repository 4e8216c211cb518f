SPECIFICATION PuppeteerSpec
CONSTANTS
  Child = {c1}
  MaxCommands = 2
CHECK_DEADLOCK FALSE
PROPERTY StopIsHeeded
