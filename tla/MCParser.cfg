SPECIFICATION Spec
CONSTANTS
  Name = {"turn", "nick", "build", "buy"}
  OtherWord = {"x"}
  Number = {1, 2}
  MaxReceived = 5
INVARIANTS
  LinesToCommands
  ArgumentsAlive
PROPERTIES
  ParserComesToRest
CHECK_DEADLOCK FALSE
