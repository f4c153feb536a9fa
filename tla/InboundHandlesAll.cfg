\* A text that does not parse in front of a command.
CONSTANTS
  Texts <- NullOrCommand
  Handlers = {"leave", "decref"}
  MaxReceived = 2
  InCapacity = 2
  OutCapacity = 1
SPECIFICATION Spec
INVARIANT HandlesAllCommands
