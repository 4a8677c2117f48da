SPECIFICATION Spec
CONSTANTS
  Calls = {"file", "report", "page"}
  Inputs <- AllInputs
INVARIANTS
  RouteIsAsPromised
  ProfileTellsTheStory
  ValidationIsOfTheReturned
  PanicKeepsItsPlace
