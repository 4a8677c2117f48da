SPECIFICATION Spec
CONSTANTS
  Folders <- MCFolders
  Program = {"pe"}
  Library = {"A", "A2", "B", "N"}
  Metadata = {"v24", "v29"}
  V24 = {"v24"}
  Embeds = {"A"}
  Module = {"mA", "mA2", "mB"}
  NoModule = "no module"
  ModuleOf <- MCModuleOf
  NoName = ""
INVARIANTS
  BindingStaysSole
  ModulesStayHome
  CleanRunIsComplete
  SummaryIsHonest
PROPERTIES
  AppRecoverySpec
