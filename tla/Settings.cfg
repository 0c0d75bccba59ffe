SPECIFICATION SettingsSpec
CONSTANTS
  Admins = {a1, a2}
  Names = {"three"}
  Paths = {"p2"}
  Files <- TomlFiles
  Forms <- Panes
  Envs <- Overrides
  Deletable = {"last"}
  MaxEdits = 1
  MaxSaves = 2
SYMMETRY Symm

  
  
PROPERTY RowsKeepSettings
CHECK_DEADLOCK FALSE
