SPECIFICATION SettingsSpec

CONSTANTS
  Commands = {p1, p2, p3}
  Keys = {alias, client}
  Values = {a}
  Unset = Unset
  NoFile = NoFile
  TornFile = TornFile

INVARIANTS
  SettingsTypeOK

PROPERTIES
  UpdatesStand
