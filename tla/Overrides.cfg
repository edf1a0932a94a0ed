\* One request, one or two providers, up to two rules of each.
CONSTANTS
  Absent = Absent
  Fields = {"max_tokens"}
  Values <- MCValues
  Unset = Absent
  Medium = "medium"
  Empty = ""
  Canonical <- MCCanonical
  Folded <- MCFolded
  ModelNames = {"sonnet", "opus"}
  Clients <- MCClients
  Selections <- MCSelections
SPECIFICATION Spec
INVARIANTS
  TypeOK
  SentIsOwnOverride
  DisabledStaysDisabled
