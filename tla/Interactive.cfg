SPECIFICATION Spec
CONSTANTS
  Keys = {"ctrl up", "accent", "esc", "enter", "d", "k", "y"}
  MaxKeys = 3
  Provider = "grok"
  MaxReconnects = 2
CHECK_DEADLOCK FALSE
INVARIANTS TypeOK KeysWhole TerminalClean
PROPERTY NoSteal
