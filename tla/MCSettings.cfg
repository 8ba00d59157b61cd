SPECIFICATION SettingsSpec
CONSTANTS
  r1 = r1
  r2 = r2
  norow = norow
  unset = unset
  Catalog <- ThreeKeys
  Default <- ThreeDefaults
  Texts <- SomeTexts
  NumberOf <- SomeNumbers
  Decimals <- SomeDecimals
  NoRow = norow
  Unset = unset
  Env <- ProxyFromEnv
  Requests <- OneRequest
  Resets = TRUE
INVARIANTS SettingsTypeOK
PROPERTIES SavesAreAtomic
