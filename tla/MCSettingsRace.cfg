SPECIFICATION SettingsSpec
CONSTANTS
  r1 = r1
  r2 = r2
  norow = norow
  unset = unset
  Catalog <- TwoKeys
  Default <- TwoDefaults
  Texts <- FewTexts
  NumberOf <- FewNumbers
  Decimals <- FewDecimals
  NoRow = norow
  Unset = unset
  Env <- ProxyFromEnv
  Requests <- TwoRequests
  Resets = TRUE
PROPERTIES SavesAreAtomic
