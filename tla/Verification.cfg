SPECIFICATION MCSpec
CONSTANTS
    key = key  oidc = oidc  c1 = c1
    Signers = {key, oidc}
    KeySigners = {key}
    Clients = {c1}
    MaxFaults = 1
  
PROPERTIES   NamesAreChecked
