SPECIFICATION Spec
CONSTANTS
    w1 = w1
    Workers = {w1}
    Nobody = Nobody
    f1 = f1
    Providers = {f1}
    MaxPrompts = 1
    MaxEdits = 1
INVARIANT CredentialReachesSvn
