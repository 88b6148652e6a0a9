CONSTANTS
    bk = bk
    ow = ow
    ot = ot
    wal = wal
    vlt = vlt
    Principals <- MCPrincipals
    Backend = bk
    WalletAcct = wal
    VaultAcct = vlt
    Amounts = {1, 2}
    Fees = {0, 1}
    MaxSupply = 4
VIEW MCView
SPECIFICATION Spec
PROPERTIES
    OnlyAuthorizedDebit
    SweepExact
