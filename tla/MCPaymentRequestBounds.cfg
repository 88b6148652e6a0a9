CONSTANTS
    adm = adm
    opr = opr
    mer = mer
    i1 = i1
    i2 = i2
    f1 = f1
    f2 = f2
    pay1 = pay1
    Principals <- MCPrincipals
    Admin = adm
    InitOperator = opr
    RequestIds <- MCOneRequestId
    References <- MCReferences
    PaymentIds <- MCPaymentIds
    AmountCap = 3
    MaxTime = 2
SYMMETRY MCSymmetry
VIEW MCView
SPECIFICATION Spec
INVARIANTS
    AmountBoundsOrdered
