SPECIFICATION Spec
CONSTANT FirstYear = 1000
CONSTANT LastYear = 2900
INVARIANT KeyFieldsAgree
PROPERTY DateKeyOrders
