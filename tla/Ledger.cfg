SPECIFICATION Spec
CONSTANTS
    a1 = a1
    a2 = a2
    a3 = a3
    k1 = k1
    k2 = k2
    Id <- MCId
    Key <- MCKey
    IdOf <- MCIdOf
    NoKey = NoKey
    Nobody = Nobody
    Amount = {1, 3}
    Fee = {1}
    MaxTx = 2
    MaxHeight = 3
    RewardRecipientStartHeight = 3
    RewardEnd = 9
    MonthLen = 2
    FirstReward = 3
    OneBurst = 1
INVARIANTS  KeysIndexed
 
CHECK_DEADLOCK FALSE
