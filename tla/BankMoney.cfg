\* A customer who is the president and a governor beside him; deposits,
\* withdrawals, transfers, shops, taxes, logins and saves. The bank always has
\* another operation to offer until MaxMoves is reached.
SPECIFICATION Spec
CONSTANTS
    president = president
    islander = islander
    governor = governor
    Nobody = Nobody
    Player = {president, governor, islander}
    Customer = {president}
    Mainland = {president, governor}
    Member = {president}
    Kingdom <- MCKingdom
    Elected <- MCElected
    Coins <- MCCoins
    Savings <- MCSavings
    Amount = {100}
    Rate = {20}
    AutoBank = FALSE
    MaxMoves = 2
INVARIANTS TypeOK Conserved
