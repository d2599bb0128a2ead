\* Direction changes and bit writes on the four banks, one bit per bank.
CONSTANTS
    BankBits = 1
    ChanArgs <- MCChanArgs
SPECIFICATION Spec
PROPERTY OutputBankTracksState
