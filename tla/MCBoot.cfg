SPECIFICATION Spec
CONSTANTS
    TXN = 5
    FEATURES <- MCFeatures
    IMAGES <- MCImages
    ADDRESSES <- MCAddresses
    Zero = "zero"
    MAXRESETS = 2
INVARIANTS JumpsToImage BootsFlash FlashAnswers
PROPERTIES FlashRegsKept Boots
CHECK_DEADLOCK FALSE
