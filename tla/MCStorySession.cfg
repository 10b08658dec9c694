SPECIFICATION FairSpec

CONSTANTS
    Crop = {"c1", "c2"}
    MaxStories = 3

INVARIANTS
    FileAndGalleryFollow
    OnlySelectedCropsAreSent
    SentCropsStayOnDisk
    WorkersEndWithTheWindow

PROPERTIES
    GalleryComesBack

CHECK_DEADLOCK FALSE
