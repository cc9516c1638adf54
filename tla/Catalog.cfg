SPECIFICATION Spec
CONSTANTS
    Files <- MCFiles
    Hash <- MCHash
    Unreadable <- MCUnreadable
    BadThumb <- MCBadThumb
    Camera <- MCCamera
    Stamp <- MCStamp
    BurstSeconds = 2
    Musiq <- MCMusiq
    Maniqa <- MCManiqa
    Aesthetic <- MCAesthetic
    FaceCount <- MCFaceCount
    Unit = 12
    ClipBatch = 2
    FaceBatch = 1
    Labels = {0}
    MaxClusterings = 2
INVARIANTS
    FacesOnce
    DoneMeansDone
    EveryPhotoListed
    OneRecommendedEach
PROPERTIES
    IngestWholeOrNothing
    RankFollowsMeasures
CHECK_DEADLOCK FALSE
