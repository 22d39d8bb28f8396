CONSTANTS
    HeaderLimit = 6
    PieceMax = 3
    NoLength = NoLength
    NoAnswer = NoAnswer
    RequestSize = 2
    Names = {"http", "https", "ftp", "rpi", "8080", "a", "b"}
    Size <- NameSizes
    Answers <- SomeAnswers
    Urls <- SomeUrls
    Certificates <- SomeCertificates
SPECIFICATION LiveSpec
INVARIANTS TypeOK AsksForUrl ChecksCertificate OutputIsBody OutputIsWhole RefusesOnlyLarge
PROPERTIES ClientEnds
CHECK_DEADLOCK FALSE
