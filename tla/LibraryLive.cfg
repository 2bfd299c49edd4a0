\* What must happen in the end.
SPECIFICATION FairSpec
CONSTANTS
    None = None
    Foreign = Foreign
    d1 = d1
    d2 = d2
    i1 = i1
    i2 = i2
    f1 = f1
    f2 = f2
    f3 = f3
    pdf = pdf
    epub = epub
    Downloads <- TwoDownloads
    Issues <- OneIssue
    Files <- ThreeFiles
    Formats <- TwoFormats
    Of <- FileOf
    FormatOf <- FileFormat
    Rank <- PdfFirst
    Readings <- OneReading
    Events = {"remove", "restore", "fix", "files", "leaves", "library",
              "fails", "restart"}
    MaxEvents = 3
PROPERTIES MissingIsReported FixEnds LinkedInTheEnd
