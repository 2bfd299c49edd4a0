\* Two downloads of an issue in two formats under everything that may happen.
SPECIFICATION Spec
CONSTANTS
    None = None
    Foreign = Foreign
    d1 = d1
    d2 = d2
    i1 = i1
    i2 = i2
    f1 = f1
    f2 = f2
    f3 = f3
    pdf = pdf
    epub = epub
    Downloads <- TwoDownloads
    Issues <- TwoIssues
    Files <- ThreeFiles
    Formats <- TwoFormats
    Of <- FileOf
    FormatOf <- FileFormat
    Rank <- PdfFirst
    Readings <- FileReadings
    Events = {"remove", "restore", "fix", "files", "leaves", "pattern", "library",
              "fails", "restart"}
    MaxEvents = 3
INVARIANTS RowNamesItsDownload
PROPERTIES NoUnaskedRepair ForeignFilesAreSafe FirstDownloadStays
