\* Every short command line, and every snapshot of two packages and two paths.
CONSTANTS
    zlib = zlib
    curl = curl
    usr = usr
    etc = etc
    pkgdb = pkgdb
    other = other
    Packages <- TwoPackages
    Paths <- TwoPaths
    StorePaths <- TwoStores
    Identities <- OneIdentity
    Names <- TwoNames
    None = None
    MaxArguments = 3
SPECIFICATION Spec
INVARIANTS RunsAsGiven UsageErrorsAreReal ReportIsTrue
